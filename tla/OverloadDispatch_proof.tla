----------------------- MODULE OverloadDispatch_proof -----------------------
(***************************************************************************)
(* Proofs about overload dispatch, for any number of functions and names,  *)
(* and any signatures and arguments.  What a signature costs is not looked *)
(* into: Score is only assumed to be -1 or a cost below IntMax.            *)
(***************************************************************************)
EXTENDS OverloadDispatch, SequenceTheorems, TLAPS

-----------------------------------------------------------------------------
(***************************************************************************)
(* The inductive invariant.                                                *)
(***************************************************************************)
Rest(x) == IF x \in Functions THEN chain[x] ELSE {}

\* A function links to an older one, which its keepalive refers to; and what
\* can be reached through links from one that is not freed is not freed.
Linkage(f) ==
  /\ keepalive[f] = next[f]
  /\ next[f] \in Functions => next[f] < f /\ Registered(next[f])
  /\ chain[f] = {f} \cup Rest(next[f])
  /\ \A g \in chain[f] : g <= f /\ Registered(g)
  /\ \A g \in chain[f] : g # f => \E h \in chain[f] : next[h] = g
  /\ f \notin freed => chain[f] \cap freed = {}

ChainInv ==
  /\ \A s \in Slots : slot[s] \in Functions => Registered(slot[s]) /\ slot[s] \notin freed
  /\ \A f \in freed : Registered(f)
  /\ \A f, g \in Functions : Registered(f) /\ g < f => Registered(g)
  /\ \A f \in Functions : Registered(f) => Linkage(f)
  /\ \A f \in Functions : ~Registered(f) => next[f] = None

\* The score of f in the call going on.
Cost(f) == Score(signature[f], args)

\* The functions scored and those still linked to are the chain of the head;
\* a frame is that of a function scored, and there is one frame for each.
FrameInv ==
  /\ head \in Functions /\ Registered(head) /\ head \notin freed
  /\ args \in ArgLists
  /\ phase = "down" => /\ at \in Functions /\ at \in chain[head]
                       /\ tried \cup chain[at] = chain[head]
                       /\ \A g \in tried : g > at
                       /\ \A g \in tried : \E i \in DOMAIN frames : frames[i].self = g
  /\ phase # "down" => at = None /\ tried = chain[head]
  /\ \A i \in DOMAIN frames :
       frames[i].self \in tried /\ frames[i].score = Cost(frames[i].self)
  /\ \A i, j \in DOMAIN frames : frames[i].self = frames[j].self => i = j

\* The context holds the best of the functions scored.
BestOf(c, C, cost) ==
  /\ c.candidates = <<>> => c.best = IntMax
  /\ c.candidates # <<>> => c.best < IntMax
  /\ \A i \in DOMAIN c.candidates :
       c.candidates[i] \in C /\ cost[c.candidates[i]] = c.best
  /\ \A i, j \in DOMAIN c.candidates : c.candidates[i] = c.candidates[j] => i = j
  /\ \A f \in C : cost[f] >= 0 => cost[f] >= c.best
  /\ \A f \in C : cost[f] = c.best => \E i \in DOMAIN c.candidates : c.candidates[i] = f

Costs == [f \in Functions |-> Cost(f)]

ContextInv == BestOf(ctx, tried, Costs)

\* Until a function is run the only best one has a frame; afterwards it has not.
RunInv ==
  /\ invoked = <<>> =>
       /\ phase \in {"down", "up"}
       /\ \A f \in tried : Cost(f) = ctx.best /\ Found(ctx) =>
            \E i \in DOMAIN frames : frames[i].self = f
  /\ invoked # <<>> =>
       /\ phase \in {"running", "up"}
       /\ Found(ctx) /\ invoked = <<ctx.candidates[1]>>
  /\ phase = "running" => frames # <<>> /\ invoked = <<Deepest.self>>
  /\ phase = "up" /\ invoked # <<>> =>
       \A i \in DOMAIN frames : frames[i].self # invoked[1]

CallInv ==
  IF phase = "idle" THEN head = None /\ at = None /\ frames = <<>> /\ invoked = <<>> /\ args = <<>>
  ELSE FrameInv /\ ContextInv /\ RunInv

IInv == TypeOK /\ ChainInv /\ CallInv

-----------------------------------------------------------------------------
(***************************************************************************)
(* Type correctness.                                                       *)
(***************************************************************************)
Context == [best : Nat, candidates : Seq(Functions)]

LEMMA ContextTyped ==
  ASSUME NEW c \in Context, NEW f \in Functions, NEW score \in Int
  PROVE  Considered(c, f, score) \in Context
<1>1. Append(c.candidates, f) \in Seq(Functions)
  BY DEF Context
<1>2. CASE score >= 0 /\ score < c.best
  BY <1>2 DEF Considered, Context
<1>3. CASE ~(score >= 0 /\ score < c.best) /\ score = c.best
  BY <1>1, <1>3 DEF Considered, Context
<1>4. CASE ~(score >= 0 /\ score < c.best) /\ score # c.best
  BY <1>4 DEF Considered
<1>. QED
  BY <1>2, <1>3, <1>4

LEMMA PoppedTyped ==
  ASSUME frames \in Seq(Frame), frames # <<>>
  PROVE  /\ Popped \in Seq(Frame) /\ Len(Popped) = Len(frames) - 1
         /\ DOMAIN Popped = 1..(Len(frames) - 1) /\ DOMAIN frames = 1..Len(frames)
         /\ \A i \in DOMAIN Popped : Popped[i] = frames[i]
         /\ Len(frames) \in DOMAIN frames /\ Len(frames) \in Nat
         /\ Deepest \in Frame
<1>1. Len(frames) \in Nat \ {0} /\ DOMAIN frames = 1..Len(frames)
  BY EmptySeq, LenProperties
<1>2. \A i \in 1..(Len(frames) - 1) : frames[i] \in Frame
  BY <1>1, ElementOfSeq
<1>3. /\ Popped \in Seq(Frame) /\ Len(Popped) = Len(frames) - 1
      /\ \A i \in 1..(Len(frames) - 1) : Popped[i] = frames[i]
  BY <1>1, <1>2, SubSeqProperties DEF Popped
<1>4. DOMAIN Popped = 1..(Len(frames) - 1)
  BY <1>3, LenProperties
<1>. QED
  BY <1>1, <1>3, <1>4, ElementOfSeq DEF Deepest

\* A function that has been registered has a cost for the arguments.
LEMMA CostTyped ==
  ASSUME TypeOK, args \in ArgLists, NEW f \in Functions, Registered(f)
  PROVE  Cost(f) \in -1..(IntMax - 1)
BY ScoreAssumption DEF TypeOK, Registered, Cost

LEMMA TypeInit == Init => TypeOK
<1>. SUFFICES ASSUME Init PROVE TypeOK
  OBVIOUS
<1>1. NewContext \in [best : Nat, candidates : Seq(Functions)]
  BY OverloadAssumption DEF NewContext
<1>. QED
  BY <1>1, OverloadAssumption DEF Init, TypeOK, Link

LEMMA TypeCallOver == ASSUME TypeOK, CallOver, UNCHANGED <<slot, registered, freed>>,
         outcome' \in {"none", "pending", "returned", "threw", "unmatched", "ambiguous"}
  PROVE TypeOK'
<1>1. NewContext \in [best : Nat, candidates : Seq(Functions)]
  BY OverloadAssumption DEF NewContext
<1>. QED
  BY <1>1 DEF TypeOK, CallOver, registered, Link

LEMMA TypeStep == IInv /\ [Next]_vars => TypeOK'
<1>. SUFFICES ASSUME IInv, [Next]_vars PROVE TypeOK'
  OBVIOUS
<1>. USE OverloadAssumption DEF IInv
<1>1. ASSUME NEW s \in Slots, NEW f \in Functions, NEW sig \in Signatures, Register(s, f, sig)
      PROVE  TypeOK'
  <2>1. Linked(f, slot[s]) \in Link
    BY DEF Linked, Link
  <2>2. {f} \cup (IF slot[s] \in Functions THEN chain[slot[s]] ELSE {}) \in SUBSET Functions
    BY DEF TypeOK
  <2>. QED
    BY <1>1, <2>1, <2>2 DEF Register, Kept, TypeOK, callState
<1>2. ASSUME NEW s \in Slots, NEW x \in {None, Other} \cup {slot[t] : t \in Slots}, Assign(s, x)
      PROVE  TypeOK'
  <2>1. x \in Functions \cup {None, Other}
    BY DEF TypeOK
  <2>. QED
    BY <1>2, <2>1 DEF Assign, TypeOK, registered, callState
<1>3. ASSUME NEW f \in Functions, Collect(f) PROVE TypeOK'
  BY <1>3 DEF Collect, TypeOK, registered, callState
<1>4. ASSUME NEW s \in Slots, NEW a \in ArgLists, Call(s, a) PROVE TypeOK'
  <2>1. NewContext \in [best : Nat, candidates : Seq(Functions)]
    BY DEF NewContext
  <2>. QED
    BY <1>4, <2>1 DEF Call, TypeOK, registered, Link
<1>5. CASE Enter
  <2>1. at \in Functions /\ Registered(at) /\ args \in ArgLists
    BY <1>5 DEF Enter, CallInv, FrameInv, ChainInv, Linkage
  <2>2. Cost(at) \in -1..(IntMax - 1)
    BY <2>1, CostTyped
  <2>3. [self |-> at, score |-> Cost(at)] \in Frame
    BY <2>1, <2>2 DEF Frame
  <2>4. ctx' \in Context
    BY <1>5, <2>1, <2>2, ContextTyped DEF Enter, Context, TypeOK, Cost
  <2>5. frames' \in Seq(Frame)
    BY <1>5, <2>3 DEF Enter, TypeOK, Cost
  <2>. QED
    BY <1>5, <2>1, <2>4, <2>5 DEF Enter, TypeOK, registered, Link, Context
<1>6. CASE Leave
  <2>1. Popped \in Seq(Frame)
    BY <1>6, PoppedTyped DEF Leave, TypeOK
  <2>. QED
    BY <1>6, <2>1 DEF Leave, TypeOK, registered
<1>7. CASE Invoke
  <2>1. Deepest.self \in Functions
    BY <1>7, PoppedTyped DEF Invoke, TypeOK, Frame
  <2>. QED
    BY <1>7, <2>1 DEF Invoke, TypeOK, registered
<1>8. CASE Return
  <2>1. Popped \in Seq(Frame)
    BY <1>8, PoppedTyped DEF Return, CallInv, RunInv, TypeOK
  <2>. QED
    BY <1>8, <2>1 DEF Return, TypeOK, registered
<1>9. CASE Throw \/ Finish
  BY <1>9, TypeCallOver DEF Throw, Finish
<1>10. CASE UNCHANGED vars
  BY <1>10 DEF vars, registered, callState, TypeOK
<1>. QED
  BY <1>1, <1>2, <1>3, <1>4, <1>5, <1>6, <1>7, <1>8, <1>9, <1>10 DEF Next, Step

-----------------------------------------------------------------------------
(***************************************************************************)
(* Links and the collector.                                                *)
(***************************************************************************)
LEMMA ChainInit == Init => ChainInv
BY OverloadAssumption DEF Init, ChainInv, Registered

\* Registering touches no function that is there.
LEMMA ChainRegister ==
  ASSUME TypeOK, ChainInv,
         NEW s \in Slots, NEW f \in Functions, NEW sig \in Signatures, Register(s, f, sig)
  PROVE  ChainInv'
<1>. USE OverloadAssumption
<1>1. /\ signature'[f] = sig /\ sig # NoSignature /\ ~Registered(f) /\ f \notin freed
      /\ next'[f] = Linked(f, slot[s]) /\ keepalive'[f] = Linked(f, slot[s])
      /\ chain'[f] = {f} \cup Rest(slot[s]) /\ slot'[s] = f /\ freed' = freed
      /\ \A g \in Functions : g < f => Registered(g)
  BY DEF Register, Kept, ChainInv, TypeOK, Rest
<1>2. \A g \in Functions : g # f =>
        /\ signature'[g] = signature[g] /\ next'[g] = next[g]
        /\ keepalive'[g] = keepalive[g] /\ chain'[g] = chain[g]
  BY DEF Register, TypeOK
<1>3. \A t \in Slots : t # s => slot'[t] = slot[t]
  BY DEF Register, TypeOK
<1>4. \A g \in Functions : Registered(g)' <=> g = f \/ Registered(g)
  BY <1>1, <1>2 DEF Registered
<1>5. slot[s] \in Functions =>
        Registered(slot[s]) /\ slot[s] \notin freed /\ slot[s] # f /\ Linkage(slot[s])
  BY <1>1 DEF ChainInv
<1>6. ASSUME NEW g \in Functions, Registered(g) PROVE Linkage(g)'
  <2>1. Linkage(g) /\ g # f
    BY <1>1, <1>6 DEF ChainInv
  <2>2. \A h \in chain[g] : h \in Functions /\ h # f
    BY <1>1, <2>1 DEF Linkage, TypeOK
  <2>3. Rest(next[g])' = Rest(next[g])
    BY <1>1, <1>2, <2>1 DEF Linkage, Rest
  <2>. QED
    BY <1>1, <1>2, <1>4, <2>1, <2>2, <2>3 DEF Linkage
<1>7. ~Registered(f)
  BY <1>1
<1>8. Linkage(f)'
  <2>1. CASE slot[s] \in Functions
    <3>. PICK g \in Functions : g = slot[s]
      BY <2>1
    <3>1. next'[f] = g /\ keepalive'[f] = g /\ chain'[f] = {f} \cup chain[g]
          /\ next'[g] = next[g] /\ chain'[g] = chain[g] /\ g \notin freed /\ g # f
      BY <1>1, <1>2, <1>5, <2>1 DEF Linked, Rest
    <3>2. g < f /\ Registered(g)
      BY <1>5, <1>7, <2>1 DEF ChainInv, Functions
    <3>3. /\ \A h \in chain[g] : h \in Functions /\ h <= g /\ Registered(h)
          /\ \A h \in chain[g] : h # g => \E k \in chain[g] : next[k] = h
          /\ chain[g] \cap freed = {}
      BY <1>5, <2>1, <3>1 DEF Linkage, TypeOK
    <3>4. \A h \in chain[g] : next'[h] = next[h] /\ h # f
      BY <1>2, <1>7, <3>3
    <3>5. \A h \in chain'[f] : h <= f /\ Registered(h)'
      BY <1>4, <3>1, <3>2, <3>3 DEF Functions
    <3>6. \A h \in chain'[f] : h # f => \E k \in chain'[f] : next'[k] = h
      BY <3>1, <3>3, <3>4
    <3>7. chain'[f] \cap freed' = {}
      BY <1>1, <3>1, <3>3
    <3>8. Rest(next[f])' = chain[g]
      BY <3>1 DEF Rest
    <3>. QED
      BY <1>4, <3>1, <3>2, <3>5, <3>6, <3>7, <3>8 DEF Linkage
  <2>2. CASE slot[s] \notin Functions
    <3>1. next'[f] = None /\ keepalive'[f] = None /\ chain'[f] = {f} /\ None \notin Functions
      BY <1>1, <2>2 DEF Linked, Rest
    <3>. QED
      BY <1>1, <1>4, <3>1 DEF Linkage, Rest, Functions
  <2>. QED
    BY <2>1, <2>2
<1>9. (\A g, h \in Functions : Registered(g) /\ h < g => Registered(h))'
  BY <1>1, <1>4 DEF ChainInv
<1>10. (\A t \in Slots : slot[t] \in Functions => Registered(slot[t]) /\ slot[t] \notin freed)'
  BY <1>1, <1>3, <1>4 DEF ChainInv
<1>11. (\A g \in freed : Registered(g))'
  BY <1>1, <1>4 DEF ChainInv, TypeOK
<1>12. (\A g \in Functions : ~Registered(g) => next[g] = None)'
  BY <1>2, <1>4 DEF ChainInv
<1>. QED
  BY <1>4, <1>6, <1>8, <1>9, <1>10, <1>11, <1>12 DEF ChainInv

\* What can be collected, no link leads to.
LEMMA ChainCollect ==
  ASSUME TypeOK, ChainInv, NEW f \in Functions, Collect(f)
  PROVE  ChainInv'
<1>1. /\ Registered(f) /\ freed' = freed \cup {f}
      /\ UNCHANGED <<slot, signature, next, keepalive, chain>>
      /\ \A s \in Slots : slot[s] # f
      /\ \A g \in Functions \ freed : keepalive[g] # f
  BY DEF Collect, registered
<1>2. ASSUME NEW g \in Functions, Registered(g), g \notin freed' PROVE f \notin chain[g]
  <2>1. Linkage(g) /\ g \notin freed /\ g # f
    BY <1>1, <1>2 DEF ChainInv
  <2>2. SUFFICES ASSUME f \in chain[g] PROVE FALSE
    OBVIOUS
  <2>3. PICK h \in chain[g] : next[h] = f
    BY <2>1, <2>2 DEF Linkage
  <2>4. h \in Functions /\ Registered(h) /\ h \notin freed
    BY <2>1 DEF Linkage, TypeOK
  <2>5. keepalive[h] = f
    BY <2>3, <2>4 DEF ChainInv, Linkage
  <2>. QED
    BY <1>1, <2>4, <2>5
<1>3. ASSUME NEW g \in Functions, Registered(g) PROVE Linkage(g)'
  <2>1. Linkage(g)
    BY <1>3 DEF ChainInv
  <2>2. g \notin freed' => chain'[g] \cap freed' = {}
    BY <1>1, <1>2, <1>3, <2>1 DEF Linkage
  <2>. QED
    BY <1>1, <2>1, <2>2 DEF Linkage, Rest, Registered
<1>. QED
  BY <1>1, <1>3 DEF ChainInv, Registered

LEMMA ChainStep == TypeOK /\ ChainInv /\ [Next]_vars => ChainInv'
<1>. SUFFICES ASSUME TypeOK, ChainInv, [Next]_vars PROVE ChainInv'
  OBVIOUS
<1>1. ASSUME NEW s \in Slots, NEW x \in {None, Other} \cup {slot[t] : t \in Slots}, Assign(s, x)
      PROVE  ChainInv'
  <2>1. UNCHANGED <<signature, next, keepalive, chain, freed>>
    BY <1>1 DEF Assign, registered
  <2>2. \A t \in Slots : slot'[t] \in Functions => \E u \in Slots : slot'[t] = slot[u]
    BY <1>1, OverloadAssumption DEF Assign, TypeOK
  <2>. QED
    BY <2>1, <2>2 DEF ChainInv, Linkage, Rest, Registered
<1>2. CASE UNCHANGED <<slot, signature, next, keepalive, chain, freed>>
  BY <1>2 DEF ChainInv, Linkage, Rest, Registered
<1>3. ASSUME (\E s \in Slots, a \in ArgLists : Call(s, a)) \/ Step \/ UNCHANGED vars
      PROVE  UNCHANGED <<slot, signature, next, keepalive, chain, freed>>
  BY <1>3 DEF Call, Step, Enter, Leave, Invoke, Return, Throw, Finish, vars, registered
<1>. QED
  BY <1>1, <1>2, <1>3, ChainRegister, ChainCollect DEF Next

-----------------------------------------------------------------------------
(***************************************************************************)
(* The recursion.                                                          *)
(***************************************************************************)
LEMMA TriedRegistered ==
  ASSUME TypeOK, ChainInv, FrameInv, phase \in {"down", "running", "up"}
  PROVE  \A f \in tried : f \in Functions /\ Registered(f) /\ f \in chain[head]
<1>1. tried \subseteq chain[head]
  BY DEF FrameInv
<1>2. Linkage(head)
  BY DEF ChainInv, FrameInv
<1>. QED
  BY <1>1, <1>2 DEF Linkage, TypeOK

\* Code that registers, assigns or collects does not disturb a call.
LEMMA CallUndisturbed ==
  ASSUME TypeOK, ChainInv, CallInv, callState' = callState,
         \A f \in Functions : Registered(f) =>
            signature'[f] = signature[f] /\ chain'[f] = chain[f],
         head \notin freed => head \notin freed'
  PROVE  CallInv'
<1>1. UNCHANGED <<phase, args, head, at, frames, ctx, outcome, tried, invoked>>
  BY DEF callState
<1>2. CASE phase = "idle"
  BY <1>1, <1>2 DEF CallInv
<1>3. CASE phase # "idle"
  <2>1. FrameInv /\ ContextInv /\ RunInv /\ phase \in {"down", "running", "up"}
    BY <1>3 DEF CallInv, TypeOK
  <2>2. \A f \in tried : f \in Functions /\ Registered(f)
    BY <2>1, TriedRegistered
  <2>3. \A f \in tried : signature'[f] = signature[f]
    BY <2>2
  <2>4. /\ chain'[head] = chain[head] /\ signature'[head] = signature[head]
        /\ phase = "down" => chain'[at] = chain[at]
    <3>1. head \in Functions /\ Registered(head) /\ Linkage(head)
      BY <2>1 DEF FrameInv, ChainInv
    <3>2. phase = "down" => at \in Functions /\ Registered(at)
      BY <2>1, <3>1 DEF FrameInv, Linkage
    <3>. QED
      BY <3>1, <3>2
  <2>5. FrameInv'
    BY <1>1, <2>1, <2>3, <2>4 DEF FrameInv, Cost, Registered
  <2>6. ContextInv'
    <3>1. \A f \in tried : Costs'[f] = Costs[f]
      BY <1>1, <2>2, <2>3 DEF Costs, Cost
    <3>2. PICK now : now = Costs'
      OBVIOUS
    <3>3. BestOf(ctx, tried, now)
      BY <2>1, <3>1, <3>2 DEF ContextInv, BestOf
    <3>. QED
      BY <1>1, <3>2, <3>3 DEF ContextInv, BestOf
  <2>7. RunInv'
    BY <1>1, <2>1, <2>3 DEF RunInv, Cost, Found, Deepest
  <2>. QED
    BY <1>1, <1>3, <2>5, <2>6, <2>7 DEF CallInv
<1>. QED
  BY <1>2, <1>3

LEMMA CallBegins ==
  ASSUME TypeOK, ChainInv, NEW s \in Slots, NEW a \in ArgLists, Call(s, a)
  PROVE  CallInv'
<1>1. /\ phase' = "down" /\ args' = a /\ head' = slot[s] /\ at' = slot[s] /\ frames' = <<>>
      /\ ctx' = NewContext /\ tried' = {} /\ invoked' = <<>> /\ slot[s] \in Functions
      /\ UNCHANGED <<slot, signature, next, keepalive, chain, freed>>
  BY DEF Call, registered
<1>2. Registered(slot[s]) /\ slot[s] \notin freed /\ slot[s] \in chain[slot[s]]
  BY <1>1 DEF ChainInv, Linkage
<1>3. FrameInv'
  BY <1>1, <1>2 DEF FrameInv, Registered
<1>4. ContextInv'
  BY <1>1 DEF ContextInv, BestOf, NewContext
<1>5. RunInv'
  BY <1>1 DEF RunInv
<1>. QED
  BY <1>1, <1>3, <1>4, <1>5 DEF CallInv

\* A context that holds the best of a set, given one more function.
LEMMA ContextConsiders ==
  ASSUME NEW c \in Context, NEW C \in SUBSET Functions, NEW f \in Functions, f \notin C,
         NEW cost, \A g \in C \cup {f} : cost[g] \in Int,
         cost[f] < IntMax, IntMax \in Nat, BestOf(c, C, cost)
  PROVE  BestOf(Considered(c, f, cost[f]), C \cup {f}, cost)
<1>. DEFINE d == Considered(c, f, cost[f])
<1>. SUFFICES BestOf(d, C \cup {f}, cost)
  OBVIOUS
<1>. USE DEF BestOf
<1>1. c.best \in Nat /\ c.candidates \in Seq(Functions)
  BY DEF Context
<1>2. CASE cost[f] >= 0 /\ cost[f] < c.best
  <2>1. d.best = cost[f] /\ d.candidates = <<f>>
    BY <1>2 DEF Considered
  <2>. HIDE DEF d
  <2>2. d.candidates # <<>> /\ DOMAIN d.candidates = {1} /\ d.candidates[1] = f
    BY <2>1
  <2>. QED
    BY <1>1, <1>2, <2>1, <2>2
<1>3. CASE ~(cost[f] >= 0 /\ cost[f] < c.best) /\ cost[f] = c.best
  <2>1. d.best = c.best /\ d.candidates = Append(c.candidates, f)
    BY <1>3 DEF Considered, Context
  <2>. HIDE DEF d
  <2>2. /\ d.candidates # <<>>
        /\ DOMAIN c.candidates = 1..Len(c.candidates) /\ Len(c.candidates) \in Nat
        /\ DOMAIN d.candidates = 1..(Len(c.candidates) + 1)
        /\ \A i \in 1..Len(c.candidates) : d.candidates[i] = c.candidates[i]
        /\ d.candidates[Len(c.candidates) + 1] = f
    BY <1>1, <2>1, AppendProperties, LenProperties
  <2>3. \A i \in DOMAIN d.candidates :
          IF i = Len(c.candidates) + 1 THEN d.candidates[i] = f
          ELSE i \in DOMAIN c.candidates /\ d.candidates[i] = c.candidates[i]
    BY <2>2
  <2>4. \A i \in DOMAIN c.candidates : i \in DOMAIN d.candidates /\ d.candidates[i] = c.candidates[i]
    BY <2>2
  <2>5. \A i, j \in DOMAIN d.candidates : d.candidates[i] = d.candidates[j] => i = j
    BY <2>3
  <2>6. \A g \in C \cup {f} : cost[g] = d.best => \E i \in DOMAIN d.candidates : d.candidates[i] = g
    <3>1. Len(c.candidates) + 1 \in DOMAIN d.candidates
      BY <2>2
    <3>. QED
      BY <2>1, <2>2, <2>4, <3>1
  <2>7. \A i \in DOMAIN d.candidates :
          d.candidates[i] \in C \cup {f} /\ cost[d.candidates[i]] = d.best
    BY <1>3, <2>1, <2>3
  <2>8. d.best < IntMax /\ \A g \in C \cup {f} : cost[g] >= 0 => cost[g] >= d.best
    BY <1>1, <1>3, <2>1
  <2>. QED
    BY <2>2, <2>5, <2>6, <2>7, <2>8
<1>4. CASE ~(cost[f] >= 0 /\ cost[f] < c.best) /\ cost[f] # c.best
  <2>1. d = c
    BY <1>4 DEF Considered
  <2>. HIDE DEF d
  <2>. QED
    BY <1>1, <1>4, <2>1
<1>. QED
  BY <1>2, <1>3, <1>4

LEMMA CallEnters ==
  ASSUME IInv, Enter
  PROVE  CallInv'
<1>. USE OverloadAssumption
<1>1. /\ phase = "down" /\ FrameInv /\ ContextInv /\ RunInv /\ TypeOK /\ ChainInv
      /\ ctx' = Considered(ctx, at, Cost(at))
      /\ frames' = Append(frames, [self |-> at, score |-> Cost(at)])
      /\ tried' = tried \cup {at} /\ at' = next[at]
      /\ phase' = (IF next[at] = None THEN "up" ELSE "down")
      /\ UNCHANGED <<slot, signature, next, keepalive, chain, freed, args, head, outcome, invoked>>
  BY DEF IInv, CallInv, Enter, Cost, registered
<1>2. /\ at \in Functions /\ Registered(at) /\ Linkage(at) /\ at \notin tried
      /\ head \in Functions /\ Registered(head) /\ args \in ArgLists
      /\ tried \cup chain[at] = chain[head] /\ invoked = <<>>
  <2>1. at \in Functions /\ at \in chain[head] /\ Linkage(head) /\ tried \cup chain[at] = chain[head]
    BY <1>1 DEF FrameInv, ChainInv
  <2>2. Registered(at) /\ Linkage(at)
    BY <1>1, <2>1 DEF Linkage, ChainInv
  <2>3. at \notin tried
    BY <1>1 DEF FrameInv, Functions
  <2>. QED
    BY <1>1, <2>1, <2>2, <2>3 DEF FrameInv, RunInv
<1>3. Cost(at) \in -1..(IntMax - 1) /\ [self |-> at, score |-> Cost(at)] \in Frame
  BY <1>1, <1>2, CostTyped DEF Frame
<1>4. \A f \in tried : f \in Functions /\ Registered(f)
  BY <1>1, TriedRegistered
<1>5. /\ DOMAIN frames = 1..Len(frames) /\ Len(frames) \in Nat
      /\ DOMAIN frames' = 1..(Len(frames) + 1)
      /\ \A i \in 1..Len(frames) : frames'[i] = frames[i]
      /\ frames'[Len(frames) + 1] = [self |-> at, score |-> Cost(at)]
  <2>1. frames \in Seq(Frame)
    BY <1>1 DEF TypeOK
  <2>2. frames' \in Seq(Frame)
    BY <1>1, <1>3, <2>1
  <2>. QED
    BY <1>1, <1>3, <2>1, <2>2, AppendProperties, LenProperties
<1>6. \A f : Cost(f)' = Cost(f)
  BY <1>1 DEF Cost
<1>7. FrameInv'
  <2>1. phase' = "down" =>
          /\ at' \in Functions /\ at' \in chain'[head'] /\ tried' \cup chain'[at'] = chain'[head']
          /\ \A g \in tried' : g > at'
    <3>. SUFFICES ASSUME phase' = "down"
                  PROVE  /\ next[at] \in Functions /\ next[at] \in chain[head]
                         /\ tried \cup {at} \cup chain[next[at]] = chain[head]
                         /\ \A g \in tried \cup {at} : g > next[at]
      BY <1>1
    <3>1. next[at] \in Functions /\ next[at] < at /\ Registered(next[at])
      BY <1>1, <1>2 DEF TypeOK, Link, Linkage
    <3>2. chain[at] = {at} \cup chain[next[at]] /\ next[at] \in chain[next[at]]
      BY <1>1, <1>2, <3>1 DEF Linkage, Rest, ChainInv
    <3>3. \A g \in tried : g > at
      BY <1>1 DEF FrameInv
    <3>. QED
      BY <1>2, <1>4, <3>1, <3>2, <3>3 DEF Functions
  <2>2. phase' # "down" => at' = None /\ tried' = chain'[head']
    <3>. SUFFICES ASSUME next[at] = None PROVE tried \cup {at} = chain[head]
      BY <1>1
    <3>1. chain[at] = {at}
      BY <1>2 DEF Linkage, Rest
    <3>. QED
      BY <1>2, <3>1
  <2>3. \A i \in DOMAIN frames' :
          frames'[i].self \in tried' /\ frames'[i].score = Cost(frames'[i].self)
    <3>1. \A i \in DOMAIN frames : frames[i].self \in tried /\ frames[i].score = Cost(frames[i].self)
      BY <1>1 DEF FrameInv
    <3>. QED
      BY <1>1, <1>5, <3>1
  <2>4. \A i, j \in DOMAIN frames' : frames'[i].self = frames'[j].self => i = j
    <3>1. \A i \in DOMAIN frames : frames[i].self # at
      BY <1>1, <1>2 DEF FrameInv
    <3>2. \A i, j \in DOMAIN frames : frames[i].self = frames[j].self => i = j
      BY <1>1 DEF FrameInv
    <3>. QED
      BY <1>5, <3>1, <3>2
  <2>5. \A g \in tried' : \E i \in DOMAIN frames' : frames'[i].self = g
    <3>1. \A g \in tried : \E i \in DOMAIN frames : frames[i].self = g
      BY <1>1 DEF FrameInv
    <3>2. Len(frames) + 1 \in DOMAIN frames' /\ DOMAIN frames \subseteq DOMAIN frames'
      BY <1>5
    <3>. QED
      BY <1>1, <1>5, <3>1, <3>2
  <2>6. head' \in Functions /\ Registered(head)' /\ head' \notin freed' /\ args' \in ArgLists
    BY <1>1, <1>2 DEF FrameInv, Registered
  <2>. QED
    BY <1>6, <2>1, <2>2, <2>3, <2>4, <2>5, <2>6 DEF FrameInv
<1>8. ContextInv'
  <2>1. \A f \in tried \cup {at} : Costs[f] \in Int /\ f \in Functions
    BY <1>1, <1>2, <1>3, <1>4, CostTyped DEF Costs
  <2>2. Costs[at] = Cost(at) /\ Costs[at] < IntMax
    BY <1>2, <1>3 DEF Costs
  <2>3. tried \in SUBSET Functions /\ ctx \in Context
    BY <1>1 DEF TypeOK, Context
  <2>4. BestOf(Considered(ctx, at, Costs[at]), tried \cup {at}, Costs)
    BY <1>1, <1>2, <2>1, <2>2, <2>3, ContextConsiders DEF ContextInv
  <2>5. Costs' = Costs
    BY <1>6 DEF Costs
  <2>. QED
    BY <1>1, <2>2, <2>4, <2>5 DEF ContextInv
<1>9. RunInv'
  <2>1. phase' \in {"down", "up"} /\ invoked' = <<>>
    BY <1>1, <1>2
  <2>2. \A g \in tried' : \E i \in DOMAIN frames' : frames'[i].self = g
    <3>1. \A g \in tried : \E i \in DOMAIN frames : frames[i].self = g
      BY <1>1 DEF FrameInv
    <3>2. Len(frames) + 1 \in DOMAIN frames' /\ DOMAIN frames \subseteq DOMAIN frames'
      BY <1>5
    <3>. QED
      BY <1>1, <1>5, <3>1, <3>2
  <2>. QED
    BY <2>1, <2>2 DEF RunInv
<1>. QED
  BY <1>1, <1>7, <1>8, <1>9 DEF CallInv

\* A frame that is the only best one is that of the one candidate.
LEMMA TheBest ==
  ASSUME TypeOK, FrameInv, ContextInv, NEW f \in tried, Cost(f) = ctx.best, Found(ctx)
  PROVE  f = ctx.candidates[1]
<1>1. PICK i \in DOMAIN ctx.candidates : ctx.candidates[i] = f
  BY DEF TypeOK, ContextInv, BestOf, Costs
<1>2. DOMAIN ctx.candidates = 1..1
  BY LenProperties DEF TypeOK, Found
<1>. QED
  BY <1>1, <1>2

\* Going back up.
LEMMA CallUnwinds ==
  ASSUME IInv, Leave \/ Invoke \/ Return
  PROVE  CallInv'
<1>. USE OverloadAssumption
<1>1. /\ TypeOK /\ FrameInv /\ ContextInv /\ RunInv /\ phase \in {"running", "up"} /\ phase' \in {"running", "up"}
      /\ frames # <<>> /\ frames \in Seq(Frame)
      /\ UNCHANGED <<slot, signature, next, keepalive, chain, freed, args, head, at, ctx, tried>>
  BY DEF IInv, CallInv, Leave, Invoke, Return, registered, RunInv, TypeOK
<1>2. /\ Len(Popped) = Len(frames) - 1 /\ DOMAIN Popped = 1..(Len(frames) - 1)
      /\ DOMAIN frames = 1..Len(frames) /\ Len(frames) \in DOMAIN frames
      /\ \A i \in DOMAIN Popped : i \in DOMAIN frames /\ Popped[i] = frames[i]
  BY <1>1, PoppedTyped
<1>3. \A f : Cost(f)' = Cost(f)
  BY <1>1 DEF Cost
<1>4. frames' = frames \/ frames' = Popped
  BY DEF Leave, Invoke, Return
<1>5. \A i \in DOMAIN frames' : i \in DOMAIN frames /\ frames'[i] = frames[i]
  BY <1>2, <1>4
<1>6. FrameInv'
  BY <1>1, <1>3, <1>5 DEF FrameInv, Registered
<1>7. ContextInv'
  BY <1>1, <1>3 DEF ContextInv, BestOf, Costs
<1>8. RunInv'
  <2>1. CASE Leave
    <3>1. phase = "up" /\ phase' = "up" /\ frames' = Popped /\ invoked' = invoked /\ ~IsBest
      BY <2>1 DEF Leave
    <3>2. \A f \in tried : Cost(f) = ctx.best /\ Found(ctx) => Deepest.self # f
      <4>1. Deepest.score = Cost(Deepest.self)
        BY <1>1, <1>2 DEF FrameInv, Deepest
      <4>. QED
        BY <3>1, <4>1 DEF IsBest
    <3>3. invoked = <<>> => \A f \in tried : Cost(f) = ctx.best /\ Found(ctx) =>
            \E i \in DOMAIN Popped : Popped[i].self = f
      <4>. SUFFICES ASSUME invoked = <<>>, NEW f \in tried, Cost(f) = ctx.best, Found(ctx)
                    PROVE  \E i \in DOMAIN Popped : Popped[i].self = f
        OBVIOUS
      <4>1. PICK i \in DOMAIN frames : frames[i].self = f
        BY <1>1 DEF RunInv
      <4>2. i # Len(frames)
        BY <3>2, <4>1 DEF Deepest
      <4>. QED
        BY <1>2, <4>1, <4>2
    <3>. QED
      BY <1>1, <1>2, <1>3, <3>1, <3>3 DEF RunInv, Found
  <2>2. CASE Invoke
    <3>1. phase = "up" /\ phase' = "running" /\ frames' = frames /\ IsBest
          /\ invoked' = Append(invoked, Deepest.self)
      BY <2>2 DEF Invoke
    <3>2. Deepest.self \in tried /\ Cost(Deepest.self) = ctx.best /\ Found(ctx)
      BY <1>1, <1>2, <3>1 DEF FrameInv, Deepest, IsBest
    <3>3. Deepest.self = ctx.candidates[1]
      BY <1>1, <3>2, TheBest
    <3>4. invoked = <<>>
      <4>. SUFFICES ASSUME invoked # <<>> PROVE FALSE
        OBVIOUS
      <4>1. invoked = <<ctx.candidates[1]>> /\ \A i \in DOMAIN frames : frames[i].self # invoked[1]
        BY <1>1, <3>1 DEF RunInv
      <4>. QED
        BY <1>2, <3>3, <4>1 DEF Deepest
    <3>5. invoked' = <<Deepest.self>> /\ invoked' # <<>>
      BY <3>1, <3>4
    <3>6. Deepest' = Deepest
      BY <3>1 DEF Deepest
    <3>. QED
      BY <1>1, <3>1, <3>2, <3>3, <3>5, <3>6 DEF RunInv, Found
  <2>3. CASE Return
    <3>1. phase = "running" /\ phase' = "up" /\ frames' = Popped /\ invoked' = invoked
      BY <2>3 DEF Return
    <3>2. invoked = <<Deepest.self>> /\ invoked # <<>> /\ Found(ctx) /\ invoked = <<ctx.candidates[1]>>
      BY <1>1, <3>1 DEF RunInv
    <3>3. \A i \in DOMAIN Popped : Popped[i].self # Deepest.self
      BY <1>1, <1>2 DEF FrameInv, Deepest
    <3>4. invoked[1] = Deepest.self
      BY <3>2
    <3>. QED
      BY <1>1, <3>1, <3>2, <3>3, <3>4 DEF RunInv, Found
  <2>. QED
    BY <2>1, <2>2, <2>3
<1>. QED
  BY <1>1, <1>6, <1>7, <1>8 DEF CallInv

LEMMA CallStep == IInv /\ [Next]_vars => CallInv'
<1>. SUFFICES ASSUME IInv, [Next]_vars PROVE CallInv'
  OBVIOUS
<1>. USE DEF IInv
<1>1. ASSUME NEW s \in Slots, NEW f \in Functions, NEW sig \in Signatures, Register(s, f, sig)
      PROVE  CallInv'
  <2>1. ~Registered(f) /\ callState' = callState /\ freed' = freed
    BY <1>1 DEF Register
  <2>2. \A g \in Functions : g # f => signature'[g] = signature[g] /\ chain'[g] = chain[g]
    BY <1>1 DEF Register, TypeOK
  <2>. QED
    BY <2>1, <2>2, CallUndisturbed
<1>2. ASSUME NEW s \in Slots, NEW x \in {None, Other} \cup {slot[t] : t \in Slots}, Assign(s, x)
      PROVE  CallInv'
  <2>1. callState' = callState /\ UNCHANGED <<signature, chain, freed>>
    BY <1>2 DEF Assign, registered
  <2>. QED
    BY <2>1, CallUndisturbed
<1>3. ASSUME NEW f \in Functions, Collect(f) PROVE CallInv'
  <2>1. callState' = callState /\ UNCHANGED <<signature, chain>> /\ head # f /\ freed' = freed \cup {f}
    BY <1>3 DEF Collect, registered
  <2>. QED
    BY <2>1, CallUndisturbed
<1>4. ASSUME NEW s \in Slots, NEW a \in ArgLists, Call(s, a) PROVE CallInv'
  BY <1>4, CallBegins
<1>5. CASE Enter
  BY <1>5, CallEnters
<1>6. CASE Leave \/ Invoke \/ Return
  BY <1>6, CallUnwinds
<1>7. CASE Throw \/ Finish
  BY <1>7 DEF Throw, Finish, CallOver, CallInv
<1>8. CASE UNCHANGED vars
  <2>1. callState' = callState /\ UNCHANGED <<signature, chain, freed>>
    BY <1>8 DEF vars, registered
  <2>. QED
    BY <2>1, CallUndisturbed
<1>. QED
  BY <1>1, <1>2, <1>3, <1>4, <1>5, <1>6, <1>7, <1>8 DEF Next, Step

LEMMA InvariantHolds == Spec => []IInv
<1>1. Init => IInv
  <2>. SUFFICES ASSUME Init PROVE IInv
    OBVIOUS
  <2>1. CallInv
    BY DEF Init, CallInv
  <2>. QED
    BY <2>1, TypeInit, ChainInit DEF IInv
<1>2. IInv /\ [Next]_vars => IInv'
  BY TypeStep, ChainStep, CallStep DEF IInv
<1>. QED
  BY <1>1, <1>2, PTL DEF Spec

-----------------------------------------------------------------------------
(***************************************************************************)
(* Every variable keeps its type, whatever the signatures cost: a score is *)
(* -1 or a cost, and a context's best score is one or IntMax.              *)
(***************************************************************************)
THEOREM TypeCorrect == Spec => []TypeOK
<1>1. IInv => TypeOK
  BY DEF IInv
<1>. QED
  BY <1>1, InvariantHolds, PTL

(***************************************************************************)
(* No bare pointer dangles: neither `next` nor what a call is about to     *)
(* enter or has entered is ever a deleted function_object, for chains of   *)
(* any length and whatever the code that a call runs registers, reassigns  *)
(* and lets the collector take (add_overload's keepalive).                 *)
(***************************************************************************)
THEOREM LinksStay == Spec => []NothingDangles
<1>1. IInv => NothingDangles
  <2>. SUFFICES ASSUME IInv PROVE NothingDangles
    OBVIOUS
  <2>. USE OverloadAssumption DEF IInv
  <2>1. \A g \in freed : g # None /\ g \in Functions
    BY DEF TypeOK
  <2>2. ASSUME NEW f \in Functions \ freed PROVE next[f] \notin freed
    <3>1. CASE Registered(f)
      <4>1. Linkage(f)
        BY <3>1 DEF ChainInv
      <4>2. next[f] \in Functions => next[f] \in chain[next[f]] /\ chain[next[f]] \subseteq chain[f]
        BY <4>1 DEF ChainInv, Linkage, Rest
      <4>. QED
        BY <2>1, <4>1, <4>2 DEF Linkage
    <3>2. CASE ~Registered(f)
      BY <2>1, <3>2 DEF ChainInv
    <3>. QED
      BY <3>1, <3>2
  <2>3. CASE phase = "idle"
    <3>1. frames = <<>>
      BY <2>3 DEF CallInv
    <3>. QED
      BY <2>2, <2>3, <3>1 DEF NothingDangles
  <2>4. CASE phase # "idle"
    <3>1. FrameInv /\ head \in Functions /\ head \notin freed /\ chain[head] \cap freed = {}
      BY <2>4 DEF CallInv, FrameInv, ChainInv, Linkage
    <3>2. tried \subseteq chain[head] /\ (at \in chain[head] \/ at = None)
      BY <3>1 DEF FrameInv
    <3>3. \A i \in DOMAIN frames : frames[i].self \notin freed
      BY <3>1, <3>2 DEF FrameInv
    <3>. QED
      BY <2>1, <2>2, <3>1, <3>2, <3>3 DEF NothingDangles
  <2>. QED
    BY <2>3, <2>4
<1>. QED
  BY <1>1, InvariantHolds, PTL

-----------------------------------------------------------------------------
(***************************************************************************)
(* The recursion implements the choice of the one best overload.           *)
(***************************************************************************)
Among == Rest(head)

Ran == {invoked[i] : i \in DOMAIN invoked}

LEMMA RanWhat ==
  ASSUME IInv, phase # "idle"
  PROVE  /\ invoked = <<>> => Ran = {}
         /\ invoked # <<>> => Ran # {}
         /\ phase = "running" => invoked # <<>>
         /\ phase = "down" => invoked = <<>>
<1>1. RunInv
  BY DEF IInv, CallInv
<1>2. invoked # <<>> => DOMAIN invoked = 1..1
  BY <1>1 DEF RunInv
<1>3. invoked = <<>> => DOMAIN invoked = {}
  BY EmptySeq
<1>. QED
  BY <1>1, <1>2, <1>3 DEF RunInv, Ran

\* Once the recursion turns back, every overload has been scored.
LEMMA AllTried ==
  ASSUME IInv, phase \in {"up", "running"}
  PROVE  /\ Among = tried /\ FrameInv /\ ContextInv /\ RunInv /\ args \in ArgLists
         /\ \A f \in tried : f \in Functions /\ Cost(f) \in -1..(IntMax - 1)
         /\ Promised!Matching(Among, args) = {f \in tried : Cost(f) >= 0}
<1>1. FrameInv /\ ContextInv /\ RunInv
  BY DEF IInv, CallInv
<1>2. Among = tried /\ args \in ArgLists
  BY <1>1 DEF FrameInv, Among, Rest
<1>3. \A f \in tried : f \in Functions /\ Registered(f)
  BY <1>1, TriedRegistered DEF IInv
<1>4. \A f \in tried : Cost(f) \in -1..(IntMax - 1)
  BY <1>2, <1>3, CostTyped DEF IInv
<1>. QED
  BY <1>1, <1>2, <1>3, <1>4 DEF Promised!Matching, Cost

LEMMA RunsTheBest ==
  ASSUME IInv, Invoke
  PROVE  \E f \in Functions : Promised!Run(f)
<1>. DEFINE f == Deepest.self
<1>1. /\ phase = "up" /\ phase' = "running" /\ IsBest /\ frames # <<>> /\ TypeOK
      /\ invoked' = Append(invoked, f)
      /\ UNCHANGED <<slot, signature, chain, args, head, outcome>>
  BY DEF Invoke, IInv, registered
<1>2. /\ Among = tried /\ FrameInv /\ ContextInv /\ RunInv
      /\ \A g \in tried : g \in Functions /\ Cost(g) \in -1..(IntMax - 1)
      /\ Promised!Matching(Among, args) = {g \in tried : Cost(g) >= 0}
  BY <1>1, AllTried
<1>3. Len(frames) \in DOMAIN frames
  BY <1>1, PoppedTyped DEF TypeOK
<1>4. f \in tried /\ Cost(f) = ctx.best /\ Found(ctx) /\ f \in Functions
  BY <1>1, <1>2, <1>3 DEF FrameInv, Deepest, IsBest
<1>. HIDE DEF f
<1>5. f = ctx.candidates[1]
  BY <1>1, <1>2, <1>4, TheBest
<1>6. invoked = <<>>
  <2>. SUFFICES ASSUME invoked # <<>> PROVE FALSE
    OBVIOUS
  <2>1. invoked = <<ctx.candidates[1]>> /\ \A i \in DOMAIN frames : frames[i].self # invoked[1]
    BY <1>1, <1>2 DEF RunInv
  <2>. QED
    BY <1>3, <1>5, <2>1 DEF Deepest, f
<1>7. ctx.best \in Nat /\ \A g \in tried : Cost(g) >= 0 => Cost(g) >= ctx.best
  BY <1>1, <1>2 DEF TypeOK, ContextInv, BestOf, Costs
<1>8. \A g \in tried : Cost(g) = ctx.best => g = f
  BY <1>1, <1>2, <1>4, <1>5, TheBest
<1>9. Promised!Best(Among, args) = {f}
  <2>1. \A g \in tried : Score(signature[g], args) = Cost(g)
    BY DEF Cost
  <2>. QED
    BY <1>2, <1>4, <1>7, <1>8, <2>1 DEF Promised!Best
<1>10. {invoked[i] : i \in DOMAIN invoked} = {} /\ {invoked'[i] : i \in DOMAIN invoked'} = {f}
  <2>1. DOMAIN invoked = {} /\ invoked' = <<f>>
    BY <1>1, <1>6
  <2>2. DOMAIN invoked' = {1} /\ invoked'[1] = f
    BY <2>1
  <2>. QED
    BY <2>1, <2>2
<1>11. Overloads' = Overloads /\ Among' = Among
  BY <1>1 DEF Overloads, Among, Rest
<1>. QED
  BY <1>1, <1>4, <1>9, <1>10, <1>11 DEF Promised!Run, Among, Rest

LEMMA EndsAsPromised ==
  ASSUME IInv, Throw \/ Finish
  PROVE  Promised!End
<1>1. /\ phase \in {"up", "running"} /\ CallOver /\ UNCHANGED <<slot, signature, chain>>
      /\ TypeOK /\ RunInv
  BY DEF Throw, Finish, registered, IInv, CallInv
<1>2. /\ Among = tried /\ FrameInv /\ ContextInv
      /\ \A g \in tried : g \in Functions /\ Cost(g) \in -1..(IntMax - 1)
      /\ Promised!Matching(Among, args) = {g \in tried : Cost(g) >= 0}
  BY <1>1, AllTried
<1>3. /\ phase # "idle" /\ ~(phase' # "idle") /\ args' = <<>> /\ Among' = {}
      /\ {invoked'[i] : i \in DOMAIN invoked'} = {} /\ Overloads' = Overloads
  <2>1. args' = <<>> /\ invoked' = <<>> /\ phase' = "idle" /\ head' = None
    BY <1>1 DEF CallOver
  <2>2. DOMAIN invoked' = {}
    BY <2>1
  <2>. QED
    BY <1>1, <2>1, <2>2, OverloadAssumption DEF Overloads, Among, Rest
<1>4. \/ Ran # {} /\ outcome' \in {"returned", "threw"}
      \/ Promised!Matching(Among, args) = {} /\ outcome' = "unmatched"
      \/ /\ \E f, g \in Promised!Best(Among, args) : f # g
         /\ outcome' = "ambiguous"
  <2>1. CASE Throw
    BY <1>1, <2>1, RanWhat DEF Throw
  <2>2. CASE Finish /\ Found(ctx)
    <3>1. frames = <<>> /\ outcome' = "returned"
      <4>1. ctx.candidates # <<>>
        BY <2>2 DEF Found
      <4>. QED
        BY <2>2, <4>1 DEF Finish
    <3>2. Len(ctx.candidates) = 1 /\ 1 \in DOMAIN ctx.candidates
      BY <1>1, <2>2, LenProperties DEF Found, TypeOK
    <3>3. ctx.candidates[1] \in tried /\ Cost(ctx.candidates[1]) = ctx.best
      BY <1>2, <3>2 DEF ContextInv, BestOf, Costs
    <3>4. invoked # <<>>
      BY <1>1, <2>2, <3>1, <3>3, EmptySeq DEF RunInv
    <3>. QED
      BY <1>1, <3>1, <3>4, RanWhat
  <2>3. CASE Finish /\ ctx.candidates = <<>>
    <3>1. outcome' = "unmatched"
      <4>1. ~Found(ctx)
        BY <2>3 DEF Found
      <4>. QED
        BY <2>3, <4>1 DEF Finish
    <3>2. \A g \in tried : Cost(g) < 0
      <4>1. ctx.best = IntMax /\ IntMax \in Nat
        BY <1>2, <2>3, OverloadAssumption DEF ContextInv, BestOf
      <4>2. \A g \in tried : Costs[g] = Cost(g)
        BY <1>2 DEF Costs
      <4>3. \A g \in tried : Cost(g) >= 0 => Cost(g) >= ctx.best
        BY <1>2, <4>2 DEF ContextInv, BestOf
      <4>. QED
        BY <1>2, <4>1, <4>3
    <3>. QED
      BY <1>2, <3>1, <3>2
  <2>4. CASE Finish /\ ~Found(ctx) /\ ctx.candidates # <<>>
    <3>1. outcome' = "ambiguous"
      BY <2>4 DEF Finish
    <3>2. 1 \in DOMAIN ctx.candidates /\ 2 \in DOMAIN ctx.candidates
      <4>1. DOMAIN ctx.candidates = 1..Len(ctx.candidates) /\ Len(ctx.candidates) \in Nat
        BY <1>1, LenProperties DEF TypeOK
      <4>2. ctx.candidates \in Seq(Functions) /\ ctx.candidates # <<>>
        BY <1>1, <2>4 DEF TypeOK
      <4>3. Len(ctx.candidates) # 0
        BY <4>2, EmptySeq
      <4>4. Len(ctx.candidates) # 1
        BY <2>4 DEF Found
      <4>. QED
        <5>. DEFINE n == Len(ctx.candidates)
        <5>1. n \in Nat /\ n # 0 /\ n # 1 /\ DOMAIN ctx.candidates = 1..n
          BY <4>1, <4>3, <4>4
        <5>. HIDE DEF n
        <5>2. 1 \in 1..n /\ 2 \in 1..n
          BY <5>1
        <5>. QED
          BY <5>1, <5>2
    <3>3. \A i \in DOMAIN ctx.candidates :
            ctx.candidates[i] \in tried /\ Cost(ctx.candidates[i]) = ctx.best
      BY <1>2 DEF ContextInv, BestOf, Costs
    <3>4. ctx.candidates[1] # ctx.candidates[2]
      BY <1>2, <3>2 DEF ContextInv, BestOf
    <3>5. ctx.best \in Nat /\ \A g \in tried : Cost(g) >= 0 => Cost(g) >= ctx.best
      BY <1>1, <1>2 DEF TypeOK, ContextInv, BestOf, Costs
    <3>6. \A f \in tried : Cost(f) = ctx.best => f \in Promised!Best(Among, args)
      <4>1. \A g \in tried : Score(signature[g], args) = Cost(g)
        BY DEF Cost
      <4>. QED
        BY <1>2, <3>5, <4>1 DEF Promised!Best
    <3>. QED
      BY <3>1, <3>2, <3>3, <3>4, <3>6
  <2>. QED
    BY <2>1, <2>2, <2>3, <2>4
<1>. QED
  BY <1>1, <1>3, <1>4 DEF Promised!End, Among, Rest, Ran

LEMMA RegistersAsPromised ==
  ASSUME IInv, NEW s \in Slots, NEW f \in Functions, NEW sig \in Signatures, Register(s, f, sig)
  PROVE  Promised!Register(s, f, sig)
<1>1. /\ CodeRuns /\ ~Registered(f) /\ signature' = [signature EXCEPT ![f] = sig]
      /\ UNCHANGED <<phase, args, head, outcome, invoked>> /\ TypeOK /\ ChainInv
  BY DEF Register, IInv, callState
<1>2. slot'[s] = f /\ chain'[f] = {f} \cup Rest(slot[s])
  BY DEF Register, IInv, TypeOK, Rest
<1>3. /\ \A t \in Slots : t # s => slot'[t] = slot[t]
      /\ \A g \in Functions : g # f => chain'[g] = chain[g]
  BY DEF Register, IInv, TypeOK
<1>4. Overloads' = [Overloads EXCEPT ![s] = @ \cup {f}]
  <2>1. \A t \in Slots : t # s => Overloads'[t] = Overloads[t]
    BY <1>1, <1>3 DEF Overloads, ChainInv
  <2>2. Overloads'[s] = Overloads[s] \cup {f}
    BY <1>2 DEF Overloads, Rest
  <2>. QED
    BY <2>1, <2>2 DEF Overloads
<1>5. Among' = Among
  <2>1. head \in Functions => Registered(head)
    BY <1>1, OverloadAssumption DEF IInv, CallInv, FrameInv
  <2>. QED
    BY <1>1, <1>3, <2>1 DEF Among, Rest
<1>6. ~(phase # "idle") \/ Ran # {}
  BY <1>1, RanWhat DEF CodeRuns
<1>7. signature[f] = NoSignature
  BY <1>1 DEF Registered
<1>. QED
  BY <1>1, <1>4, <1>5, <1>6, <1>7 DEF Promised!Register, Promised!CodeRuns, Among, Rest, Ran

LEMMA StepsAsPromised ==
  IInv /\ [Next]_vars => [Promised!Next]_(Promised!vars)
<1>. SUFFICES ASSUME IInv, [Next]_vars PROVE [Promised!Next]_(Promised!vars)
  OBVIOUS
<1>. USE DEF IInv
<1>1. ASSUME NEW s \in Slots, NEW f \in Functions, NEW sig \in Signatures, Register(s, f, sig)
      PROVE  Promised!Next
  BY <1>1, RegistersAsPromised DEF Promised!Next
<1>2. ASSUME NEW s \in Slots, NEW x \in {None, Other} \cup {slot[t] : t \in Slots}, Assign(s, x)
      PROVE  Promised!Next
  <2>1. /\ CodeRuns /\ slot' = [slot EXCEPT ![s] = x]
        /\ UNCHANGED <<signature, chain, phase, args, head, outcome, invoked>>
    BY <1>2 DEF Assign, registered, callState
  <2>2. ~(phase # "idle") \/ Ran # {}
    BY <2>1, RanWhat DEF CodeRuns
  <2>3. Overloads' = [Overloads EXCEPT ![s] = Rest(x)]
    BY <2>1 DEF Overloads, Rest, TypeOK
  <2>4. Among' = Among
    BY <2>1 DEF Among, Rest
  <2>5. ASSUME NEW C, C = Rest(x) PROVE Promised!Assign(s, C)
    BY <2>1, <2>2, <2>3, <2>4, <2>5 DEF Promised!Assign, Promised!CodeRuns, Among, Rest, Ran
  <2>6. CASE x \in {None, Other}
    BY <2>5, <2>6, OverloadAssumption DEF Promised!Next, Rest
  <2>7. CASE \E t \in Slots : x = slot[t]
    <3>. PICK t \in Slots : x = slot[t]
      BY <2>7
    <3>1. Overloads[t] = Rest(x)
      BY DEF Overloads, Rest
    <3>. QED
      BY <2>5, <3>1 DEF Promised!Next
  <2>. QED
    BY <2>6, <2>7
<1>3. ASSUME NEW s \in Slots, NEW a \in ArgLists, Call(s, a) PROVE Promised!Next
  <2>1. /\ phase = "idle" /\ phase' = "down" /\ args' = a /\ head' = slot[s] /\ slot[s] \in Functions
        /\ outcome' = "pending" /\ invoked' = <<>> /\ UNCHANGED <<slot, signature, chain>>
    BY <1>3 DEF Call, registered
  <2>2. slot[s] \in chain[slot[s]]
    BY <2>1 DEF ChainInv, Linkage
  <2>3. Overloads[s] = chain[slot[s]] /\ Overloads' = Overloads
    BY <2>1 DEF Overloads
  <2>4. {invoked'[i] : i \in DOMAIN invoked'} = {}
    <3>1. DOMAIN invoked' = {}
      BY <2>1
    <3>. QED
      BY <3>1
  <2>5. Promised!Call(s, a)
    BY <2>1, <2>2, <2>3, <2>4 DEF Promised!Call
  <2>. QED
    BY <2>5 DEF Promised!Next
<1>4. CASE Invoke
  BY <1>4, RunsTheBest DEF Promised!Next
<1>5. CASE Throw \/ Finish
  BY <1>5, EndsAsPromised DEF Promised!Next
<1>6. ASSUME (\E f \in Functions : Collect(f)) \/ Enter \/ Leave \/ Return \/ UNCHANGED vars
      PROVE  UNCHANGED (Promised!vars)
  <2>1. /\ UNCHANGED <<slot, signature, chain, args, head, outcome, invoked>>
        /\ (phase' # "idle") = (phase # "idle")
    BY <1>6 DEF Collect, Enter, Leave, Return, vars, registered, callState, TypeOK
  <2>. QED
    BY <2>1 DEF Promised!vars, Overloads
<1>. QED
  BY <1>1, <1>2, <1>3, <1>4, <1>5, <1>6 DEF Next, Step

(***************************************************************************)
(* docs.rst:301-315, for chains of any length, any signatures and any      *)
(* interference by the code run: a call runs the one overload of the       *)
(* name that matches better than every other, once, and nothing otherwise; *)
(* what it raises tells none from several.  (The recursion of invoke and   *)
(* its shared context implement OverloadSpec.)                             *)
(***************************************************************************)
THEOREM OneBestOverload == Spec => ImplementsPromise
<1>1. Init => Promised!Init
  <2>. SUFFICES ASSUME Init PROVE Promised!Init
    OBVIOUS
  <2>1. {invoked[i] : i \in DOMAIN invoked} = {}
    BY DEF Init
  <2>. QED
    BY <2>1, OverloadAssumption DEF Init, Promised!Init, Overloads
<1>2. IInv /\ [Next]_vars => [Promised!Next]_(Promised!vars)
  BY StepsAsPromised
<1>. QED
  BY <1>1, <1>2, InvariantHolds, PTL DEF Spec, ImplementsPromise, Promised!Spec
=============================================================================
