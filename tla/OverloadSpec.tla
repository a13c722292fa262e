---------------------------- MODULE OverloadSpec ----------------------------
(***************************************************************************)
(* What overloading promises (doc/docs.rst, "Signature matching"): a name  *)
(* stands for a set of overloads, all of which are tested; the one that    *)
(* matches better than every other is run, and it alone.  Nothing here     *)
(* knows of chains, recursion or the garbage collector.                    *)
(***************************************************************************)
EXTENDS Integers

CONSTANTS
  Functions, Slots, Signatures, ArgLists,
  Score(_, _),  \* how well a signature matches a list of arguments, or -1
  NoSignature

VARIABLES
  overloads,  \* overloads[s]: what name s stands for; {} for anything else
  signature,  \* signature[f], or NoSignature before f is registered
  busy,       \* a call is going on
  given,      \* its arguments
  among,      \* the overloads it has to choose from
  ran,        \* the functions it has run
  outcome     \* how the last call ended

vars == <<overloads, signature, busy, given, among, ran, outcome>>

Matching(C, a) == {f \in C : Score(signature[f], a) >= 0}

Best(C, a) ==
  {f \in Matching(C, a) :
     \A g \in Matching(C, a) : Score(signature[f], a) <= Score(signature[g], a)}

\* Only code that a call runs can interfere with the call.
CodeRuns == ~busy \/ ran # {}

Register(s, f, sig) ==
  /\ CodeRuns /\ signature[f] = NoSignature
  /\ signature' = [signature EXCEPT ![f] = sig]
  /\ overloads' = [overloads EXCEPT ![s] = @ \cup {f}]
  /\ UNCHANGED <<busy, given, among, ran, outcome>>

Assign(s, C) ==
  /\ CodeRuns
  /\ overloads' = [overloads EXCEPT ![s] = C]
  /\ UNCHANGED <<signature, busy, given, among, ran, outcome>>

Call(s, a) ==
  /\ ~busy /\ overloads[s] # {}
  /\ busy' = TRUE
  /\ given' = a
  /\ among' = overloads[s]
  /\ ran' = {}
  /\ outcome' = "pending"
  /\ UNCHANGED <<overloads, signature>>

Run(f) ==
  /\ busy /\ ran = {}
  /\ Best(among, given) = {f}
  /\ ran' = {f}
  /\ UNCHANGED <<overloads, signature, busy, given, among, outcome>>

End ==
  /\ busy
  /\ busy' = FALSE
  /\ \/ ran # {} /\ outcome' \in {"returned", "threw"}
     \/ Matching(among, given) = {} /\ outcome' = "unmatched"
     \/ /\ \E f, g \in Best(among, given) : f # g
        /\ outcome' = "ambiguous"
  /\ given' = <<>> /\ among' = {} /\ ran' = {}
  /\ UNCHANGED <<overloads, signature>>

Init ==
  /\ overloads = [s \in Slots |-> {}]
  /\ signature = [f \in Functions |-> NoSignature]
  /\ busy = FALSE
  /\ given = <<>>
  /\ among = {}
  /\ ran = {}
  /\ outcome = "none"

Next ==
  \/ \E s \in Slots, f \in Functions, sig \in Signatures : Register(s, f, sig)
  \/ \E s, t \in Slots : Assign(s, overloads[t])
  \/ \E s \in Slots : Assign(s, {})
  \/ \E s \in Slots, a \in ArgLists : Call(s, a)
  \/ \E f \in Functions : Run(f)
  \/ End

Spec == Init /\ [][Next]_vars
=============================================================================
