--------------------------- MODULE MCInstanceLifetime ---------------------------
(***************************************************************************)
(* Instances that lie next to each other in memory.                        *)
(***************************************************************************)
EXTENDS InstanceLifetime

MCAddress == [r \in Reps |-> (r - 1) * RepSize]
=================================================================================
