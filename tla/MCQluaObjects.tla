---------------------------- MODULE MCQluaObjects ----------------------------
(***************************************************************************)
(* A button and a label, each with a signal.                               *)
(***************************************************************************)
EXTENDS QluaObjects, TLC

CONSTANTS button, label, clicked, moved

MCEmitter == (clicked :> button) @@ (moved :> label)
=============================================================================
