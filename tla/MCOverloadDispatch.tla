------------------------- MODULE MCOverloadDispatch -------------------------
(***************************************************************************)
(* Signatures and arguments for OverloadDispatch: overloads that differ in *)
(* arity, in constness, in derivation, by an out value and by a parameter  *)
(* that takes anything, and arguments on which they tie or do not match.   *)
(***************************************************************************)
EXTENDS OverloadDispatch

MCSignatures == {<<"T const&">>, <<"T*", "out">>, <<"object">>, <<"T", "number">>}

MCArgLists == {<<"derived">>, <<"const T">>, <<"nil", "nil">>}
=============================================================================
