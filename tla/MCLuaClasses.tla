----------------------------- MODULE MCLuaClasses -----------------------------
(***************************************************************************)
(* Side, Foo and Ext are C++ classes.  Ext has two bases: both define name *)
(* and only the second, Foo, an __init.  Bar derives from Ext and Baz from *)
(* Bar, and use super; Qux derives from Foo, and does not.  Scripts write  *)
(* the members of Bar before or after they derive Baz from it, if at all.  *)
(***************************************************************************)
EXTENDS LuaClasses

CONSTANTS Side, Foo, Ext, Bar, Baz, Qux

MCBases ==
  [c \in Classes |->
     CASE c \in {Side, Foo} -> <<>> [] c = Ext -> <<Side, Foo>>
       [] c = Bar -> <<Ext>> [] c = Baz -> <<Bar>> [] c = Qux -> <<Foo>>]

MCCppMembers ==
  [c \in CppClasses |->
     CASE c = Side -> {"name"} [] c = Foo -> {"__init", "name"} [] c = Ext -> {}]

MCScriptMembers ==
  [c \in Classes |->
     IF c \in CppClasses THEN {} ELSE IF c = Bar THEN {"__init", "name"} ELSE {"__init"}]

\* What the theorems about super ask of a program.
ASSUME ChainedAssumption == Chained
=============================================================================
