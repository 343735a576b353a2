---------------------------- MODULE MCTransfer ----------------------------
(***************************************************************************)
(* A tool, its library, another library of the same name, and a file that  *)
(* the application needs.                                                  *)
(***************************************************************************)
EXTENDS Transfer

CONSTANTS tool, libA, libB, layout

MCFiles == {tool, libA, libB, layout}
MCNameOf == [f \in MCFiles |-> CASE f = tool -> 1 [] f = layout -> 2 [] OTHER -> 3]
MCDeps == [f \in MCFiles |-> IF f = tool THEN {libA} ELSE {}]
MCExtra == {<<top, layout>>}
=============================================================================
