----------------------------- MODULE MCScriptDB -----------------------------
(* Small instances of ScriptDB for TLC: two scripts of one name, one of    *)
(* another.                                                                *)
EXTENDS ScriptDB

CONSTANTS a1, a2, b1, a, b

MCNameOf == [c \in Codes |-> IF c = b1 THEN b ELSE a]
=============================================================================
