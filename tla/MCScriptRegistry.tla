-------------------------- MODULE MCScriptRegistry --------------------------
(* The instances of ScriptRegistry that TLC checks, given by .cfg files. *)
EXTENDS ScriptRegistry
=============================================================================
