---------------------------- MODULE MCValueStore ----------------------------
EXTENDS ValueStore, TLC

CONSTANTS s, t, x, y, a, top, sub

(* Two scripts, one with two values; a tab with a top frame and a subframe. *)
MCCells   == {<< s, x >>, << s, y >>, << t, x >>}
MCTabOf   == [f \in {top, sub} |-> 1]
MCPageIds == {{s}, {s, t}}

(* A store of s that lacks the value y, and a store of t. *)
MCImports == { << s, x >> :> a @@ << s, y >> :> None, << t, x >> :> a }
=============================================================================
