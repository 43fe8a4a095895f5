------------------------- MODULE MCLimitConcurrency -------------------------
(* A small instance of LimitConcurrency for TLC. *)
EXTENDS LimitConcurrency, TLC

CONSTANTS c1, c2, c3, c4, c5, k1, k2, k3

MCCalls == {c1, c2, c3, c4, c5}
MCKeys  == {k1, k2, k3}
MCKeyOf == c1 :> k1 @@ c2 :> k1 @@ c3 :> k1 @@ c4 :> k2 @@ c5 :> k3
=============================================================================
