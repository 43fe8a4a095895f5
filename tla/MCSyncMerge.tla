---------------------------- MODULE MCSyncMerge ----------------------------
(* Two devices that nothing tells apart. *)
EXTENDS SyncMerge, TLC

Symmetry == Permutations(Devices)

(* Once every script met a race and a request failed or was disturbed, no  *)
(* property but the type invariant says anything of what follows.          *)
Telling == ~(disturbed /\ raced = Uris)
=============================================================================
