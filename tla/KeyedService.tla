---------------------------- MODULE KeyedService ----------------------------
(***************************************************************************)
(* What a limiter of calls promises, whatever it does to keep it: calls    *)
(* arrive and take a number, a call is served once every earlier call with *)
(* its key is done, and at most Max are served at a time.                  *)
(* LimitConcurrency implements it.                                         *)
(***************************************************************************)
EXTENDS Naturals, FiniteSets

CONSTANTS Calls, KeyOf, Max

VARIABLES stage,   \* per call: "new", "waiting", "served" or "done"
          number,  \* per call: the number it took
          count    \* numbers given out

Init == /\ stage = [c \in Calls |-> "new"]
        /\ number = [c \in Calls |-> 0]
        /\ count = 0

Served == {c \in Calls : stage[c] = "served"}

(* Calls with the key of c that have to be done first. *)
Before(c) == {d \in Calls : /\ KeyOf[d] = KeyOf[c]
                            /\ stage[d] \in {"waiting", "served"}
                            /\ number[d] < number[c]}

Arrive(c) == /\ stage[c] = "new"
             /\ stage' = [stage EXCEPT ![c] = "waiting"]
             /\ count' = count + 1
             /\ number' = [number EXCEPT ![c] = count + 1]

Serve(c) == /\ stage[c] = "waiting"
            /\ Before(c) = {}
            /\ Cardinality(Served) < Max
            /\ stage' = [stage EXCEPT ![c] = "served"]
            /\ UNCHANGED <<number, count>>

Finish(c) == /\ stage[c] = "served"
             /\ stage' = [stage EXCEPT ![c] = "done"]
             /\ UNCHANGED <<number, count>>

Next == \E c \in Calls : Arrive(c) \/ Serve(c) \/ Finish(c)

Spec == Init /\ [][Next]_<<stage, number, count>>
=============================================================================
