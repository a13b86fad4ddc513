-------------------------------- MODULE Join --------------------------------
(***************************************************************************)
(* What the join of two branches promises (README, "Join"): "When both     *)
(* siblings arrive, the continuation of the forking thread is run", by one *)
(* of the two.                                                             *)
(***************************************************************************)
EXTENDS Naturals

CONSTANT Sides   \* the branches of a fork

VARIABLES
  arrived,   \* branches that have checked out
  workers    \* branches that run the continuation

vars == <<arrived, workers>>

Init == arrived = {} /\ workers = {}

Arrive(s) ==
  /\ s \notin arrived
  /\ arrived' = arrived \union {s}
  /\ UNCHANGED workers

Continue(s) ==
  /\ arrived = Sides
  /\ workers = {}
  /\ workers' = {s}
  /\ UNCHANGED arrived

Next == \E s \in Sides : Arrive(s) \/ Continue(s)

Spec == Init /\ [][Next]_vars
=============================================================================
