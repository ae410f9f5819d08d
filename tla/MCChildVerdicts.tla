--------------------------- MODULE MCChildVerdicts ---------------------------
(* Instances of ChildVerdicts for TLC. *)
EXTENDS ChildVerdicts, TLC

CONSTANTS a1, a2, k1, k2, k3, seal

KindsOfTwo == a1 :> k1 @@ a2 :> k2
SecondOnce == a1 :> {"once", "always", "deny"} @@ a2 :> {"once"}
\* One event, of every kind in turn.
Often(es) == [e \in EventKinds |-> IF e \in es THEN 1 ELSE 0]
OneAtATime == {Often({e}) : e \in EventKinds}

OneRule == <<k3>>
=============================================================================
