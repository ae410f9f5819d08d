-------------------------- MODULE MCConnectDelivery -------------------------
(* Instances of ConnectDelivery for TLC.                                   *)
EXTENDS ConnectDelivery, TLC

CONSTANTS r1, r2, c1, c2

OneRequest    == {r1}
TwoRequests   == {r1, r2}
OneClient     == {c1}
TwoClients    == {c1, c2}
FirstPaired   == {c1}

\* The first app's records are left alone, whatever happens to the second's.
SecondDisturbed == c1 :> {} @@ c2 :> {"revoke", "touch", "fault"}
FirstRevoked    == c1 :> {"revoke"}

\* Two candidates for the first request, one for the second.
FirstHasTwo == r1 :> 2 @@ r2 :> 1
TwoEach     == [r \in Requests |-> 2]

\* Each request from an app of its own, or all from the same app.
OwnApp  == r1 :> c1 @@ r2 :> c2
SameApp == [r \in Requests |-> c1]
=============================================================================
