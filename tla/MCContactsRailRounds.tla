------------------------ MODULE MCContactsRailRounds ------------------------
(* Instances of ContactsRailRounds for TLC.                                *)
EXTENDS ContactsRailRounds, TLC

CONSTANTS d1, d2, d3, r1, r2, o1, o2, o3

TwoDevices   == {d1, d2}
OneRelay     == {r1}
ThreeOps     == {o1, o2, o3}
OnlyClose    == {"close"}

\* Every device twice, in either order.
TwoRounds == {<<d1, d2, d1, d2>>, <<d2, d1, d2, d1>>}

\* Operations, devices and relays are interchangeable.
Symmetry == Permutations(Ops) \cup Permutations(Devices) \cup Permutations(Relays)

\* The instance is one that ContactsRail_proofs shows to heal.
ASSUME HealableHere == Healable
=============================================================================
