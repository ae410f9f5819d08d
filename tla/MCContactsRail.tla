--------------------------- MODULE MCContactsRail ---------------------------
(* Instances of ContactsRail for TLC.                                      *)
EXTENDS ContactsRail, TLC

CONSTANTS d1, d2, d3, r1, r2, o1, o2, o3

OneDevice    == {d1}
TwoDevices   == {d1, d2}
OneRelay     == {r1}
TwoRelays    == {r1, r2}
OneOp        == {o1}
TwoOps       == {o1, o2}
ThreeOps     == {o1, o2, o3}
OnlyClose    == {"close"}
OnlyRefetch  == {"refetch"}
OnlyMerge    == {"merge"}
Unreliable   == {"partial", "opaque", "silent", "close"}

\* Operations, devices and relays are interchangeable.
Symmetry == Permutations(Ops) \cup Permutations(Devices) \cup Permutations(Relays)
=============================================================================
