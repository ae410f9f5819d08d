-------------------------- MODULE MCCheckpointChunks ------------------------
(* Instances of CheckpointChunks for TLC.                                  *)
EXTENDS CheckpointChunks, TLC

CONSTANTS d1, d2

OneDevice  == {d1}
TwoDevices == {d1, d2}
Symmetry   == Permutations(Devices)
=============================================================================
