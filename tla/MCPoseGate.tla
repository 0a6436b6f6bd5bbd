----------------------------- MODULE MCPoseGate -----------------------------
(* Small instances of the pose gate for TLC. *)
EXTENDS PoseGateHistory, TLC

CONSTANTS e1, e2, e3, e4

MCEpochs == {e1, e2, e3, e4}
MCStamps == 0 .. 3
MCNumbers == 0 .. 2
Interchangeable == Permutations(MCEpochs)
=============================================================================
