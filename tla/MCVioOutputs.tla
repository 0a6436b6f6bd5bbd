---------------------------- MODULE MCVioOutputs ----------------------------
(* A short path for TLC: two frames, two stamps. *)
EXTENDS VioOutputs

CONSTANTS world, other

MCPoses == [stamp : 1 .. 2, frame : {world, other}] \cup {[stamp |-> 1, frame |-> NoFrame]}
=============================================================================
