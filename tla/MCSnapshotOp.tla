---------------------------- MODULE MCSnapshotOp -----------------------------
(* A small instance of SnapshotOp for TLC.                                 *)
EXTENDS SnapshotOp

CONSTANTS c1, c2
TwoClients == {c1, c2}
=============================================================================
