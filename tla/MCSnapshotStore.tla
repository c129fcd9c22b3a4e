--------------------------- MODULE MCSnapshotStore ---------------------------
(* Values of the constants of SnapshotStore for TLC. *)
EXTENDS SnapshotStore

CONSTANTS f1, f2, f3, w1, w2
=============================================================================
