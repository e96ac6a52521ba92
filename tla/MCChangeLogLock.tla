--------------------------- MODULE MCChangeLogLock ---------------------------
(* Small instances of ChangeLogLock for TLC. *)
EXTENDS ChangeLogLock, TLC

NodeSymmetry == Permutations(Nodes)
==============================================================================
