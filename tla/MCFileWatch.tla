----------------------------- MODULE MCFileWatch -----------------------------
(* Small instances of FileWatch for TLC. *)
EXTENDS FileWatch, TLC

NodeSymmetry == Permutations(Nodes)
==============================================================================
