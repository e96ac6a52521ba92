----------------------------- MODULE MCUserStore -----------------------------
(* Small instances of UserStore for TLC. *)
EXTENDS UserStore, TLC

NodeAndRequestSymmetry == Permutations(Nodes) \cup Permutations(Requests)
==============================================================================
