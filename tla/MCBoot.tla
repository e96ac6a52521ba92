------------------------------- MODULE MCBoot -------------------------------
(* Small instances of Boot for TLC. *)
EXTENDS Boot, TLC

DefaultUsers == <<"admin", "user", "superuser", "system">>
NodeSymmetry == Permutations(Nodes)
==============================================================================
