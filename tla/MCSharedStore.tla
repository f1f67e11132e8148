---------------------------- MODULE MCSharedStore ----------------------------
(* SharedStore for TLC: its services are alike. *)
EXTENDS SharedStore, TLC

ServiceSymmetry == Permutations(Services)

=============================================================================
