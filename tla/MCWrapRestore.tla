--------------------------- MODULE MCWrapRestore ---------------------------
(* Instances of WrapRestore for TLC. *)
EXTENDS WrapRestore, TLC

Symmetry == Permutations(Bin)
=============================================================================
