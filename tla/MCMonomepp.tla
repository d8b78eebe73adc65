----------------------------- MODULE MCMonomepp -----------------------------
(* Instances of Monomepp for TLC: as many wrappers and devices as it takes  *)
(* to assign one over the other, and two events of different types.         *)
EXTENDS Monomepp, TLC

Symmetry == Permutations(Wrappers) \cup Permutations(Devices)
              \cup Permutations(Types)

=============================================================================
