----------------------------- MODULE MCAquaRing -----------------------------
(* Instances of AquaRing for TLC: tanks are symmetric. *)
EXTENDS AquaRing

Symmetry == Permutations(Tanks)
=============================================================================
