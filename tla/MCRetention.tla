----------------------------- MODULE MCRetention -----------------------------
(* Instances of Retention for TLC. *)
EXTENDS Retention, TLC

(* Row 2's storage key has the shape of row 1's suffix copy. *)
TwoShadowed == {<<1, 2>>}

Symmetry == Permutations(Workers)
=============================================================================
