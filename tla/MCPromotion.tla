---------------------------- MODULE MCPromotion ----------------------------
(* Windows and symmetry for model checking Promotion. *)
EXTENDS Promotion

Windows1 == {<<0, 0>>, <<0, 1>>}
Symmetric == Permutations(Callers) \cup Permutations(Libraries)
=============================================================================
