----------------------------- MODULE MCHistory -----------------------------
(* Model checking History: two providers, the first of them with a model. *)
EXTENDS History, TLC

CONSTANTS A, B

TheProviders == {A, B}
TheOrder == <<A, B>>

Symmetry == Permutations(Workers)
=============================================================================
