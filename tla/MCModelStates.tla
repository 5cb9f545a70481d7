--------------------------- MODULE MCModelStates ---------------------------
(* Model checking ModelStates: workers and models are interchangeable. *)
EXTENDS ModelStates, TLC

Symmetry == Permutations(Workers) \cup Permutations(Models)
=============================================================================
