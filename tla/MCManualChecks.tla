--------------------------- MODULE MCManualChecks ---------------------------
(* Model checking ManualChecks: the header's button and one model's button. *)
(* The runs check liveness and small models, so they use no symmetry.       *)
EXTENDS ManualChecks

CONSTANTS all, model

TheSubjects == {all, model}
TheModelSubjects == {model}
=============================================================================
