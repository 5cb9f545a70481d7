---------------------------- MODULE MCDetection ----------------------------
(* Model checking Detection; liveness is checked, so without symmetry. *)
EXTENDS Detection

(* A model serves both kinds of request, or refuses both. *)
AllOrNothing == {{}, {"chat", "embedding"}}
=============================================================================
