--------------------------- MODULE MCHealthChecks ---------------------------
(* Model checking HealthChecks; liveness is checked, so without symmetry. *)
EXTENDS HealthChecks
=============================================================================
