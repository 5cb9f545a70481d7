------------------------------ MODULE MCAlerts ------------------------------
(* Model checking Alerts: workers and models are interchangeable. *)
EXTENDS Alerts, TLC

Symmetry == Permutations(Workers) \cup Permutations(Models)
=============================================================================
