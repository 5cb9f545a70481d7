----------------------------- MODULE MCSchedule -----------------------------
(* Model checking Schedule: two models and the snapshot task.  A pattern   *)
(* gives both models an interval, an exact override another to the second. *)
EXTENDS Schedule, TLC

CONSTANTS m1, m2

TheModels == {m1, m2}
TheOrder == <<m1, m2>>
TheIntervals == [t \in {"model_snapshot"} |-> 3]
TheOverrides == <<[exact |-> FALSE, models |-> {m1, m2}, every |-> 3],
                  [exact |-> TRUE, models |-> {m2}, every |-> 5]>>
=============================================================================
