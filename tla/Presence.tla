------------------------------ MODULE Presence ------------------------------
(***************************************************************************)
(* What the table model_states says of the presence of models, as those    *)
(* who read it rely on it: a model that was ever listed is known for good, *)
(* an absence begins when a model is first missed and keeps that time      *)
(* until the model is listed again, and absences are recorded in the order *)
(* in which they began.                                                    *)
(*                                                                         *)
(* ModelStates implements it until two tasks overlap; the mails of Alerts  *)
(* are about it.                                                           *)
(***************************************************************************)
EXTENDS Naturals

CONSTANT Models

VARIABLES
    clock,      \* the time
    known,      \* models that were ever listed
    missing     \* missing[m]: since when m has been absent; NULL: it is there

vars == <<clock, known, missing>>

NULL == 0

Init ==
    /\ clock = 1
    /\ known = {}
    /\ missing = [m \in Models |-> NULL]

Tick == clock' = clock + 1 /\ UNCHANGED <<known, missing>>

(* What is recorded happened at a time that has come, and not before what  *)
(* is on record.                                                           *)
InOrder(at) == \A m \in Models : missing[m] <= at

(* A snapshot lists the models that are present. *)
Observe(present, at) ==
    /\ InOrder(at)
    /\ known' = known \cup present
    /\ missing' = [m \in Models |->
                     IF m \in present THEN NULL
                     ELSE IF m \in known /\ missing[m] = NULL THEN at ELSE missing[m]]
    /\ UNCHANGED clock

(* Some models that were there turn out to be gone. *)
Miss(gone, at) ==
    /\ InOrder(at)
    /\ \A m \in gone : missing[m] = NULL
    /\ missing' = [m \in Models |-> IF m \in gone THEN at ELSE missing[m]]
    /\ UNCHANGED <<clock, known>>

Next ==
    \/ Tick
    \/ \E at \in 1 .. clock :
          \/ \E present \in SUBSET Models : Observe(present, at)
          \/ \E gone \in SUBSET known : Miss(gone, at)

Spec == Init /\ [][Next]_vars
=============================================================================
