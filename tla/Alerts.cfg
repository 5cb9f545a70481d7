\* Two workers; what holds however their tasks overlap, and what holds until they do.
SPECIFICATION Spec
CONSTANTS
    Models = {m1}
    Workers = {w1, w2}
    MaxTime = 3
    AbsenceAlertAfter = 1
    Retention = 0
SYMMETRY Symmetry
INVARIANTS TypeOK SentIsDelivered
PROPERTIES SuccessSticks Deduplicated
