\* Two workers; what holds however their tasks overlap, and what holds until they do.
SPECIFICATION Spec
CONSTANTS
    Models = {m1}
    Workers = {w1, w2}
    Detections = {"chat", "skip"}
    MaxTime = 4
    TaskTimeout = 1
    AbsenceAlertAfter = 2
SYMMETRY Symmetry
INVARIANTS TypeOK InactiveIsAnnounced DiscoveredOnce SkipIsNeverMarked AlertMeansLongAbsence StatusMatchesHistory TimesInOrder
PROPERTY PresenceUntilOverlap
