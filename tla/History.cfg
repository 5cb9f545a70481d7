\* Two workers write, one request at a time reads, retention deletes.
SPECIFICATION Spec
CONSTANTS
    A = A
    B = B
    Models = {m1}
    Providers <- TheProviders
    Order <- TheOrder
    Followed = m1
    Workers = {w1, w2}
    MaxTime = 4
    MaxRows = 2
    TaskTimeout = 1
    Retention = 2
    RequestedWindow = 3
    RunLimit = 1
    Interval = 2
SYMMETRY Symmetry
INVARIANTS OkHidesOnlyOlderFailures CountedFailuresAreDrawn
PROPERTY ScrapesGoForward
