\* Two workers: checks and snapshots overlap, and any step may fail.
SPECIFICATION FairSpec
CONSTANTS
    Workers = {w1, w2}
    MaxQueued = 1
INVARIANT TypeOK
PROPERTIES TurnIsNoticed OutageIsMarked RecoveryCompletes
