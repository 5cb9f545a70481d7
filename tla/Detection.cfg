\* Two snapshots overlap; any request, query or transaction may fail.
SPECIFICATION FairSpec
CONSTANTS
    Models = {m1}
    Workers = {w1, w2}
    MaxConcurrency = 1
    Refusals <- AllOrNothing
INVARIANTS TypeOK SkipWasRefused RunnableHasWorked
PROPERTY CapabilityComesBack
