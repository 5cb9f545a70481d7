\* Three runs of one provider, so that one may wait for two; clocks up to 1 apart.
SPECIFICATION SpacingFairSpec
CONSTANTS
    r1 = r1
    r2 = r2
    r3 = r3
    p1 = p1
    Runs <- TheRuns
    Providers <- TheProviders
    ProviderOf <- TheProviderOf
    Skews = {0, 1}
    MaxTime = 5
    Spacing = 2
    TaskTimeout = 1
CHECK_DEADLOCK FALSE
INVARIANTS SpacingTypeOK SlotsAreSpaced DelayIsQueue
PROPERTIES EveryWaitEnds ImplementsSpacedSlots
