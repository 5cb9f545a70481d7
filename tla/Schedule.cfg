\* Every schedule a task needs is kept and comes up, under fairness.
SPECIFICATION FairSpec
CONSTANTS
    m1 = m1
    m2 = m2
    Models <- TheModels
    ListOrder <- TheOrder
    FixedTasks = {"model_snapshot"}
    FixedInterval <- TheIntervals
    Overrides <- TheOverrides
    ModelRuns = 3
    ModelRunSpacing = 1
    SyncInterval = 2
INVARIANT EntriesAreApart
PROPERTIES NextRunsComeNearer SteadyTasksComeUp
