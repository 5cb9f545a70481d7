\* What the docs say of every runnable model, against one that comes and goes.
SPECIFICATION FairSpec
CONSTANTS
    m1 = m1
    m2 = m2
    Models <- TheModels
    ListOrder <- TheOrder
    FixedTasks = {"model_snapshot"}
    FixedInterval <- TheIntervals
    Overrides <- TheOverrides
    ModelRuns = 3
    ModelRunSpacing = 1
    SyncInterval = 2
PROPERTY RunnableModelsComeUp
