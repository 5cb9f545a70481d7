\* A check of all and a check of one model, two polls at once.
SPECIFICATION FairSpec
CONSTANTS
    all = all
    model = model
    Subjects <- TheSubjects
    ModelSubjects <- TheModelSubjects
    Jobs = {1, 2}
    Polls = {1, 2}
    MaxFailures = 1
CHECK_DEADLOCK FALSE
INVARIANTS TypeOK PollingGoesOn ExpiredNeverRan
PROPERTIES AskedMeansDone SpinnerStops
