\* A check of one model starts while the poll of another check is in flight.
SPECIFICATION Spec
CONSTANTS
    all = all
    model = model
    Subjects <- TheSubjects
    ModelSubjects <- TheModelSubjects
    Jobs = {1, 2}
    Polls = {1}
    MaxFailures = 0
CHECK_DEADLOCK FALSE
PROPERTY FinishedMeansDone
