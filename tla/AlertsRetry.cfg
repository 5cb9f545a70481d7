\* One worker; what fails works again and again.
SPECIFICATION FairSpec
CONSTANTS
    Models = {m1}
    Workers = {w1}
    MaxTime = 3
    AbsenceAlertAfter = 1
    Retention = 0
PROPERTY LongAbsenceIsReported
