SPECIFICATION Spec
CONSTANTS
    t1 = t1
    Tasks <- OneTask
    MethodOf <- CreateMethod
    MaxTries = 1
    MaxErrors = 0
    MaxTimeouts = 0
INVARIANT FailedMeansNotPerformed
CHECK_DEADLOCK FALSE
