SPECIFICATION FairSpec
CONSTANTS
    MaxIterations = 4
    MaxRetries = 3
INVARIANTS TypeOK NeverReplays ReturnedIsUnknown CheckpointReported
PROPERTIES Reports
CHECK_DEADLOCK FALSE
