SPECIFICATION FairSpec
CONSTANTS
    MaxSteps = 3
    MaxRetries = 1
    MaxCancels = 2
INVARIANTS TypeOK StepOrder CancelStops Settles
PROPERTIES ChainReturns
CHECK_DEADLOCK FALSE
