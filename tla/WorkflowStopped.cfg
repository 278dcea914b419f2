SPECIFICATION FairSpec
CONSTANTS
    Blocks = 2
    MaxValues = 3
    MaxBody = 2
    MaxIterations = 2
    MaxStepsPerIteration = 2
    MaxStops = 1
    MaxContinues = 2
INVARIANTS StoppedSkipsFinally
CHECK_DEADLOCK FALSE
