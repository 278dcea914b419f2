SPECIFICATION FairSpec
CONSTANTS
    Probers = {r1, r2}
    MaxFaults = 1
PROPERTIES AmbiguousSettles
CHECK_DEADLOCK FALSE
