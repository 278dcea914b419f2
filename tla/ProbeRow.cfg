SPECIFICATION FairSpec
CONSTANTS
    Probers = {r1, r2}
    MaxFaults = 2
INVARIANTS TypeOK RowTruthful
PROPERTIES BindingKept BoundSettles
CHECK_DEADLOCK FALSE
