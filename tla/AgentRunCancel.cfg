SPECIFICATION Spec
CONSTANTS
    Calls = {c1, c2}
    Nobody = Nobody
    MaxCrashes = 0
    Signals = TRUE
INVARIANTS StoppedNeverActs
CHECK_DEADLOCK FALSE
