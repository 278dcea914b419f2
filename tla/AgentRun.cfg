SPECIFICATION FairSpec
CONSTANTS
    Calls = {c1, c2, c3}
    Nobody = Nobody
    MaxCrashes = 2
    Signals = TRUE
INVARIANTS TypeOK SubmittedWasApproved UnsignalledStopHolds ConflictHasCause
PROPERTIES UncertainReported LifecycleSpec
CHECK_DEADLOCK FALSE
