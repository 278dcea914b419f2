SPECIFICATION Spec
CONSTANTS
    s1 = s1
    s2 = s2
    c1 = c1
    c2 = c2
    Sessions = {s1, s2}
    Closers = {c1, c2}
    MaxRuns = 1
    NumPorts = 2
    MaxRestarts = 1
SYMMETRY Symmetry
INVARIANTS TypeOK PortsApart RunningHasBrowser
CHECK_DEADLOCK FALSE
