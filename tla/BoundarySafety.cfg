SPECIFICATION Spec
CONSTANTS
    Calls = {c1, c2}
    Permits = {p1, p2}
    Keys = {k1, k2}
    b1 = b1
    b2 = b2
    Bindings = {b1, b2}
    PermitBinding <- MCPermitBinding
    Probers = {r1, r2}
    Ttl = 1
    MinimumAge = 1
    NoCall = NoCall
SYMMETRY Symmetry
INVARIANTS TypeOK AtMostOneSubmission PermitSpentOnce TruthfulVerdict
PROPERTIES GovernedSpec
CHECK_DEADLOCK FALSE
