CONSTANTS
    Requests = {r1, r2}
    Policies = {p1, p2}
    None = None
SPECIFICATION FairSpec
INVARIANTS PolicyInForce MapLifetime
PROPERTIES NeverBuiltTwice Answered
