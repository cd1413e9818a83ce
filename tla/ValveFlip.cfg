CONSTANTS
    Requests = {r1, r2}
    Policies = {p1, p2}
    None = None
SPECIFICATION FilterSpec
INVARIANTS RestoredWhenOn
