SPECIFICATION Spec
CONSTANTS
    MaxParts = 2
    Limit = 2
    MaxLength = 3
INVARIANTS
    FailClosed
    RestoredOrWithheld
    CountedOnce
    Released
PROPERTIES
    BodyWithinLimit
