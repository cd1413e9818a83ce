CONSTANTS
    c1 = c1
    c2 = c2
    a = a
    b = b
    d1 = d1
    old = old
    new = new
    d2 = d2
    None = None
    Calls = {c1, c2}
    Texts = {a, b}
    Configs = {old, new}
    Detectors = {d1, d2}
    MaxEntries = 2
    TTL = 1
    MaxClock = 2
    MaxChanges = 1
SPECIFICATION Spec
SYMMETRY Symmetry
CHECK_DEADLOCK FALSE
INVARIANTS AnswersComplete HitsInTime
PROPERTIES HitsFresh WritesSweep EvictsLeastRecent
