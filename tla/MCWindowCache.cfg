CONSTANTS
    t1 = t1
    t2 = t2
    w1 = w1
    w2 = w2
    m1 = m1
    m2 = m2
    x = x
    y = y
    None = None
    Tasks = {t1, t2}
    Workers = {w1, w2}
    Sessions = {m1, m2}
    Inputs = {x, y}
    MaxWindows = 2
    MaxDepth = 2
    MaxCaches = 2
SPECIFICATION CacheSpec
SYMMETRY Symmetry
CHECK_DEADLOCK FALSE
INVARIANTS ClosedStaysEmpty OpenWhileRunning Isolated PredictionExact
