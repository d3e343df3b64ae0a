\* One import, three samples, saves that work; no symmetry, as a liveness check needs.
SPECIFICATION LiveSpec
CONSTANTS
    Tasks = {t1}
    Workers = {w1, w2}
    None = None
    t1 = t1
    w1 = w1
    w2 = w2
    Total = 3
    DiskMayFail = FALSE
    ChangeAnytime = FALSE
    MaxCalls = 3
    MaxMishaps = 2
INVARIANTS DeathNoticed
PROPERTIES TaskEnds RowsKept
