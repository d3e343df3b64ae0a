\* One save may fail.
SPECIFICATION Spec
CONSTANTS
    Tasks = {t1}
    Workers = {w1, w2}
    None = None
    t1 = t1
    w1 = w1
    w2 = w2
    Total = 1
    DiskMayFail = TRUE
    ChangeAnytime = FALSE
    MaxCalls = 3
    MaxMishaps = 2
SYMMETRY Symmetry
INVARIANTS DeathNoticed
