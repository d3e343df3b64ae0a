\* The weights change while a worker loads them.
SPECIFICATION Spec
CONSTANTS
    Tasks = {t1}
    Workers = {w1, w2}
    None = None
    t1 = t1
    w1 = w1
    w2 = w2
    Total = 2
    DiskMayFail = FALSE
    ChangeAnytime = TRUE
    MaxCalls = 3
    MaxMishaps = 1
SYMMETRY Symmetry
INVARIANTS OneModel
