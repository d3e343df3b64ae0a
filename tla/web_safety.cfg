\* Two imports, two samples, four requests, two failures of any kind.
SPECIFICATION Spec
CONSTANTS
    Tasks = {t1, t2}
    Workers = {w1, w2}
    None = None
    t1 = t1
    t2 = t2
    w1 = w1
    w2 = w2
    Total = 2
    DiskMayFail = TRUE
    ChangeAnytime = FALSE
    MaxCalls = 4
    MaxMishaps = 2
SYMMETRY Symmetry
INVARIANTS TypeOK OneCompute OneWriter CommandHeard PointerValid CompletedWhole CancelHonoured OneModel
PROPERTIES CancelMeant
