\* A worker is killed after its last sample.
SPECIFICATION Spec
CONSTANTS
    Tasks = {t1}
    Workers = {w1, w2}
    None = None
    t1 = t1
    w1 = w1
    w2 = w2
    Total = 1
    DiskMayFail = FALSE
    ChangeAnytime = FALSE
    MaxCalls = 3
    MaxMishaps = 1
SYMMETRY Symmetry
INVARIANTS InterruptedResumable
