SPECIFICATION Spec
CONSTANTS
  Lanes = 2
  Outs = 2
  Byte = 8
  Acc = 128
  Word = 1024
  Mantissa = 4
  Cores = 2
  BaseWidth = 2
  GridColumns = 2
  CacheRows = 2
  Threads = {t1, t2}
  t1 = t1
  t2 = t2
  Mode = "sign-split"
  MaxMishaps = 2
  Executables <- MCExecutables
  Program <- MCProgram
  Samples <- MCSamples
  Captures <- MCCaptures
SYMMETRY MCSymmetry
INVARIANTS
  ResultsRight
  FailsOnce
  ResidencyTrue
PROPERTIES
  FaultReported
