SPECIFICATION Spec
CONSTANTS
  Lanes = 2
  Outs = 2
  Byte = 8
  Acc = 128
  Word = 1024
  Mantissa = 4
  Cores = 2
  BaseWidth = 2
  GridColumns = 2
  CacheRows = 2
  Cases <- MCCases
CHECK_DEADLOCK FALSE
INVARIANTS
  MeaningKept
  BackendsAgree
  NeverRejected
  WeightsTogether
