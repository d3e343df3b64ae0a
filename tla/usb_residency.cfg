SPECIFICATION Spec
CONSTANTS
  s1 = s1
  wA = wA
  wB = wB
  m1 = m1
  m2 = m2
  k1 = k1
  k2 = k2
  c1 = c1
  c2 = c2
  None = None
  Torn = Torn
  Slots = {s1}
  Images = {wA, wB}
  Macros = {m1}
  Keys = {k1}
  Channels = {c1}
  PLLWords <- MCPLLWords
  PLLWord <- MCPLLWord
  PLLConfigured = TRUE
  PacketFlits = 1
  WriteChunks = 2
  ReadRecords = 1
  Programs <- WeightPrograms
  BoardQuiet = TRUE
  MaxCalls = 5
  MaxMishaps = 1
CHECK_DEADLOCK FALSE
INVARIANTS
  ResidencyPhysical
  PLLPhysical
  ComputedAsAsked
