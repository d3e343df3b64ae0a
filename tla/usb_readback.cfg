SPECIFICATION Spec
CONSTANTS
  s1 = s1
  wA = wA
  wB = wB
  m1 = m1
  m2 = m2
  k1 = k1
  k2 = k2
  c1 = c1
  c2 = c2
  None = None
  Torn = Torn
  Slots = {s1}
  Images = {wA, wB}
  Macros = {m1, m2}
  Keys = {k1, k2}
  Channels = {c1, c2}
  PLLWords <- MCPLLWords
  PLLWord <- MCPLLWord
  PLLConfigured = FALSE
  PacketFlits = 3
  WriteChunks = 1
  ReadRecords = 2
  Programs <- ReadbackPrograms
  BoardQuiet = TRUE
  MaxCalls = 2
  MaxMishaps = 2
CHECK_DEADLOCK FALSE
INVARIANTS
  TypeOK
  AnswersComplete
  BudgetExact
  NoFalseAlarm
