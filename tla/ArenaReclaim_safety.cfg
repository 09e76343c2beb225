SPECIFICATION Spec
CONSTANTS
  Threads = {t1, t2}
  MaxChunks = 2
  Cap = 2
  SpanCells = 1
  LargeCells = 2
  SelfFlush = TRUE
  Mortal = {}
  PublicCallers = {}
  Reqs = {"small","large"}
  CarveBound = 2
SYMMETRY ThreadSymmetry
INVARIANTS NoDoubleService QuiescentIsRecyclable LiveIsRegistered
PROPERTIES RewindIsSafe ImplementsRegionArena
CHECK_DEADLOCK FALSE
