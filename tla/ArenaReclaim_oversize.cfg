SPECIFICATION Spec
CONSTANTS
  Threads = {t1, t2}
  MaxChunks = 2
  Cap = 3
  SpanCells = 2
  LargeCells = 2
  SelfFlush = TRUE
  Mortal = {}
  PublicCallers = {}
  Reqs = {"small", "oversize"}
  CarveBound = 3
INVARIANTS LiveIsRegistered
CHECK_DEADLOCK FALSE
