SPECIFICATION FairSpec
CONSTANTS
  Threads = {t1, t2}
  MaxChunks = 1
  Cap = 3
  SpanCells = 2
  LargeCells = 2
  SelfFlush = FALSE
  Mortal = {t2}
  PublicCallers = {t1}
  Reqs = {"small","oversize"}
  CarveBound = 2
INVARIANTS NoDoubleService
PROPERTIES CallsReturn
CHECK_DEADLOCK FALSE
