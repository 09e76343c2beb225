SPECIFICATION FairSpec
CONSTANTS
  Threads = {t1, t2}
  MaxChunks = 2
  Cap = 2
  SpanCells = 1
  LargeCells = 2
  SelfFlush = TRUE
  Mortal = {}
  PublicCallers = {}
  Reqs = {"small"}
  CarveBound = 3
PROPERTIES LatchClears
CHECK_DEADLOCK FALSE
