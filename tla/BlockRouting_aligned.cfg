SPECIFICATION BrSpec
CONSTANTS
  None = None
  Routers = {t1}
  Controller = c
  Requests <- AlignedReqs
  Tables <- SomeTables
  MaxKinds = 2
  LatchesAlone = TRUE
INVARIANTS FreeFindsServer
CHECK_DEADLOCK FALSE
