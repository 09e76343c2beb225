SPECIFICATION LifecycleSpec
CONSTANTS
  Callers = {c1, c2}
  Controls = {"load_model"}
  FreezeAfter = 3
  Converged = FALSE
  PollEvery = 2
  CountBound = 3
INVARIANTS FreezesOnce
CHECK_DEADLOCK FALSE
