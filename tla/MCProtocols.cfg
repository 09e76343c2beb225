SPECIFICATION ProtocolSpec
CONSTANTS
  None = None
  b1 = b1
  b2 = b2
  b3 = b3
  b4 = b4
  Bases = {b1, b2, b3, b4}
  Classes = {c1}
  Writers = {s1, s2}
  Readers = {r1}
  Capacity = 3
  ProbeMax = 2
  Home <- Collide
  OneLock = TRUE
  Emitters = {e1, e2}
  RingCapacity = 2
  BatchSize = 1
  MaxEmits = 4
  Sims = {i1}
  Operators = {o1, o2}
  MaxStops = 2
INVARIANTS RingDelivers EndIsReported
PROPERTIES ImplementsOwnerMap ExitReturns SimulationsEnd
CHECK_DEADLOCK FALSE
