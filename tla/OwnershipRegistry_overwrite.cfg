SPECIFICATION Spec
CONSTANTS
  None = None
  b1 = b1
  b2 = b2
  b3 = b3
  b4 = b4
  Bases = {b1, b2, b3, b4}
  Classes = {c1}
  Writers = {s1, s2}
  Readers = {r1}
  Capacity = 3
  ProbeMax = 2
  Home <- Collide
  OneLock = FALSE
INVARIANTS OwnPayload
CHECK_DEADLOCK FALSE
