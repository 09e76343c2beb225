SPECIFICATION Spec
CONSTANTS
  Nobody = Nobody
  t1 = t1
  t2 = t2
  s1 = s1
  s2 = s2
  Blocks = {b1, b2, b3, b4}
  Threads = {t1, t2}
  Stripes = {s1, s2}
  StripeOf <- OwnStripes
  Cap = 2
  Batch = 2
  SegBlocks = 2
  Requests = {"plain"}
  OwnerFree = TRUE
SYMMETRY BlockSymmetry
INVARIANTS OnePlace FlavourKept GateSound HomeKept
