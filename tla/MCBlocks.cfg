SPECIFICATION Spec
CONSTANTS
  CacheThreads = {k1, k2}
  Mappings = {m1, m2}
  Totals = {1, 3}
  BigAlign = 2
  MinLen = 2
  BucketCount = 2
  PerBucket = 1
  MaxRetained = 6
  ArenaThreads = {k1, k2}
  MaxChunks = 2
  Cells = 3
  SpanCells = 2
  MaxResets = 1
  Resetter = b0
  NoOne = None
  Routers = {b1}
  Controller = b0
  Requests <- TwoRequests
  Tables <- TwoTables
  MaxKinds = 1
  LatchesAlone = TRUE
  None = None
  Holders = {"t1", "t2"}
  Instances = {"a", "b"}
  StripeIds = {0, 1}
  Pieces <- SevenPieces
  InstanceOf <- TwoInstances
  HomeOf <- TwoStripes
  OwnStripe <- OneEach
  Direct = {7}
  RowCap = 4
  HeaderSize = 48
  MinAlign = 16
  SlabMax = 16384
  BuddyMax = 1048576
  ChunkBytes = 1048576
  Page = 4096
  MinBlock = 16
  MinHeaderFree = 16384
  SizeLimit = 16777215
  WordLimit = 33554431
  Sizes = {0, 1, 16337, 200000, 1048529, 16777215}
  Counts = {2, 3}
  Alignments = {1, 8, 64, 32768}
  Cursors = {0, 24, 1048000}
  Powers <- TwoPowers
CHECK_DEADLOCK FALSE
INVARIANTS FreeFindsServer TableInForce BlocksGoHome BlockHolds CacheSound
INVARIANTS SitesNamed ResetStartsAfresh
