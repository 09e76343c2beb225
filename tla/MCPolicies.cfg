SPECIFICATION Spec
CONSTANTS
  Miss = Miss
  NotFrozen = NotFrozen
  Earlier = Earlier
  Trainees = {t1, t2}
  Sigs = {s1, s2}
  Callers = {c1, c2}
  Controls = {"freeze", "load_model"}
  FreezeAfter = 3
  Converged = TRUE
  PollEvery = 2
  CountBound = 3
  Requests = {r1, r2}
  Strategies = {"latency"}
  RecordSizes = {1, 2}
  StampStep = 2
  MaxClock = 3
  MaxModels = 1
  MaxBlocks = 2
  MaxRequests = 3
  HookThreads = {t1, t2}
  HookBlocks = {"b1"}
  MaxNow = 2
  Signatures <- PlanSignatures
  LeafOf <- SameLeaf
  Volumes = {1, 9}
  Subjects <- PlanSubjects
  ShallowStats <- Shallows
  DeepStats <- Deeps
  DemoteNum = 1
  DemoteDen = 5
  FineMinPulls = 2
  FineMargin = 1
  DeepShareNum = 1
  DeepShareDen = 20
  AllocCodes = {1, 3}
  Shallow = 1
  Deep = 4
  NoContext = Miss
  Uploads = {"u1", "u2"}
  Sockets = {"w1"}
  TextsOf <- SomeTraces
  Interval = 1000
  Capacity = 1
  Retained = 1
  FailingSizes = {16}
  Blocks = {"p1"}
  SlotOfBlock <- OneSlot
  Arms = {"Slab", "Buddy"}
  FullBatch = 2
  MaxSamples = 2
  Latencies = {0, 3, 9}
  MaxLatency = 9
  Totals = {60}
  ReservedFor <- WithSlack
  ArmContexts = {"x", "y"}
  NoSample = Miss
  Buckets = 3
  Edges <- TwoPowers
  Percentiles = {0, 60}
  TRef = 2
  FragWeight = 50
  Scale = 100
  MaxTaken = 3
  Sites = 2
  Ctxs = 1
  ClassOf <- OneClass
  DefaultOf <- ToSlab
  Verdicts = {"Slab", "Arena"}
  MaxEntries = 2
  Mixers = {1, 2, 3}
  MixOf <- SomeMixes
  Word = 8
  Lambda = 2
  MaxDisplacement = 2
  GlobalRetries = 1
  Askers = {"t1", "u1"}
  Watched = {"SC_SHORTCUT", "FAST_LANE"}
  Files <- SomeTexts
  Environs <- SomeEnvirons
  Flags = {"unset", "0", "1"}
  Overrides = {0, 5}
  Cpus = {1, 12}
  Powers <- StripePowers
  MinStripes = 8
  MaxStripes = 32
CHECK_DEADLOCK FALSE
INVARIANTS PlanSound  LoadedFirst FreezesAndExports
INVARIANTS LiveLogSound ConfigInForce ReplayFaithful  SweepIsItsOwn
INVARIANTS ContextsAgree EvidenceAddsUp SinkAgrees WorkloadSound
