CONSTANTS
  Producer = producer
  Consumer = consumer
  Observers = {o1}
  Values = {v1, v2}
  NoValue = NoValue
  Capacity = 2
  Modulus = 8

  Requested = 2
  PosModulus = 4
  RingValues = {v1, v2}
  NoRingValue = NoRingValue
  Watchers = {o1}

  Putters = {p1}
  Getters = {g1}
  MaxItems = 5
  ShardCount = 2
  ShardCapacity = 2
  kEnqueueProbeCount = 1
  kDequeueProbeCount = 1
  kScanCount = 0
  Stride = 3
  MaxAttempts = 2

  Resolvers = {t1, t2}
  NoResolver = NoResolver
  Keys = {a}
  Depth = 2
  MaxRegs = 2
  MaxNest = 3
  MaxCalls = 3

  MaxSlots = 3
  MaxChanges = 6
  GenModulus = 8
  kNoIndex = 99

  BlockSize = 2
  MaxBlocks = 2
  MaxBusy = 2

  TicksPerToken = 2
  BucketCapacity = 2
  MaxCount = 2
  MaxRequests = 2
  WindowDuration = 2
  MaxNow = 7
  MaxGrants = 5

  Interners = {t1, t2}
  Strings = {"a", "b"}
  MaxInterns = 4

  FeatureCount = 3
  kMaxValidationDepth = 5
  MaxEdges = 2

  HashKeys = {1, 2, 3, 4}
  MapValues = {1, 2}
  Hashes = {3, 23}
  H2Unit = 16
  kWidth = 2
  LoadNum = 7
  LoadDen = 8
  MaxCapacity = 8
  ShrinksBelow = FALSE

  MaxId = 3
  mBaseId = 0
  IdGuards = {g1}
  Caller = Caller
  Nobody = Nobody

SPECIFICATION PartsSpec
CHECK_DEADLOCK FALSE
INVARIANTS ContainersTypeOK BufferIsSound RingIsSound WorkIsDelivered
INVARIANTS SingletonsAreSound WaitsAreSound SlotsAreSound PoolIsSound
INVARIANTS RatesAreKept StringsAreSound PlansAreSound MapIsFaithful IdsAreSound
PROPERTIES ImplementsFifo FailuresAreTrue SizeIsFaithful
PROPERTIES RingImplementsFifo ScopesUndoTheirOwn
