CONSTANTS
  PrimaryKind = "finnhub"
  FallbackKind = "twelvedata"
  OtherKind = "deriv"
  MaxFailures = 2
  MaxTicks = 2
  MaxBucket = 1
  MaxMarketFaults = 1
  Routers = {w1, w2}
  MaxShards = 2
  PersistQueue = 1
  MaxShardChanges = 2
  MaxConns = 2
  MaxPerUser = 1
  MaxPolls = 2
  CriticalQueue = 1
  Pods = {a1, n1}
  MaxSignals = 1
  MaxBatches = 3
  PoolQueue = 2
  PoolWorkers = {w1, w2}
  Traders = {a1, n1}
  Handlers = {w1, w2}
  OrderIds = {1}
  MaxOpenings = 2
  TradeContests = {1, 2}
  WSTickets = {w1, w2}
  MaxAsked = 2
  MaxContestChanges = 2
  Spectators = {w1, w2}
  MaxFeedConns = 1
  FeedQueue = 1
  SubRate = 2
  MaxVersions = 1
  MaxScores = 2
  MaxFirings = 2
  QtyTotal = 3
  DayLength = 2
  MaxInstant = 16
  Symbols <- OneSymbol
  Orders <- TwoOrders
  OrderSym <- TwoSyms
  OrderQty <- TwoQtys
  LimitOrders = {"limit2"}
  TpslOrders = {"limit2"}
  Sharded = TRUE
  MaxRequests = 1
  MaxFaults = 1
  SpreadAdmins = {a1, a2}
  Ingestors = {g1}
  MaxSpreadEdits = 2
  MaxIngestFaults = 1
  ContestA = ContestA
  ContestB = ContestB
  Shared = Shared
  Own = Own
  Extra = Extra
  MaxBacklog = 2
  MaxRedeliveries = 1
  OrderUsers = {"u1"}
  SecondTicks = 1
  MinuteTicks = 2
  StaleTicks = 2
  GlobalPerSecond = 2
  UserPerSecond = 1
  UserPerMinute = 1
  ContestPerSecond = 2
  ContestLimitBaseRate = 1
  ContestLimitMultiplier = 1
  MaxParticipants = 1
  MaxOrderTime = 3
  MaxOrdersSent = 3
SPECIFICATION Spec
INVARIANTS
  
  
  HoursRight
  
  GatewayRight
  RequestsRight
  LiveFeedRight
 
CHECK_DEADLOCK FALSE
