\* 1Shot lane: a payment and its retry under one key, fees that rise, sweeps, a restart: safety, and every call and broadcast ends.
CONSTANTS
  root = root  sub = sub  p1 = p1  p2 = p2  a1 = a1  k1 = k1
  NoKey = NoKey  None = None  Unlimited = Unlimited
  Cards = {root, sub}
  Ancestors <- MCAncestors
  Pays = {p1, p2}
  Auths = {}
  Settlers = {}
  Target <- MCNoSettlers
  CardOf <- RetryCardOf
  KeyOf <- RetryKeyOf
  Amount <- RetryAmount
  Cap <- RetryCap
  MaxUses <- RetryUses
  Fees = {1, 2}
  Headroom = 2
  EstimateRetries = 2
  SettlementOn = TRUE
  ViaChain = TRUE
  AmbiguousSend = FALSE
  RpcBlips = FALSE
  StaleCollector = FALSE
  SlowStart = FALSE
  RunsInterrupted = FALSE
  MaxCrashes = 1
SPECIFICATION FairSpec
INVARIANTS
  OneRedemptionPerKey
  ConfirmedLanded
  MovedIsCounted
PROPERTIES
  CallsReturn
  BroadcastResolved
CHECK_DEADLOCK FALSE
