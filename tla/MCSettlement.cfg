\* One authorization, its kickoff and the sweep, 1Shot lane, ambiguous sends, failing queries, a restart: safety, and the row is settled or parked.
CONSTANTS
  c1 = c1  p1 = p1  a1 = a1  kick = kick  tick = tick
  NoKey = NoKey  None = None  Unlimited = Unlimited
  Cards = {c1}
  Ancestors <- MCAncestors
  Pays = {}
  Auths = {a1}
  Settlers = {kick, tick}
  Kickers = {kick}
  Target <- MCTarget
  CardOf <- MCCardOf
  KeyOf <- MCKeyOf
  Amount <- MCAmount
  Cap <- MCCap
  MaxUses <- MCUses
  Fees = {1}
  Headroom = 2
  EstimateRetries = 1
  MaxAttempts = 2
  SettlementOn = TRUE
  ViaChain = TRUE
  AmbiguousSend = TRUE
  RpcBlips = TRUE
  StaleCollector = FALSE
  SlowStart = TRUE
  RunsInterrupted = FALSE
  MaxCrashes = 1
SPECIFICATION FairSettlementSpec
INVARIANTS
  FiatNeverReleased
  SettledOnce
  BroadcastIsClaimed
PROPERTIES
  AuthorizationResolved
CHECK_DEADLOCK FALSE
