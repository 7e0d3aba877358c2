\* Two payments and a ledger-mode authorization, KeeperHub lane.
CONSTANTS
  root = root  sub = sub  p1 = p1  p2 = p2  a1 = a1  k1 = k1
  NoKey = NoKey  None = None  Unlimited = Unlimited
  Cards = {root, sub}
  Ancestors <- MCAncestors
  Pays = {p1, p2}
  Auths = {a1}
  Settlers = {}
  Target <- MCNoSettlers
  CardOf <- RaceCardOf
  KeyOf <- RaceKeyOf
  Amount <- RaceAmount
  Cap <- RaceCap
  MaxUses <- RaceUses
  Fees = {1, 2}
  Headroom = 2
  EstimateRetries = 2
  SettlementOn = FALSE
  ViaChain = FALSE
  AmbiguousSend = FALSE
  RpcBlips = FALSE
  StaleCollector = FALSE
  SlowStart = FALSE
  RunsInterrupted = TRUE
  MaxCrashes = 1
SPECIFICATION Spec
INVARIANTS
  LimitsHeld
  ConfirmedIsAnnounced
PROPERTIES
  ImplementsAccount
  FinalStaysFinal
CHECK_DEADLOCK FALSE
