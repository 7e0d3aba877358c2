\* Two fetches and an authorization on one tree: fees above the headroom, lost answers, receipts without a fee, repeated settlements, late redemptions, freezes, a restart.
CONSTANTS
  root = root  sub = sub  f1 = f1  f2 = f2  a1 = a1
  None = None  Unlimited = Unlimited
  Cards = {root, sub}
  Ancestors <- MCAncestors
  Cap <- MCCap
  MaxUses <- MCUses
  Fetches = {f1, f2}
  Auths = {a1}
  CardOf <- MCCardOf
  Amount <- MCAmount
  Fees = {1, 3}
  FeeHeadroom = 5
  AuthHeadroom = 2
  Rounds = 2
  OneShot = TRUE
  SigningRaces = FALSE
  MaxCrashes = 1
SPECIFICATION FairSpec
INVARIANTS
  BudgetHeld
  BookedCoversPaid
PROPERTIES
  FinalizedOnce
  ReservationResolved
CHECK_DEADLOCK FALSE
