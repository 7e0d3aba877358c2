\* Chains of three cards of every kind: inherited, tightened and refused terms; redemptions booked, landed and failed in any order, new periods, expiry, deleted sub-cards.
CONSTANTS
  shop = shop  cafe = cafe  dex = dex  call = call
  None = None  Approve = Approve  Increase = Increase  Transfer = Transfer
  Usdc = Usdc  Collector = Collector
  Addresses <- MCAddresses  Selectors <- MCSelectors
  Roots <- MCRoots
  Requests <- MCRequests
  Redemptions <- MCRedemptions
  Fee = 1
  MaxDepth = 3
  MaxRedeemed = 2
  MaxNow = 1
SPECIFICATION Spec
INVARIANTS
  TightensDownTheChain
  ChainNeverPreempts
  SubCardAddsNothing
PROPERTIES
  MintedWithinRemaining
CHECK_DEADLOCK FALSE
