\* Two receipts, the hook and a sweep that examines one at a time, every failure, a restart.
CONSTANTS
  Charges <- MCCharges
  MaxAttempts = 2
  Sweeps = {w1}
  SweepLimit = 1
  Window = 2
  LostStarts = TRUE
  SlowRuns = TRUE
  Refusals = TRUE
  MaxCrashes = 1
  None = None
SPECIFICATION FairSpec
INVARIANTS
  OneLiveRun
  AnchoredIsOnChain
PROPERTIES
  NoRunAfterLanding
  EveryReceiptEnds
