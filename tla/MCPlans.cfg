\* A plan executed twice and another under its key: lost requests, late and stale answers, expiry, freezes, restarts.
CONSTANTS
  p1 = p1  p2 = p2  e1 = e1  e2 = e2  e3 = e3  k1 = k1  n1 = n1
  PlanIds = {p1, p2}
  Execs = {e1, e2, e3}
  PlanOf <- MCPlanOf
  KeyOf <- MCKeyOf
  NoKey = NoKey  None = None
  Sweep = Sweep  Nudges = {n1}
  Deployments <- MCDeployments
  Interruptible = {p2}
  MaxAttempts = 2
SPECIFICATION FairSpec
INVARIANTS
  PlanRunsOnce
  OnlyLinkedPlansRun
  BooksFollowRun
PROPERTIES
  TakenOnIsSettled
CHECK_DEADLOCK FALSE
