\* A root and a sub-card: issuing, a revoke finalized by two requests, two nukes, late and lost redemptions, deletion.
CONSTANTS
  r1 = r1  s1 = s1  revoke1 = revoke1  nuke1 = nuke1  nuke2 = nuke2
  f1 = f1  f2 = f2  f3 = f3  f4 = f4
  None = None
  Cards = {r1, s1}
  ParentOf <- MCParentOf
  Ops = {revoke1, nuke1, nuke2}
  Direct = {nuke2}
  Target <- MCTarget
  Calls = {f1, f2, f3, f4}
  CallOf <- MCCallOf
  ReadsFail = TRUE
SPECIFICATION FairSpec
INVARIANTS
  SignedLeafSentOnce
  RevokedIsDisabled
PROPERTIES
  LiveNeverDeleted
  ClaimReleased
CHECK_DEADLOCK FALSE
