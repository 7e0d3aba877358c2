\* One card tree, two users, two requests, three token rows: replays, rotations, kills and collection of old rows.
CONSTANTS
  root = root  sub = sub  u1 = u1  u2 = u2  q1 = q1  q2 = q2  t1 = t1  t2 = t2  t3 = t3
  None = None
  Requests = {q1, q2}
  Tokens = {t1, t2, t3}
  Users = {u1, u2}
  Cards = {root, sub}
  OwnerOf <- MCOwnerOf
  Managers <- MCManagers
  ParentOf <- MCParentOf
  RequestTtl = 1  CodeTtl = 1  RefreshTtl = 1
  Grace = 0
  MaxNow = 2
SPECIFICATION Spec
INVARIANTS
  OneLiveTokenPerApproval
  ReplayKillsGrant
  CascadeIsFinal
SYMMETRY MCSymmetry
CHECK_DEADLOCK FALSE
