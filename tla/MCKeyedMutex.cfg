\* Three sections on one key and one on another: the mutex is the lock, and calls return.
CONSTANTS
  s1 = s1  s2 = s2  s3 = s3  t1 = t1  k1 = k1  k2 = k2
  Sections = {s1, s2, s3, t1}
  Keys = {k1, k2}
  KeyOf <- MCKeyOf
  None = None
SPECIFICATION FairSpec
INVARIANTS
  NoEntryLeft
PROPERTIES
  ImplementsLock
  EveryCallEnds
CHECK_DEADLOCK FALSE
