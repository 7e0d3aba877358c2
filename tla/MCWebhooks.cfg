\* Two overlapping drivers, a retry or a test, a restart.
CONSTANTS
  h1 = h1  e1 = e1  e2 = e2  w1 = w1  w2 = w2
  None = None
  Hooks = {h1}
  Events = {e1, e2}
  Wants <- MCWants
  Drivers = {w1, w2}
  MaxAttempts = 2
  MaxCount = 4
  MaxRearms = 1
  MaxCrashes = 1
SPECIFICATION Spec
PROPERTIES
  EveryDeliverySettles
CHECK_DEADLOCK FALSE
