SPECIFICATION Spec
CONSTANTS
  m = m
  v = v
  p1 = p1
  p2 = p2
  NoTask = NoTask
  Tasks <- OnePlain
  Migrations <- None
  Pollers <- OnePoller
  OutCap = 1
  InPlace = TRUE
  Faults = FALSE
  MaxRestarts = 0
  Burst = 1
INVARIANT OutcomeIsShown
CHECK_DEADLOCK FALSE
