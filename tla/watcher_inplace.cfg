SPECIFICATION FairSpec
CONSTANTS
  m = m
  v = v
  p1 = p1
  p2 = p2
  NoTask = NoTask
  Tasks <- OneMigration
  Migrations <- OneMigration
  Pollers <- Two
  OutCap = 1
  InPlace = TRUE
  Faults = TRUE
  MaxRestarts = 1
  Burst = 1
INVARIANTS TypeOK NoLostWakeup StartedFirst OncePerLife TruthfulOutcome SuccessIsTrue IInv
PROPERTIES RefinesLifecycle EventuallyEnded
CHECK_DEADLOCK FALSE
