SPECIFICATION Spec
CONSTANTS
  m = m
  v = v
  Tasks <- OneMigration
  Migrations <- OneMigration
  Migrates <- OneMigration
  InCap = 2
  OutCap = 1
  PidReuse = TRUE
INVARIANT TargetIsOwn
CHECK_DEADLOCK FALSE
