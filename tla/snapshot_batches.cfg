SPECIFICATION Spec
CONSTANTS
  a = a
  b = b
  cluster = cluster
  Loop = Loop
  VMs <- TwoVMs
  Callbacks <- ClusterRequests
  OutCap = 2
  MaxBatches = 2
  MaxChanges = 1
  MaxForeign = 1
INVARIANTS TypeOK CountConfirms CompleteIsLast NeverBlocked AnswersAreFresh
SYMMETRY VMSymmetry
CHECK_DEADLOCK FALSE
