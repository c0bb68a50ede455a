SPECIFICATION FairStartupSpec
CONSTANTS
  self = self
  n1 = n1
  n2 = n2
  Nodes <- ThreeNodes
  Self = self
  Static <- OneStatic
  MaxChanges = 3
  MaxFailures = 2
  MaxAttempts = 3
  MaxRenewals = 1
  MaxStops = 1
INVARIANTS TypeOK KeyDescribesRoutes StartupTypeOK PairIsOne NamedUnlessEarly
PROPERTIES Converges ComesUp
