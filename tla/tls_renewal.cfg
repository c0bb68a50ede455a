SPECIFICATION FairStartupSpec
CONSTANTS
  self = self
  n1 = n1
  n2 = n2
  Nodes <- OneNode
  Self = self
  Static <- NoStatic
  MaxChanges = 0
  MaxFailures = 0
  MaxAttempts = 1
  MaxRenewals = 1
  MaxStops = 0
PROPERTY RenewalServed
