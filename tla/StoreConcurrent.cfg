\* Three callers with two connections record results of one endpoint at the same
\* time, with times that may come in the wrong order; every statement can fail.
SPECIFICATION Spec
CONSTANTS
  c1 = c1
  c2 = c2
  c3 = c3
  e1 = e1
  e2 = e2
  LockKey <- SameKey
  Caller <- ThreeCallers
  Endpoint <- OneEndpoint
  State = {"Healthy", "Degraded", "Unavailable"}
  Window = 1
  MaxConnections = 2
  Lag = 2
  MaxTime = 4
  MaxCalls = 4
SYMMETRY CallerSymmetry
INVARIANTS
  CallsProceed
  AlertSpacing
  OutageAlerted
  OrderedTransitionsMatch
