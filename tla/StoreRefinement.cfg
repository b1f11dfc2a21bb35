\* Three callers with two connections, two endpoints whose identifiers have the
\* same hash: every call returns, and what is committed is committed as by the
\* one-step repository.
SPECIFICATION FairSpec
CONSTANTS
  c1 = c1
  c2 = c2
  c3 = c3
  e1 = e1
  e2 = e2
  LockKey <- SameKey
  Caller <- ThreeCallers
  Endpoint <- TwoEndpoints
  State = {"Healthy", "Unavailable"}
  Window = 1
  MaxConnections = 2
  Lag = 0
  MaxTime = 1
  MaxCalls = 3
PROPERTIES
  CallsReturn
  ImplementsResultLog
