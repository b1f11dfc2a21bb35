\* The same scheduler with a database that may accept a query and never answer
\* it: docs/architecture.md says that probes continue.
SPECIFICATION FairSpec
CONSTANTS
  w1 = w1
  w2 = w2
  w3 = w3
  NumEndpoints = 3
  Interval <- ShortFirst
  Workers <- TwoWorkers
  ConcurrencyLimit = 1
  QueueSize = 3
  MaxElapsed = 2
PROPERTIES
  ProbesContinue
