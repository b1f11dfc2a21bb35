\* A queue that holds every endpoint and a repository that may stop answering:
\* nothing is dropped, every endpoint goes on being probed while the repository
\* serves, shutdown completes even while it does not; and the scheduler as an
\* implementation of CheckCycle.
SPECIFICATION FairSpec
CONSTANTS
  w1 = w1
  w2 = w2
  w3 = w3
  NumEndpoints = 3
  Interval <- ShortFirst
  Workers <- TwoWorkers
  ConcurrencyLimit = 1
  QueueSize = 3
  MaxElapsed = 2
INVARIANTS
  NoDropWhenQueueHoldsAll
PROPERTIES
  ProbesContinueWhenServed
  ShutdownCompletes
  ImplementsCheckCycle
