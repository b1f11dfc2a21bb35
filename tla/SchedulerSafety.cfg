\* Four endpoints, a smaller queue, more workers than slots and two slots:
\* drops, full channels, checks side by side, shutdown in every state.
SPECIFICATION Spec
CONSTANTS
  w1 = w1
  w2 = w2
  w3 = w3
  NumEndpoints = 4
  Interval <- ShortFirst
  Workers <- ThreeWorkers
  ConcurrencyLimit = 2
  QueueSize = 2
  MaxElapsed = 2
SYMMETRY WorkerSymmetry
INVARIANTS
  OnePlacePerEndpoint
  InFlightExact
  DoneNeverBlocks
  SemaphoreCountsPerforming
  WorkersProceed
