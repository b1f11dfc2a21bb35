\* Three checks of one endpoint, stored or not, while statuses are requested or
\* the metrics are scraped.
SPECIFICATION Spec
CONSTANTS
  Endpoint = {"api"}
  State = {"Healthy", "Unavailable", "Maintenance"}
  Window = 1
  SLOWindow = 1
  LatencyTarget = 1
  RecentLimit = 2
  DefaultLimit = 100
  MaxLimit = 500
  MaxTime = 3
  MaxChecks = 3
INVARIANTS
  StatusIsCoherent
  ScrapeTellsState
  CountersAccount
