\* Results of two endpoints with every state a check ends in, fast and slow, in
\* any order between the endpoints; requests without, below, within and above
\* the limit.
SPECIFICATION Spec
CONSTANTS
  e1 = e1
  e2 = e2
  Endpoint <- TwoEndpoints
  State = {"Healthy", "Degraded", "Unavailable", "Maintenance"}
  Latency = {1, 2}
  LatencyTarget = 1
  TargetNum = 1
  TargetDen = 2
  Window = 1
  DefaultLimit = 2
  MaxLimit = 3
  Limits = {0, 1, 4}
  MaxTime = 3
  MaxResults = 3
SYMMETRY EndpointSymmetry
INVARIANTS
  RepositoriesAgree
PROPERTIES
  BudgetFollowsResults
