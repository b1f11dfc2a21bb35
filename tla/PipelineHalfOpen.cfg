\* The half-open admission of an endpoint that has a retry.
SPECIFICATION Spec
CONSTANTS
  Threshold = 1
  Cooldown = 1
  Retries = 1
INVARIANT
  HalfOpenSingleProbe
