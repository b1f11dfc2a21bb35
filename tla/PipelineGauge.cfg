\* The circuit gauge of an endpoint that enters a maintenance window.
SPECIFICATION Spec
CONSTANTS
  Threshold = 1
  Cooldown = 2
  Retries = 0
INVARIANT
  CircuitGaugeTruthful
