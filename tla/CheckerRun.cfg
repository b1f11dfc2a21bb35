\* Every kind of endpoint and of target, answers at any time or never, a
\* cancellation at any time, three retries with delays below, at and above the
\* maximum, with an odd and an even maximum and with none.
SPECIFICATION FairRetrySpec
CONSTANTS
  Timeout = 2
  LatencyTarget = 1
  Retries = 3
  Delays <- DelaysToTry
INVARIANTS
  StateAsDocumented
  TwoTimeouts
  BackoffAsDocumented
PROPERTIES
  RetryReturns
  RetryEndsInTime
