\* Two failures open the circuit, a cooldown of two units, two retries; crashes,
\* cancellations, database outages and maintenance at every point; and endpoints
\* that end up healthy, or down, for good.
SPECIFICATION FairSpec
CONSTANTS
  Threshold = 2
  Cooldown = 2
  Retries = 2
INVARIANTS
  CooldownRespected
  SkipMeansOutage
  NoShutdownOutageStored
  StoredOutageConfirmed
  GaugeAgreesWithStore
PROPERTIES
  RecoveryRecorded
  OutageRecorded
  ImplementsBreaker
