\* Startup, service and shutdown with configurations of every kind, two requests
\* and a database that comes, goes and hangs.
SPECIFICATION FairSpec
CONSTANTS
  Configs <- Files
  MaxInt = 536870911
  JobsRoom = 1000
  DoneRoom = 2000
  MaxRequests = 2
INVARIANTS
  TypeOK
  CleanExitOnlyWhenAsked
  PanicsOnlyOnSizes
  LoadedConfigWorks
PROPERTIES
  StartupEnds
  ShutdownEnds
  ReadinessFollows
