SPECIFICATION FairSpec
CONSTANTS
  Origins <- TwoOrigins
  Scenarios <- ThreeScenarios
  PidMax = 17
  MaxRequests = 1
INVARIANTS ReachesItsParameter TypeKept Transparent
PROPERTY Answered
\* An aggregator that has answered all MaxRequests requests, or whose program ended on its file, rests.
CHECK_DEADLOCK FALSE
