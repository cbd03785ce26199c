CONSTANTS
  First = "first"
  Second = "second"
  Deployments = {TRUE, FALSE}
  MaxFailures = 1
SPECIFICATION FairSpec
CHECK_DEADLOCK FALSE
INVARIANTS
  EnteredOnce
  CompleteIsOut
PROPERTIES
  VerdictImplemented
  ArmedEnds
