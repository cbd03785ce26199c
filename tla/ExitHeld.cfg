CONSTANTS
  First = "first"
  Second = "second"
  Deployments = {FALSE}
  MaxFailures = 0
SPECIFICATION FairSpec
CHECK_DEADLOCK FALSE
PROPERTIES
  LegLeaves
