CONSTANTS
  Endpoints = {"a"}
  Ips <- OneAddress
  IpOf <- JustOne
  Configured <- OneConfigured
  NoEndpoint = "none"
  MaxTotal = 2
  MaxPerIp = 2
  MaxBook = 1
  MaxClaims = 2
  Conns = {1, 2}
  Users = {"user"}
  MaxEvents = 1
SPECIFICATION FairSpec
CHECK_DEADLOCK FALSE
INVARIANTS
  SlotsExact
  VerifiedExact
PROPERTIES
  StopEnds
  LostIsRedialled
