SPECIFICATION FairSpec
CONSTANTS
  Clients = {c1, c2}
  Server = server
  Programs <- Usual
  Capacity = 1
  MaxBody = 2
CHECK_DEADLOCK FALSE
INVARIANTS TypeOK BodyGiven NoMutualWait OnlyTimeoutsLeak
PROPERTIES Freed EndSeen
