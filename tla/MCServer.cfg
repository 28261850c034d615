SPECIFICATION FairSpec
CONSTANTS
  MaxWorkers = 3
  QueueSize = 2
  MaxClients = 5
  MaxForkFailures = 1
INVARIANTS SlotsAccounted HandlerFindsZombie SlotRemains
PROPERTIES ClientsServed
CHECK_DEADLOCK FALSE
