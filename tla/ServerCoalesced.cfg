SPECIFICATION Spec
CONSTANTS
  MaxWorkers = 2
  QueueSize = 2
  MaxClients = 3
  MaxForkFailures = 0
INVARIANTS SemaphoreCountsWorkers
CHECK_DEADLOCK FALSE
