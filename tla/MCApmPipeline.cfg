SPECIFICATION FairSpec
CONSTANTS
  t1 = t1
  t2 = t2
  Recorders <- MCRecorders
  MaxQueue = 1
  GoCap = 1
  BatchSize <- MCBatchSize
  MaxBuffer = 3
  Elapsed <- MCElapsed
  MaxEvents <- MCMaxEvents
  MaxRestarts = 1
INVARIANTS
  TypeOK
  Overshoot
  AtMostOnce
  OrderPerService
  MetricsRight
PROPERTIES
  EventsLeave
CHECK_DEADLOCK FALSE
