SPECIFICATION FairSpec
CONSTANTS
  r1 = r1
  r2 = r2
  o1 = o1
  Orders <- MCOrders
  Reqs <- MCReqs
  NoReq = NoReq
  NoOrder = NoOrder
  MaxCrashes = 1
PROPERTY SagaUpdatesPending
