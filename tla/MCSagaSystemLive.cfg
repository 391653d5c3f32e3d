SPECIFICATION FairSpec
CONSTANTS
  o1 = o1
  o2 = o2
  a1 = a1
  a2 = a2
  Reqs = {r1}
  NoReq = NoReq
  NoOrder = NoOrder
  MaxCrashes = 1
  MaxLog = 3
  MaxFaults = 2
  MaxRestarts = 1
  Ids <- MCIds
  Initial <- MCInitial
  Orders <- OneOrder
  Wanted <- MCWanted
PROPERTY OrderResolves
