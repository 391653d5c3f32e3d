SPECIFICATION FairSpec
CONSTANTS
  c1 = c1
  c2 = c2
  Clients <- MCClients
  SendCap = 1
  BroadcastCap = 1
  MaxMsgs = 3
INVARIANTS
  ClosedOnce
  NoHoles
PROPERTIES
  SubscriberNeverStalls
  PumpsEnd
