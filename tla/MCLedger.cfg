SPECIFICATION FairSpec
CONSTANTS
  c1 = c1
  s1 = s1
  a1 = a1
  a2 = a2
  a3 = a3
  x1 = x1
  Ids <- MCIds
  Strangers <- MCStrangers
  Initial <- MCInitial
  Amounts <- MCAmounts
  Clients <- MCClients
  Stressers <- MCStressers
  N = 2
  MinAmount = 10
  MaxLog = 2
INVARIANTS
  Conservation
  LogExplainsBalances
  NoOverdraft
  StressVerdictSound
PROPERTIES
  WholeTransfers
  StressTerminates
