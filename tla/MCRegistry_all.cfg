CONSTANTS
  c1 = c1
  c2 = c2
  c3 = c3
  Conns <- ThreeConns
  Free = free
  Null = null
  Fresh = fresh
  FD_SETSIZE = 2
SPECIFICATION FairSpec
INVARIANTS TypeOK RegisterHasRoom NobodyServedAfterWait RegistryInv
PROPERTIES ClientSetSpec ServedClientsEnd TerminateReturns
