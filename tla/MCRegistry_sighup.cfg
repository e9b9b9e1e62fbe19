CONSTANTS
  c1 = c1
  c2 = c2
  c3 = c3
  Conns <- TwoConns
  Free = free
  Null = null
  Fresh = fresh
  FD_SETSIZE = 2
SPECIFICATION FairSpec
PROPERTY SighupTerminates
