CONSTANTS
  t1 = t1
  t2 = t2
  Traders <- TwoTraders
  Unreliable <- T1
  Matchmaker = mm
  Nobody = nobody
  Ended = ended
  Modulus = 16
  Prices <- One
  Quantities <- One
  Deposits <- One
  Escrows <- One
  MaxOrders = 2
  DepositCap = 1
  EscrowCap = 1
  MaxRefused = 1
SPECIFICATION FairServer
CONSTRAINT Scenario
INVARIANTS WireOK WireInv PostedComesFirst
PROPERTIES RequestsAnswered MatchesAreTraded FiniReturns
