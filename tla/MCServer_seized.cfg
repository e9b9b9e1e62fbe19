CONSTANTS
  t1 = t1
  t2 = t2
  Traders <- TwoTraders
  Unreliable = {}
  Matchmaker = mm
  Nobody = nobody
  Ended = ended
  Modulus = 16
  Prices <- One
  Quantities <- One
  Deposits <- One
  Escrows <- One
  MaxOrders = 2
  DepositCap = 1
  EscrowCap = 1
  MaxRefused = 0
SPECIFICATION FairServer
CONSTRAINT Scenario

PROPERTY EveryRequestAnswered
