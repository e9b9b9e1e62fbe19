CONSTANTS
  t1 = t1
  t2 = t2
  Traders <- TwoTraders
  Matchmaker = mm
  Nobody = nobody
  Modulus = 4
  Prices <- OneTwo
  Quantities <- OneTwo
  Deposits = {}
  Escrows <- One
  MaxOrders = 2
  DepositCap = 0
  EscrowCap = 1
  MaxRefused = 0
SPECIFICATION Spec
INVARIANT FundsAreDeposited
