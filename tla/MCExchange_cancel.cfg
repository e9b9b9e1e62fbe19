CONSTANTS
  t1 = t1
  t2 = t2
  Traders <- TwoTraders
  Matchmaker = mm
  Nobody = nobody
  Modulus = 16
  Prices <- One
  Quantities <- One
  Deposits <- One
  Escrows <- One
  MaxOrders = 2
  DepositCap = 1
  EscrowCap = 1
  MaxRefused = 0
SPECIFICATION Spec
PROPERTY CanceledOrRemoved
