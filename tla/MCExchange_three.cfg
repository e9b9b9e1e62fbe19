CONSTANTS
  t1 = t1
  t2 = t2
  Traders <- TwoTraders
  Matchmaker = mm
  Nobody = nobody
  Modulus = 32
  Prices <- OneTwo
  Quantities <- OneTwo
  Deposits <- Eight
  Escrows <- Two
  MaxOrders = 3
  DepositCap = 8
  EscrowCap = 2
  MaxRefused = 0
SPECIFICATION Spec
CONSTRAINT Sizes
INVARIANTS BookInOrder NoLostMatch PostedBeforeTraded Inv
PROPERTY Market
