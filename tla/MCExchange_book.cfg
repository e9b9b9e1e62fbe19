CONSTANTS
  t1 = t1
  t2 = t2
  Traders <- TwoTraders
  Matchmaker = mm
  Nobody = nobody
  Modulus = 4
  Prices <- OneTwo
  Quantities <- OneTwo
  Deposits <- Two
  Escrows <- Two
  MaxOrders = 2
  DepositCap = 2
  EscrowCap = 2
  MaxRefused = 1
SYMMETRY TraderSymmetry
SPECIFICATION Spec
CONSTRAINT OneRefusal
INVARIANTS TypeOK FundsConserved UnitsConserved RefsExact SpentOrdersLeave
