SPECIFICATION SliceSpec
CONSTANTS
  UOne = 8
  IOne = 4
  MaxU64 = 60
  OneInBps = 4
  SupplyUnit = 1
  CollateralUnit = 1
  TargetMargin = 3
  MinBonus = 1
  MaxBonus = 1
  MaxLtvWithBonus = 3
  MaxUtilisation = 4
  MaxFee = 4
  Suppliers = {s1}
  Borrowers = {b1, b2}
  Amounts = {1, 2}
  Rates = {2}
  Quotes <- SomeQuotes
  Configs <- SomeConfigs
  SupplyMint = 3
  CollateralMint = 2
  MaxTime = 1
  SharePrices = {4, 8}
INVARIANTS
SweepSettleable
DebtIsBacked
CollateralConserved
BorrowSharesConserved
SupplySharesConserved
PROPERTIES
ImplementsPool
SupplyPriceFallsOnlyByLoss


CHECK_DEADLOCK FALSE
