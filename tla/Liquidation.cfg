SPECIFICATION Spec
CONSTANTS
  UOne = 32
  IOne = 16
  MaxU64 = 1000
  OneInBps = 4
  SupplyUnit = 1
  CollateralUnit = 1
  TargetMargin = 14
  Debts <- DebtSizes
  Collaterals <- CollateralSizes
  SharePricesOfDebt = {32, 40}
  SupplyFeeds <- OneToOne
  CollateralFeeds <- FourRates
  MaxExponent = 1
  Budgets <- BudgetSizes
  DustAtoms = 4
  LtvConfigs <- TwoConfigs
INVARIANTS UnhealthyIsLiquidatable OneLiquidationHeals
PROPERTY LiquidatorGainBounded
CHECK_DEADLOCK FALSE
