SPECIFICATION Spec
CONSTANTS
  UOne = 64
  IOne = 64
  MaxU64 = 1000
  MaxExponent = 2
  Feeds = {F1, F2}
  Pusher = Pusher
  Others = {O1}
  NoKey = NoKey
  LegacyFeeds = {F1}
  AlertFeeds = {F1}
  Price = 500
  PythConf = 5
  Decimals = 2
  MaxAge = 1
  MaxConfidence = 3
  PushTimeout = 1
  TxLife = 2
  MaxPool = 2
  MaxFunds = 2
  RefillThreshold = 1
  HealthMaxStale = 2
  CriticalBalance = 0
  WarningBalance = 2
  RetryInterval = 1
INVARIANTS
  FeedsFromOneFetch
  
  HealthyMeansFresh
PROPERTIES
  FeedsRecover
  AlertedWhenDry
