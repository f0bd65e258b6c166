SPECIFICATION Spec
CONSTANTS
  TokenSeq <- ThreeTokens
  Fed = {"BTC", "USDC"}
  Networks = {"testnet", "mainnet"}
  Configs <- SomeConfigs
  AdminKey = AdminKey
  ServerKey = AdminKey
  Spenders = {"USDC"}
  MaxFaults = 1
  None = None
  
PROPERTY ComesUp
