SPECIFICATION Spec
CONSTANTS
  TokenSeq <- ThreeTokens
  Fed = {"BTC", "USDC"}
  Networks = {"testnet"}
  Configs <- UploadOnly
  AdminKey = AdminKey
  ServerKey = AdminKey
  Spenders = {}
  MaxFaults = 0
  None = None
PROPERTY ServerCreatesConfig
