SPECIFICATION WiredSpec
CONSTANTS
  MaxPosition = 3
  MaxSlippageBps = 100
  MaxGasPrice = 50
  DailyLossLimit = 2
  Tokens = {"weth", "usdc"}
  NoGasPrice = NoGasPrice
  NoIntent = NoIntent
  Intents <- MCIntents
  Losses = {1, 2}
  MaxTrades = 3
  MaxLoss = 3
  MaxLives = 2
INVARIANT NoncesUnique
CHECK_DEADLOCK FALSE
