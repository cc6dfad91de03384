SPECIFICATION Spec
CONSTANTS
  Subscribers <- Consumers
  Capacity = 2
  MaxPosition = 4
  MaxSlippageBps = 100
  MaxGasPrice = 50
  DailyLossLimit = 5
  Tokens = {"zero", "weth", "usdc"}
  NoGasPrice = NoGasPrice
  NoIntent = NoIntent
  Spreads = {60}
  QuotedPairs = {1, 2, 3}
  NumStrategies = 1
  Answers <- WiredStrategy
  DryRun = FALSE
  Broadcaster = "log"
  Watched = {1, 2}
  MaxTxs = 1
  MinProfitBps = 50
  MaxTradeSize = 2
  ZeroAddress = "zero"
INVARIANTS
  IntentsAreTrades
