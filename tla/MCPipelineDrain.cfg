SPECIFICATION FairSpec
CONSTANTS
  Subscribers <- Consumers
  Capacity = 2
  MaxPosition = 4
  MaxSlippageBps = 100
  MaxGasPrice = 50
  DailyLossLimit = 5
  Tokens = {"zero", "weth", "usdc"}
  NoGasPrice = NoGasPrice
  NoIntent = NoIntent
  Spreads = {60}
  QuotedPairs = {}
  NumStrategies = 1
  Answers <- EagerStrategy
  DryRun = TRUE
  Broadcaster = "network"
  Watched = {1, 2}
  MaxTxs = 1
  MinProfitBps = 50
  MaxTradeSize = 2
  ZeroAddress = "zero"
PROPERTIES
  InboxDrainedAtStop
