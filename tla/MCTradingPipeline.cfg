SPECIFICATION Spec
CONSTANTS
  Subscribers <- Consumers
  Capacity = 2
  MaxPosition = 4
  MaxSlippageBps = 100
  MaxGasPrice = 10
  DailyLossLimit = 5
  Tokens = {"zero", "weth", "usdc"}
  NoGasPrice = NoGasPrice
  NoIntent = NoIntent
  Spreads = {60}
  QuotedPairs = {1}
  NumStrategies = 1
  Answers <- OneStrategy
  DryRun = FALSE
  Broadcaster = "network"
  Watched = {1, 2}
  MaxTxs = 1
  MinProfitBps = 50
  MaxTradeSize = 2
  ZeroAddress = "zero"
INVARIANTS
  TypeOK
  ExposureWithinLimit
  ExposureIsSumOfApprovals
  SentWithinExposure
  Traceable
  AnsweredOnceInOrder
  NoncesAccounted
  SentInNonceOrder
  SentIsReported
  TransactionsKeepRules
  OutcomesTruthful
PROPERTIES
  ImplementsLifecycle
