SPECIFICATION FairSpec
CONSTANTS
  AddressRange = 16
  AmountRange = 1024
  UsizeRange = 512
  ChannelSize = 1
  Streams <- MCStreams
  Quotes <- MCQuotes
  MaxUpdates = 3
  MaxSpread = 61
  MaxItems = 2
INVARIANTS
  LargeSwapsMirrorStream
PROPERTIES
  DivergenceWasReal
  SteadyDivergenceSignalled
  BothTasksEnd
  ImplementsPipelineMarket
