\* Every publisher and subscriber may stop for good: the bus then has no step.
CHECK_DEADLOCK FALSE
SPECIFICATION Spec
CONSTANTS
  Publishers = {p1, p2}
  Subscribers = {s1, s2}
  Capacity = 2
  MaxMessages = 4
INVARIANTS
  TypeOK
  InOrderFromSubscription
  OnlyOverwrittenAreMissed
  ClosedMeansDrained
PROPERTIES
  Delivered
  ClosingEndsReceivers
  ImplementsQueues
