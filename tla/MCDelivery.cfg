SPECIFICATION DeliveryFairSpec
CONSTANTS
  e1 = e1  p1 = p1  p2 = p2  c1 = c1  c2 = c2
  NoConsumer = NoConsumer
  Rows = {1, 2}
  Body <- Bodies
  Concerts = {e1}
  Publishers = {p1, p2}
  Consumers = {c1, c2}
  PublishBatch = 1
  BatchSize = 2
  Concurrency = 2
  MaxAttempts = 2
  MaxFaults = 2
INVARIANTS DeliveryTypeOK CommittedIsHandled OnceWithoutFaults PublishedIsOnTopic
PROPERTIES RefinesTally EveryRowArrives
CHECK_DEADLOCK FALSE
