SPECIFICATION SagaFairSpec
CONSTANTS
  s1 = s1  s2 = s2  o1 = o1  o2 = o2  o3 = o3  e1 = e1  k = k
  NoOrder = NoOrder  NoKey = NoKey
  Seats = {s1, s2}
  Events = {e1}
  Orders = {o1}
  Keys = {}
  EventOf <- OneEvent
  Req <- BothSeats
  KeyOf <- NoKeys
  AmountOf <- Payable
  RedisFaults = TRUE
  MaxRestarts = 1
  Faults = TRUE
  MaxCrashes = 1
PROPERTIES EveryCallEnds HoldsEnd
CHECK_DEADLOCK FALSE
