SPECIFICATION SagaSpec
CONSTANTS
  s1 = s1  s2 = s2  o1 = o1  o2 = o2  o3 = o3  e1 = e1  k = k
  NoOrder = NoOrder  NoKey = NoKey
  Seats = {s1}
  Events = {e1}
  Orders = {o1, o2}
  Keys = {}
  EventOf <- OneEvent
  Req <- OneSeat
  KeyOf <- NoKeys
  AmountOf <- Payable
  RedisFaults = FALSE
  MaxRestarts = 0
  Faults = TRUE
  MaxCrashes = 0
INVARIANTS FailedIsNotCharged
CHECK_DEADLOCK FALSE
