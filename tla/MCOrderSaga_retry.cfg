SPECIFICATION SagaSpec
CONSTANTS
  s1 = s1  s2 = s2  o1 = o1  o2 = o2  o3 = o3  e1 = e1  k = k
  NoOrder = NoOrder  NoKey = NoKey
  Seats = {s1}
  Events = {e1}
  Orders = {o1, o2, o3}
  Keys = {k}
  EventOf <- OneEvent
  Req <- OneSeat
  KeyOf <- OneKey
  AmountOf <- Amounts
  RedisFaults = TRUE
  MaxRestarts = 0
  Faults = TRUE
  MaxCrashes = 1
INVARIANTS RefusedIsNotCharged OneChargePerKey AnswersAgree
PROPERTIES RefinesPurchase
SYMMETRY Customers
CHECK_DEADLOCK FALSE
