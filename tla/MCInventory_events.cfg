SPECIFICATION InventorySpec
CONSTANTS
  s1 = s1  s2 = s2  o1 = o1  o2 = o2  e1 = e1  e2 = e2
  NoOrder = NoOrder
  Seats = {s1, s2}
  Events = {e1, e2}
  Orders = {o1, o2}
  EventOf <- TwoEvents
  Req <- MixedSeats
  RedisFaults = TRUE
  MaxRestarts = 1
INVARIANTS OutboxAgrees
CHECK_DEADLOCK FALSE
