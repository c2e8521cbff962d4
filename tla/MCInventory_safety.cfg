SPECIFICATION InventorySpec
CONSTANTS
  s1 = s1  s2 = s2  o1 = o1  o2 = o2  e1 = e1  e2 = e2
  NoOrder = NoOrder
  Seats = {s1, s2}
  Events = {e1}
  Orders = {o1, o2}
  EventOf <- OneEvent
  Req <- Rivals
  RedisFaults = TRUE
  MaxRestarts = 0
INVARIANTS InventoryTypeOK HolderMatchesStatus AllOrNothingSale
PROPERTIES RefinesSeatSale HoldersOnly
CHECK_DEADLOCK FALSE
