SPECIFICATION CheckoutSpec
CONSTANTS
  People <- MCPeople
  RoleOf <- MCRoleOf
  Reqs = {1, 2}
  NoReq = 0
  LimitOf <- MCLimitOf
  Window = 2
  Visit <- MCCalmVisit
  s1 = s1  s2 = s2
  Metered <- MCMetered
  Seats = {s1,s2}
  Keys = {1, 2}
  NoKey = 0
  Foreign = 9
  MaxSeatsPerOrder = 1
  EventRows = 300
  SeatCounts <- MCSeatCounts
  ListLimits <- MCListLimits
INVARIANTS AnAnswerIsADecision
