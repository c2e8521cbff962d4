CONSTANTS
  s1 = s1
  b1 = b1
  concert = concert
  Seats = {s1}
  EventOf <- MCEventOf
  Browsers = {b1}
  Watches <- MCWatches
  Conns <- MCConns
  NoConn = NoConn
  MaxSubscribers = 2
  SubscriberBuffer = 1
  WireCap = 1
  MaxChanges = 2
  MaxFaults = 2
SPECIFICATION SeatMapSpec
INVARIANTS SeatMapTypeOK HubIsConsistent StreamedMapIsRight
PROPERTIES MapSettles EveryViewerGetsThrough ShutdownCompletes
CHECK_DEADLOCK FALSE
