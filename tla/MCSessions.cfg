SPECIFICATION SessionsSpec
CONSTANTS
  ann = ann  laptop = laptop  page1 = page1
  NoUser = NoUser  NoToken = NoToken  NoReq = NoReq  Keep = Keep
  Users = {ann}
  Tabs = {page1}
  Jars = {laptop}
  JarOf <- OwnJar
  UserOf <- OnePerson
  Tokens = {1, 2, 3, 4, 5}
  Reqs = {1, 2, 3}
  Calls = {1, 2}
  MaxEvents = 3
INVARIANTS OneSuccessor ReuseEndsSessions
PROPERTIES HonestTabNotCaught OnlyADefiniteNo EveryCallSettles
CHECK_DEADLOCK FALSE
