SPECIFICATION MCSpec
CONSTANTS
  key1 = key1
  key2 = key2
  client1 = client1
  client2 = client2
  client3 = client3
  Keys = {key1, key2}
  Clients = {client1, client2}
  MaxSessions = 2
  MaxCalls = 3
  Shutdowns = TRUE
  Nil = Nil
SYMMETRY ClientSymmetry
INVARIANTS
  Claimed SessionsTrue ShutdownClean 
CHECK_DEADLOCK FALSE
