SPECIFICATION MCSpec
CONSTANTS
  Nil = Nil
  dest1 = dest1
  dest2 = dest2
  hold1 = hold1
  NoHolder = NoHolder
  NoClaim = NoClaim
  Gone = Gone
  Calls = {dest1, dest2}
  Forced = {dest2}
  Reapers = {}
  Holders = {hold1}
  Conditional = FALSE
  StaleAfter = 4
  Margin = 2
  Ahead = 1
  DeleteDelay = 1
  SettleReads = 1
  DeleteAttempts = 1
  MaxFaults = 2
  MaxEpoch = 2
  MaxRenewals = 1
  MaxTouches = 0
  MaxWrites = 0
  Resends = FALSE
  MaxLives = 2
 
PROPERTIES
  DeletesOwnClaim LocalDestroys  
CHECK_DEADLOCK FALSE
