SPECIFICATION Spec
CONSTANTS
  r1 = r1
  r2 = r2
  h = h
  Calls = {}
  Forced = {}
  Reapers = {r1, r2}
  Holders = {h}
  NoHolder = NoHolder
  NoClaim = NoClaim
  Gone = Gone
  Conditional = TRUE
  StaleAfter = 2
  Margin = 1
  Ahead = 0
  DeleteDelay = 0
  SettleReads = 1
  DeleteAttempts = 2
  MaxFaults = 0
  MaxEpoch = 1
  MaxRenewals = 0
  MaxTouches = 1
  MaxWrites = 0
  Resends = FALSE
  MaxLives = 2
PROPERTIES
  TouchOrReap
