SPECIFICATION Spec
CONSTANTS
  r1 = r1
  s1 = s1
  Checkpointers = {}
  Sessions = {s1}
  Repointers = {r1}
  Holders = {s1}
  NoHolder = NoHolder
  Gone = Gone
  UserNames = {"n"}
  Kinds = {"snapshot", "segment"}
  FaultModes = {"lost"}
  MaxFaults = 1
  Origins = {"created"}
  Edits = {}
  MaxTouches = 1
  MaxRenewals = 1
  AcquireAttempts = 2
  CommitAttempts = 2
  FlushAttempts = 1
  MaxFlushes = 1
  OtherHeads = {1}
  MaxLineages = 2
INVARIANT ReferencedIntact
CHECK_DEADLOCK FALSE
