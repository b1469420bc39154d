SPECIFICATION Spec
CONSTANTS
  c1 = c1
  s1 = s1
  Checkpointers = {c1}
  Sessions = {s1}
  Repointers = {}
  Holders = {c1, s1}
  NoHolder = NoHolder
  Gone = Gone
  UserNames = {"n"}
  Kinds = {"snapshot", "segment"}
  FaultModes = {"unsent", "lost", "read"}
  MaxFaults = 1
  Origins = {"created"}
  Edits = {"touch", "release"}
  MaxTouches = 1
  MaxRenewals = 1
  AcquireAttempts = 2
  CommitAttempts = 2
  FlushAttempts = 1
  MaxFlushes = 2
  OtherHeads = {1}
  MaxLineages = 1
INVARIANT CommittedIntact
PROPERTY CommitsUnderLease
CHECK_DEADLOCK FALSE
