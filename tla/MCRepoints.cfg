SPECIFICATION Spec
CONSTANTS
  c1 = c1
  r1 = r1
  Checkpointers = {c1}
  Sessions = {}
  Repointers = {r1}
  Holders = {c1}
  NoHolder = NoHolder
  Gone = Gone
  UserNames = {"n"}
  Kinds = {"snapshot"}
  FaultModes = {"unsent", "lost", "read"}
  MaxFaults = 2
  Origins = {"created", "forked"}
  Edits = {"prune", "fork", "reaping", "delete"}
  MaxTouches = 1
  MaxRenewals = 1
  AcquireAttempts = 2
  CommitAttempts = 3
  FlushAttempts = 1
  MaxFlushes = 1
  OtherHeads = {2}
  MaxLineages = 2
INVARIANTS Fencing RefReadable
PROPERTIES KeepsHistory FenceForward
CHECK_DEADLOCK FALSE
