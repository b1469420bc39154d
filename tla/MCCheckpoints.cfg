SPECIFICATION Spec
CONSTANTS
  c1 = c1
  c2 = c2
  Checkpointers = {c1, c2}
  Sessions = {}
  Repointers = {}
  Holders = {c1, c2}
  NoHolder = NoHolder
  Gone = Gone
  UserNames = {"n"}
  Kinds = {"snapshot"}
  FaultModes = {"unsent", "lost", "late", "read"}
  MaxFaults = 1
  Origins = {"created"}
  Edits = {"touch", "prune", "release", "deleting"}
  MaxTouches = 1
  MaxRenewals = 1
  AcquireAttempts = 2
  CommitAttempts = 2
  FlushAttempts = 1
  MaxFlushes = 1
  OtherHeads = {1}
  MaxLineages = 1
SYMMETRY CheckpointerSymmetry
INVARIANTS OneWriterPerEpoch VerdictsTrue
PROPERTY LiveLeaseKept
CHECK_DEADLOCK FALSE
