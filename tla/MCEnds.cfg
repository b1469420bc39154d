SPECIFICATION MCFairSpec
CONSTANTS
  name1 = name1
  Nil = Nil
  Writable = Writable
  Absent = Absent
PROPERTIES
  SessionEnds StoreEnds DaemonEnds
CHECK_DEADLOCK FALSE
