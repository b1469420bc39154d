SPECIFICATION MCSpec
CONSTANTS
  proc1 = proc1
  proc2 = proc2
  data1 = data1
  data2 = data2
  name1 = name1
  Nil = Nil
  Bad = Bad
  Unsure = Unsure
  Writable = Writable
  Procs = {proc1, proc2}
  Values = {data1, data2}
  Absent = Absent
  NoProc = NoProc
  MaxInodes = 4
  MaxCalls = 3
SYMMETRY Symmetry
INVARIANTS
  Exclusive DescriptorsSafe CacheTrue 
PROPERTIES
  Atomic 
CHECK_DEADLOCK FALSE
