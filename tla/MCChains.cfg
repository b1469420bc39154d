SPECIFICATION MCSpec
CONSTANTS
  value1 = value1
  value2 = value2
  Values = {value1, value2}
  Nil = Nil
SYMMETRY Symmetry
INVARIANTS
   CachedChainTrue  
CHECK_DEADLOCK FALSE
