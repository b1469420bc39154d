CONSTANTS
  Values = {0, 1}
  Zero = 0
  LockPgno = 2
  MaxPages = 3
  BlockPages = 2
  MaxTxns = 2
  MaxSegments = 2
SPECIFICATION Spec
INVARIANTS ChainInv StreamTrue Rebuilds
PROPERTY AcceptsChain
