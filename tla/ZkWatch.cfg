SPECIFICATION FairSpec
CONSTANTS
  MaxChanges = 6
  MaxLosses = 3
INVARIANTS OneChain ChainAlive SeenCurrent
PROPERTY InitWakes
CHECK_DEADLOCK FALSE
