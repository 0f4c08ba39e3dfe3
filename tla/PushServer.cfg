SPECIFICATION FairSpec
CONSTANTS
  Servers = {1}
  Accepting = {1}
  Loops = {0}
  SvConns = {"k1", "k2", "k3"}
  MaxChanges = 1
  MaxFails = 1
  MaxOther = 1
INVARIANTS ListSound LostOnlyByDuplicate LoaderFresh ListCurrent
PROPERTY Converges
CHECK_DEADLOCK FALSE
