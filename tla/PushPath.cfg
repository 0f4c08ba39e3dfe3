SPECIFICATION Spec
CONSTANTS
  v1 = v1
  Sessions = {s1, s2}
  Servers = {v1}
  consvid <- MCconsvid
  HeadSize = 2
  Lengths = {3}
  MaxLen = 3
  MaxReq = 2
  MaxLinks = 2
INVARIANTS CountExact InOrder
PROPERTY KeepsPromise
CHECK_DEADLOCK FALSE
