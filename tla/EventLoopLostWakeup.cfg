SPECIFICATION FairSpec
CONSTANTS
  p1 = p1  p2 = p2  c1 = c1  c2 = c2
  Producers = {p1, p2}
  Conns = {c1}
  TimerCons = {}
  RecvMax = 4
  TimerBatch = 2
  MaxOps = 2
PROPERTY OpsServed
CHECK_DEADLOCK FALSE
