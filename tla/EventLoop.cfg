SPECIFICATION FairSpec
CONSTANTS
  p1 = p1  p2 = p2  c1 = c1  c2 = c2
  Producers = {p1, p2}
  Conns = {c1}
  TimerCons = {c1}
  RecvMax = 4
  TimerBatch = 2
  MaxOps = 4
INVARIANTS CtlBounded FlagDownServed NoDangling
PROPERTY TimerRescues
CHECK_DEADLOCK FALSE
