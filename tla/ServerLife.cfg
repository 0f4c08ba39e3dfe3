SPECIFICATION Spec
CONSTANTS
  Loops = {l1, l2}
  Clients = {c1}
  Outgoing = {o1}
  MaxSignals = 2
INVARIANTS NoClientAfterCloseAll StopClean
PROPERTY SignalEnds
CHECK_DEADLOCK FALSE
