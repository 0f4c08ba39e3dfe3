SPECIFICATION Spec
CONSTANTS
  c1 = c1  c2 = c2  c3 = c3  u1 = u1  u2 = u2
  None = None  Foreign = Foreign
  Conns = {c1, c2, c3}
  Users = {u1, u2}
  Types <- MCTypes
  Ports = {"cli", "srv"}
  Accepts <- MCAccepts
  StartIdx <- MCStartIdx
  ThreadCnt <- MCThreadCnt
  Loops = {0, 1}
  Mask = 2
  MaxId = 10
  MaxQueue = 2
SYMMETRY Symmetry
INVARIANTS MapSound ServicesSound CacheSound RoutedOrReused
CHECK_DEADLOCK FALSE
