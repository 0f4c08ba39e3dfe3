SPECIFICATION NodeSpec
CONSTANTS
  N = 3
  MaxLoss = 1
  MaxExpire = 1
INVARIANT OwnNode
PROPERTIES Relisted Unlisted
CHECK_DEADLOCK FALSE
