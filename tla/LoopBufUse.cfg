SPECIFICATION UseSpec
CONSTANTS
  Align = 4
  Header = 2
  MaxWrite = 7
  MaxFrames = 3
  RecvExtend = 4
  Modulus = 32
INVARIANT FifoOrder
PROPERTY LossOnlyAtBlockEnd
