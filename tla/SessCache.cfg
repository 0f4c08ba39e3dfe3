SPECIFICATION Spec
CONSTANTS
  Size = 2
  Nodes <- MCNodes
  Starts <- MCStarts
  Expire = 2
  MaxLag = 1
  MaxMoves = 1
INVARIANTS KeptWhileOnTime LeftOnlyByFailure
PROPERTY GhostEnds
