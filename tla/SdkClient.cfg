SPECIFICATION FairSpec
CONSTANT MaxCalls = 3
INVARIANTS LeakOnlyByStaleDel StatusTimed
PROPERTIES LateLoginEnds StopEnds ServedUnlessSwallowed
CHECK_DEADLOCK FALSE
