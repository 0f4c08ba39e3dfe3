SPECIFICATION ConFairSpec
CONSTANTS
  Align = 4
  Header = 1
  MaxMsg = 5
  MaxBytes = 16
  SndBuf = 3
  StaleErrno = {"EAGAIN", "EINTR", "other"}
  MaxReads = 1
INVARIANTS StreamIntact PendingWatched
PROPERTIES CloseComplete ClosesUnlessStalled
CHECK_DEADLOCK FALSE
