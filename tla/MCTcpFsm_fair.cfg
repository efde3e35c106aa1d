SPECIFICATION FairSpec
CONSTANTS
  Writes <- MCWrites
  MaxWritten = 5
INVARIANT TypeOK
INVARIANT NothingLost
INVARIANT WholeLines
INVARIANT TrafficAfterShownOk
PROPERTY ImplementsAFsm
PROPERTY CancelledExits
PROPERTY ExceptionEnds
\* RunClient returns: the process really stops.
CHECK_DEADLOCK FALSE
