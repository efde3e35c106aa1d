SPECIFICATION SysFairSpec
CONSTANTS
  Writes <- MCWrites
  MaxWritten = 18
  ClientLines <- Chat
  MaxTyped = 2
  InOrder = TRUE
INVARIANT TrafficIsGranted
INVARIANT RestAgrees
\* RunClient returns: the process really stops.
CHECK_DEADLOCK FALSE
PROPERTY ErrEndsSession
PROPERTY ExitCloses
