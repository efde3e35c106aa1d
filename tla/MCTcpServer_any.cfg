SPECIFICATION ServerFairSpec
CONSTANTS
  ClientLines <- EveryLine
  MaxLines = 3
  InOrder = FALSE
INVARIANT ServerTypeOK
INVARIANT BatchFinished
INVARIANT GrantAgrees
INVARIANT ErrStartedLast
PROPERTY ClientGoneCloses
\* The handler returns: nothing is left to do.
CHECK_DEADLOCK FALSE
