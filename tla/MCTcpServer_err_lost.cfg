SPECIFICATION ServerSpec
CONSTANTS
  ClientLines <- EveryLine
  MaxLines = 2
  InOrder = TRUE
INVARIANT ErrSentBeforeClose
\* The handler returns: nothing is left to do.
CHECK_DEADLOCK FALSE
