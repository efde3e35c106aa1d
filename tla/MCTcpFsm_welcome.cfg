SPECIFICATION Spec
CONSTANTS
  Writes <- Welcome
  MaxWritten = 6
INVARIANT WelcomeAccepted
\* RunClient returns: the process really stops.
CHECK_DEADLOCK FALSE
