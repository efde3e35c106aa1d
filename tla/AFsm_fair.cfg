SPECIFICATION FsmFairSpec
INVARIANT FsmTypeOK
INVARIANT AuthFirst
PROPERTY LegalMoves
PROPERTY CancelledExits
\* RunClient returns: the process really stops.
CHECK_DEADLOCK FALSE
