SPECIFICATION FairSpec
CONSTANTS
  HalfRange = 2
  Ports <- OnePort
  DefaultPort = "dynamic"
  NumberOfRetransmits = 1
  ServerMsgs <- OtherMsgs
INVARIANT TypeOK
INVARIANT ConfirmedBeforeActed
INVARIANT ShownBeforeActed
INVARIANT TrafficAfterShownOk
INVARIANT NamedBeforeReceive
PROPERTY ImplementsAFsm
PROPERTY SendSettles
PROPERTY ErrEndsClient
PROPERTY CancelledExitsOnceSent
\* RunClient returns: the process really stops.
CHECK_DEADLOCK FALSE
