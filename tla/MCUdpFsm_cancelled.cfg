SPECIFICATION FairSpec
CONSTANTS
  HalfRange = 2
  Ports <- MCPorts
  DefaultPort = "listener"
  NumberOfRetransmits = 1
  ServerMsgs <- ReplyMsgs
PROPERTY CancelledExitsAlways
\* RunClient returns: the process really stops.
CHECK_DEADLOCK FALSE
