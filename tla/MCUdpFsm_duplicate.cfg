SPECIFICATION Spec
CONSTANTS
  HalfRange = 2
  Ports <- OnePort
  DefaultPort = "dynamic"
  NumberOfRetransmits = 0
  ServerMsgs <- ReplyMsgs
INVARIANT SecondReplyIgnored
\* RunClient returns: the process really stops.
CHECK_DEADLOCK FALSE
