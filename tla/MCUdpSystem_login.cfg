SPECIFICATION SysSpec
CONSTANTS
  HalfRange = 2
  Ports <- MCPorts
  DefaultPort = "listener"
  NumberOfRetransmits = 0
  ServerMsgs <- MCServerMsgs
  HandlerPorts <- OnePort
  RandomIds <- MCRandomIds
  AskedTests <- Malformed
  MaxTyped = 2
INVARIANT AdmittedFirst
\* RunClient returns: the process really stops.
CHECK_DEADLOCK FALSE
