SPECIFICATION ServerSpec
CONSTANTS
  HalfRange = 2
  ListenPort = "listener"
  HandlerPorts <- OnePort
  RandomIds <- MCRandomIds
  ClientMsgs <- EveryRequest
  MaxSent = 2
INVARIANT TriggerConfirmed
\* The server is stopped: nothing is left to do.
CHECK_DEADLOCK FALSE
