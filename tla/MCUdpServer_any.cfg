SPECIFICATION ServerFairSpec
CONSTANTS
  HalfRange = 2
  ListenPort = "listener"
  HandlerPorts <- OnePort
  RandomIds <- MCRandomIds
  ClientMsgs <- EveryRequest
  MaxSent = 4
INVARIANT ServerTypeOK
INVARIANT GrantFirst
INVARIANT ConfirmedAtRest
INVARIANT CountedIdsUnique
PROPERTY HandlerEnds
\* The server is stopped: nothing is left to do.
CHECK_DEADLOCK FALSE
