SPECIFICATION Spec
CONSTANTS
  Timeout = 3
  Poll = 1
  NumberOfRetransmits = 2
  MaxTime = 12
INVARIANT LastTransmissionWaits
\* The task returns or throws and the clock stops.
CHECK_DEADLOCK FALSE
