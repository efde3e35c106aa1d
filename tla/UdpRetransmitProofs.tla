------------------------- MODULE UdpRetransmitProofs -------------------------
(***************************************************************************)
(* How long a request is given before the client gives it up, for any      *)
(* options -d and -r and any instants at which the task runs.              *)
(***************************************************************************)
EXTENDS UdpRetransmit, TLAPS

\* Every repetition was made Timeout after the transmission before it, and the
\* verdict is only reached when the repetitions are used up or not needed.
Clock ==
    /\ now \in Nat /\ lastLogTime \in Nat /\ numberOfTransmits \in Nat
    /\ IsMsgSent \in BOOLEAN
    /\ numberOfTransmits * Timeout <= lastLogTime
    /\ at \in {"verdict", "timedOut"} /\ IsMsgSent
         => numberOfTransmits >= NumberOfRetransmits
    /\ at = "timedOut" => numberOfTransmits >= NumberOfRetransmits

LEMMA OneMore ==
    ASSUME NEW n \in Nat, NEW t \in Nat
    PROVE  (n + 1) * t = n * t + t
  OBVIOUS

LEMMA ClockStep ==
    ASSUME Timeout \in Nat, NumberOfRetransmits \in Nat, Clock, [Next]_vars
    PROVE  Clock'
  <1>1. CASE Iterate
    <2>1. CASE now - lastLogTime >= Timeout
      <3> DEFINE k == numberOfTransmits * Timeout
      <3>1. k \in Nat /\ k <= lastLogTime
        BY DEF Clock
      <3>2. numberOfTransmits' = numberOfTransmits + 1 /\ lastLogTime' = now
        BY <1>1, <2>1 DEF Iterate
      <3>3. numberOfTransmits' * Timeout = k + Timeout
        BY <3>2, OneMore DEF Clock
      <3> HIDE DEF k
      <3>4. numberOfTransmits' * Timeout <= lastLogTime'
        BY <2>1, <3>1, <3>2, <3>3 DEF Clock
      <3> QED
        BY <1>1, <3>2, <3>4 DEF Iterate, Clock
    <2>2. CASE ~(now - lastLogTime >= Timeout)
      BY <1>1, <2>2 DEF Iterate, Clock
    <2> QED
      BY <2>1, <2>2
  <1>2. CASE LeaveLoop
    <2>1. /\ UNCHANGED <<now, lastLogTime, numberOfTransmits, IsMsgSent>>
          /\ at' = "verdict"
          /\ ~(IsMsgSent /\ numberOfTransmits < NumberOfRetransmits)
      BY <1>2 DEF LeaveLoop, MayLoop
    <2>2. IsMsgSent => numberOfTransmits >= NumberOfRetransmits
      BY <2>1 DEF Clock
    <2> QED
      BY <2>1, <2>2 DEF Clock
  <1>3. CASE Verdict
    BY <1>3 DEF Verdict, Clock
  <1>4. CASE DelayEnds
    <2>1. /\ UNCHANGED <<now, IsMsgSent, lastLogTime, numberOfTransmits>>
          /\ at' = "loop"
      BY <1>4 DEF DelayEnds
    <2> QED
      BY <2>1 DEF Clock
  <1>5. CASE Confirmed
    <2>1. UNCHANGED <<now, lastLogTime, numberOfTransmits, at>> /\ IsMsgSent' = FALSE
      BY <1>5 DEF Confirmed
    <2> QED
      BY <2>1 DEF Clock
  <1>6. CASE Tick
    <2>1. /\ UNCHANGED <<IsMsgSent, lastLogTime, numberOfTransmits, at>>
          /\ now' = now + 1
      BY <1>6 DEF Tick
    <2> QED
      BY <2>1 DEF Clock
  <1>7. CASE UNCHANGED vars
    BY <1>7 DEF vars, Clock
  <1> QED
    BY <1>1, <1>2, <1>3, <1>4, <1>5, <1>6, <1>7 DEF Next

\* Whatever the options, a request is only given up when it was repeated
\* NumberOfRetransmits times, the last time NumberOfRetransmits times Timeout or
\* more after it was first transmitted.
THEOREM GivenUpNotBefore ==
    ASSUME Timeout \in Nat, NumberOfRetransmits \in Nat
    PROVE  Spec => []GivenUpLate
  <1>1. Init => Clock
    BY DEF Init, Clock
  <1>2. Clock => GivenUpLate
    BY DEF Clock, GivenUpLate
  <1>3. Clock /\ [Next]_vars => Clock'
    BY ClockStep
  <1> QED
    BY <1>1, <1>2, <1>3, PTL DEF Spec
=============================================================================
