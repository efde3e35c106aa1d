--------------------------- MODULE UdpRetransmit ---------------------------
(***************************************************************************)
(* The clock of UdpFsm.RetransmitTasks, for one request.  UdpFsm leaves it *)
(* out: there, Retransmit and LeaveLoop may happen at any time.            *)
(***************************************************************************)
EXTENDS Integers

CONSTANTS
    Timeout,               \* option -d, in ticks
    Poll,                  \* Task.Delay(10)
    NumberOfRetransmits,   \* option -r
    MaxTime                \* bound: when the clock stops

VARIABLES
    now,                \* DateTime.UtcNow
    IsMsgSent,          \* the request waits for its CONFIRM
    lastLogTime,        \* when it was transmitted last
    numberOfTransmits,  \* how many transmissions were repetitions
    wake,               \* when Task.Delay ends
    at                  \* where the task is

vars == <<now, IsMsgSent, lastLogTime, numberOfTransmits, wake, at>>

\* SnedMessage has transmitted the request and raised the flag.
Init ==
    /\ now = 0
    /\ IsMsgSent = TRUE
    /\ lastLogTime = 0
    /\ numberOfTransmits = 0
    /\ wake = 0
    /\ at = "loop"

MayLoop == IsMsgSent /\ numberOfTransmits < NumberOfRetransmits

\* One iteration, up to Task.Delay.
Iterate ==
    /\ at = "loop" /\ MayLoop
    /\ IF now - lastLogTime >= Timeout
       THEN /\ lastLogTime' = now
            /\ numberOfTransmits' = numberOfTransmits + 1
       ELSE UNCHANGED <<lastLogTime, numberOfTransmits>>
    /\ wake' = now + Poll
    /\ at' = "delay"
    /\ UNCHANGED <<now, IsMsgSent>>

DelayEnds ==
    /\ at = "delay" /\ now >= wake
    /\ at' = "loop"
    /\ UNCHANGED <<now, IsMsgSent, lastLogTime, numberOfTransmits, wake>>

LeaveLoop ==
    /\ at = "loop" /\ ~MayLoop
    /\ at' = "verdict"
    /\ UNCHANGED <<now, IsMsgSent, lastLogTime, numberOfTransmits, wake>>

\* IsMsgSent is read again.
Verdict ==
    /\ at = "verdict"
    /\ at' = IF IsMsgSent THEN "timedOut" ELSE "returned"
    /\ UNCHANGED <<now, IsMsgSent, lastLogTime, numberOfTransmits, wake>>

\* The server task receives a CONFIRM.
Confirmed ==
    /\ IsMsgSent
    /\ IsMsgSent' = FALSE
    /\ UNCHANGED <<now, lastLogTime, numberOfTransmits, wake, at>>

Tick ==
    /\ now < MaxTime
    /\ now' = now + 1
    /\ UNCHANGED <<IsMsgSent, lastLogTime, numberOfTransmits, wake, at>>

Next == Iterate \/ DelayEnds \/ LeaveLoop \/ Verdict \/ Confirmed \/ Tick

Spec == Init /\ [][Next]_vars

-----------------------------------------------------------------------------
(* Properties. *)

\* A request is transmitted NumberOfRetransmits times again before it is given up,
\* and each repetition comes no sooner than Timeout after the transmission before
\* it: the server has had NumberOfRetransmits times Timeout to answer.
GivenUpLate ==
    at = "timedOut" =>
        /\ numberOfTransmits >= NumberOfRetransmits
        /\ lastLogTime >= numberOfTransmits * Timeout

\* "Server has timed out": when the request is given up, its last transmission was
\* Timeout ago.
LastTransmissionWaits == at = "timedOut" => now - lastLogTime >= Timeout
=============================================================================
