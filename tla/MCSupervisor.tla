---------------------------- MODULE MCSupervisor ----------------------------
(* Values for the constants of Supervisor that a .cfg cannot write.        *)
EXTENDS SupervisorDelivery

All   == 1 .. MaxSeq
Early == 1 .. MaxSeq - 1
Odd   == {s \in 1 .. MaxSeq : s % 2 = 1}

LiveStart  == Live
DateStart  == FromDate
NoEndPoint == NoEnd
DateEnd    == UntilDate
AnyNumber  == Unlimited
=============================================================================
