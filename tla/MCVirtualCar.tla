---------------------------- MODULE MCVirtualCar ----------------------------
(***************************************************************************)
(* VirtualCar on small sets of readings and of senders.  Lux 100 is dark   *)
(* and 900 is bright; rpm 900 moves the car below the driving threshold    *)
(* and 1001 is just above it.                                              *)
(***************************************************************************)
EXTENDS VirtualCar

MCRpm == {0, 900, 1001}
MCLux == {100, 900}

RpmEvent(r) == [kind |-> "UpdateRpm", rpm |-> r]
LuxEvent(l) == [kind |-> "UpdateAmbientLux", lux |-> l]
Plain(kind) == [kind |-> kind]

\* The lamp's telemetry and acknowledgements, with the driver.
LampIngress == {LuxEvent(100), RpmEvent(1001), Plain("FrontHeadlampOnAck"), Plain("PowerOff")}
\* A drive in the dark with the lamp's answers and the brain's clock.
NightIngress == {RpmEvent(1001), LuxEvent(100), LuxEvent(900), Plain("FrontHeadlampOnAck"),
                 [kind |-> "TimerTick", ackOverdue |-> TRUE, warningAged |-> TRUE]}
\* The rain sensor.
RainIngress == {Plain("RainsStarted"), Plain("RainsStopped")}
=============================================================================
