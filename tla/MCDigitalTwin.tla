--------------------------- MODULE MCDigitalTwin ----------------------------
(***************************************************************************)
(* DigitalTwin with readings on both sides of every threshold:             *)
(* rpm 4 rounds to 0 kph and 5 to 1; 1000 and 1001 enclose the driving     *)
(* threshold; 1408 gives 161 kph; 5501 passes the extreme rpm; lux 840 and *)
(* 841, 859 and 860 enclose the two headlamp thresholds; 100 is the        *)
(* reading the twin starts with.                                           *)
(***************************************************************************)
EXTENDS DigitalTwin

MCRpm == {0, 4, 5, 1000, 1001, 1407, 1408, 5501}
MCLux == {100, 840, 841, 859, 860}
=============================================================================
