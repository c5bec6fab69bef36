-------------------------- MODULE MCLampRoundTrip ---------------------------
(***************************************************************************)
(* LampRoundTrip with a reading on either side of the deadband, and wire   *)
(* ids wide enough for every command of the instance.                      *)
(***************************************************************************)
EXTENDS LampRoundTrip

MCLux == {100, 900}

\* The car has been started and nothing is under way: where RoundTripSpec gets
\* to by PowerOn alone, when the twinlet answers.
StartedInit ==
    /\ Init
    /\ phase = "Running" /\ backlog = << >> /\ zoneBox = << >>
    /\ nextTurn = 2 /\ retells = 0 /\ ctx = "Ready"
    /\ about = << >> /\ done = Nothing /\ heard = Nothing /\ undisturbed = TRUE

StartedSpec == StartedInit /\ [][RoundTripNext]_allVars

\* RoundTripSpec where no event comes while assemblies start or stop.  With
\* MaxOpen = 1 none comes while a turn is open either.
PatientNext == RoundTripNext /\ (phase \in {"Starting", "Stopping"} => nextTurn' = nextTurn)
PatientSpec == RoundTripInit /\ [][PatientNext]_allVars
=============================================================================
