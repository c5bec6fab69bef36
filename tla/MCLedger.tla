------------------------------ MODULE MCLedger ------------------------------
(***************************************************************************)
(* Ledger with events that lead from Off through startup to driving in the *)
(* dark and back; the stale copy is that of a started assembly.            *)
(***************************************************************************)
EXTENDS Ledger

MCRpm   == {0, 1001}
MCLux   == {100, 900}
MCKind  == {"PowerOn", "PowerOff", "UpdateRpm", "UpdateAmbientLux", "FrontHeadlampOnAck",
            "AssemblyZoneReady"}
MCStale == {"Ready"}

\* The started car: its first three rows are printed, it stands in the dark.
StartedTwin == [InitialTwin EXCEPT !.mode = "Idle", !.headlamp = "Ready", !.wiper = "Ready"]
StartedRow  == Numbered(Hop("PreparingToStart", StartedTwin, "TimerTick"), 3)

StartedInit ==
    /\ twin = StartedTwin
    /\ commit = NoCommit
    /\ nextRecordSeq = 4
    /\ turns = 0
    /\ sink = << >>
    /\ reading = TRUE
    /\ printed = StartedRow
    /\ snapshot = NoSnapshot
    /\ dropped = {}
    /\ shown = "Idle"

BornOrStartedSpec == (Init \/ StartedInit) /\ [][Next]_vars
=============================================================================
