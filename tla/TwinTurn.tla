------------------------------ MODULE TwinTurn ------------------------------
(***************************************************************************)
(* One committed turn of the twin (L4): the event goes to the zones, which *)
(* adopt the twinlet's reply or run their handler on the brain's own copy, *)
(* then to the state machine; and the detector may add an internal hop.    *)
(***************************************************************************)
EXTENDS OperationalFsm

\* A tell for zone z, or none.
Tell(z, m) == [zone |-> z, message |-> m]
NoTell     == [zone |-> "None"]

\* user_event_to_zone_tell
UserEventToZoneTell(e) ==
    CASE e.kind = "UpdateAmbientLux"    -> Tell("Headlamp", [kind |-> "AmbientLux", lux |-> e.lux])
      [] e.kind = "FrontHeadlampOnAck"  -> Tell("Headlamp", [kind |-> "AckOn"])
      [] e.kind = "FrontHeadlampOffAck" -> Tell("Headlamp", [kind |-> "AckOff"])
      [] e.kind = "FrontHeadlampActuationIncomplete" ->
            Tell("Headlamp", [kind |-> "ActuationIncomplete", direction |-> e.direction])
      [] e.kind = "RainsStarted" -> Tell("Wiper", [kind |-> "Start"])
      [] e.kind = "RainsStopped" -> Tell("Wiper", [kind |-> "Stop"])
      [] OTHER -> NoTell

\* zone_message_for_event: nothing is told while assemblies start or stop
ZoneMessageForEvent(e, t) ==
    IF t.mode \in Preparing THEN NoTell ELSE UserEventToZoneTell(e)

-----------------------------------------------------------------------------
(* zone_turn                                                               *)

ZoneCtx(t, z) == IF z = "Headlamp" THEN t.headlamp ELSE t.wiper

\* The reply zone z contributes: the twinlet's, else the brain's own handling.
\* It is always computed from the context before the event.
Merged(t, z, m, reply) ==
    IF reply.zone = z THEN reply ELSE OnReceivingMessage(z, ZoneCtx(t, z), m)

Adopt(t, r) ==
    IF r.zone = "Headlamp" THEN [t EXCEPT !.headlamp = r.ctx] ELSE [t EXCEPT !.wiper = r.ctx]

\* The readings an event carries.  In Off the speed is held at standstill.
TakeReading(t, e) ==
    CASE e.kind = "UpdateRpm" ->
            [t EXCEPT !.rpm = e.rpm, !.speed = IF t.mode = "Off" THEN 0 ELSE SpeedFromRpm(e.rpm)]
      [] e.kind = "UpdateAmbientLux" -> [t EXCEPT !.lux = e.lux]
      [] OTHER -> t

\* The reply the event brings about in its zone, or NoReply: TimerTick reaches
\* the brain's headlamp only, and a lifecycle event only adopts.
ZoneEffect(t, e, reply) ==
    CASE e.kind = "TimerTick" ->
            Merged(t, "Headlamp", [kind |-> "TimerTick", ackOverdue |-> e.ackOverdue], reply)
      [] e.kind = "AssemblyZoneReady" ->
            IF reply.zone = e.assembly THEN reply ELSE NoReply
      [] e.kind \notin {"TimerTick", "AssemblyZoneReady"} ->
            LET tell == UserEventToZoneTell(e)
            IN  IF tell = NoTell THEN NoReply ELSE Merged(t, tell.zone, tell.message, reply)

ZoneTurn(t, e, reply) ==
    LET r == ZoneEffect(t, e, reply)
    IN  IF r = NoReply THEN [twin |-> TakeReading(t, e), outcomes |-> << >>]
        ELSE [twin |-> Adopt(TakeReading(t, e), r), outcomes |-> r.outcomes]

-----------------------------------------------------------------------------
(* step and run_to_quiescence                                              *)

\* step: the state machine alone; its output is "None" when there is none
Step(t, e) ==
    LET next == Transition(t, e)
    IN  [twin   |-> [t EXCEPT !.mode = next.mode, !.remaining = next.remaining],
         output |-> Output(t.mode, next.mode)]

\* apply_external_hop: the outcomes of the zones come before the output
ExternalHop(t, e, reply) == Step(ZoneTurn(t, e, reply).twin, e)

\* Mutant: the detector is not consulted after the external hop.
TurnWithoutDetector(t, e, reply) ==
    LET hop == ExternalHop(t, e, reply)
    IN  [twin     |-> hop.twin,
         outcomes |-> ZoneTurn(t, e, reply).outcomes,
         outputs  |-> <<hop.output, "None">>]

\* commit_resolved_turn = run_to_quiescence.  The internal hop leaves Driving,
\* so the detector finds nothing more and MAX_QUIESCENCE_HOPS is out of reach.
Turn(t, e, reply) ==
    LET hop   == ExternalHop(t, e, reply)
        inner == Step(hop.twin, LightingUnsafeEvent)
    IN  IF LightingUnsafe(hop.twin)
        THEN [twin     |-> inner.twin,
              outcomes |-> ZoneTurn(t, e, reply).outcomes,
              outputs  |-> <<hop.output, inner.output>>]
        ELSE [twin     |-> hop.twin,
              outcomes |-> ZoneTurn(t, e, reply).outcomes,
              outputs  |-> <<hop.output, "None">>]

\* What an output of the turn does to the buzzer (StartBuzzer, StopBuzzer).
BuzzerAfter(output, sounding) ==
    CASE output = "StartBuzzer" -> TRUE
      [] output = "StopBuzzer"  -> FALSE
      [] OTHER                  -> sounding

\* and all the outputs of a turn, in their order
BuzzerAfterTurn(turn, sounding) ==
    BuzzerAfter(turn.outputs[2], BuzzerAfter(turn.outputs[1], sounding))

\* DigitalTwinCar::new: Off, with every context at its default
InitialTwin == [mode |-> "Off", remaining |-> {}, rpm |-> 0, speed |-> 0, lux |-> 100,
                headlamp |-> "Off", wiper |-> "Off"]
=============================================================================
