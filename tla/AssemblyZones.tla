---------------------------- MODULE AssemblyZones ---------------------------
(***************************************************************************)
(* The two assembly zones (L1) as pure handlers: a zone state and a        *)
(* message give a zone reply, that is the next zone state and the requests *)
(* it raises.  The twinlets run these handlers, and the brain runs them    *)
(* itself on its own copy when a turn comes with no reply.                 *)
(*                                                                         *)
(* ack_pending_since is set exactly in OnRequested and OffRequested, so    *)
(* the lamp state stands for the whole HeadlampContext; whether the wait   *)
(* it began has run out is part of the message (TimerTick).  Warnings are  *)
(* log text and are left out of the outcomes.                              *)
(***************************************************************************)
EXTENDS VehiclePhysics, Sequences

Assembly      == {"Headlamp", "Wiper"}
Direction     == {"On", "Off"}
HeadlampState == {"Off", "Ready", "OnRequested", "On", "OffRequested"}
WiperState    == {"Off", "Ready", "Running"}

HeadlampOutcome == {"RequestOn", "RequestOff"}
WiperOutcome    == {"StartWiping", "StopWiping"}

\* HeadlampMessage and WiperMessage, for readings of lux in Lux.
\* ResetForIgnitionOff is sent by nothing in the program.
HeadlampMessage(Lux) ==
    [kind : {"BecomeOn", "BecomeOff", "AckOn", "AckOff"}]
       \cup [kind : {"AmbientLux"}, lux : Lux]
       \cup [kind : {"ActuationIncomplete"}, direction : Direction]
       \cup [kind : {"TimerTick"}, ackOverdue : BOOLEAN]
WiperMessage == [kind : {"BecomeOn", "BecomeOff", "Start", "Stop"}]

\* No handler raises more than one outcome.
AtMostOne(S) == {<< >>} \cup {<<o>> : o \in S}

\* ZoneReply; NoReply is the absence of one in ZoneReplies.
HeadlampReply == [zone : {"Headlamp"}, ctx : HeadlampState, outcomes : AtMostOne(HeadlampOutcome)]
WiperReply    == [zone : {"Wiper"}, ctx : WiperState, outcomes : AtMostOne(WiperOutcome)]
ZoneReply     == HeadlampReply \cup WiperReply
NoReply       == [zone |-> "None"]

LampReply(lamp, outcomes)   == [zone |-> "Headlamp", ctx |-> lamp, outcomes |-> outcomes]
WiperReplyOf(wip, outcomes) == [zone |-> "Wiper", ctx |-> wip, outcomes |-> outcomes]

-----------------------------------------------------------------------------
(* The headlamp.                                                           *)

\* The request in flight in a lamp state, if any.
InFlight(lamp) == CASE lamp = "OnRequested"  -> "On"
                    [] lamp = "OffRequested" -> "Off"
                    [] OTHER                 -> "None"

\* evaluate_lux: only a settled lamp reacts, outside the deadband
EvaluateLux(lamp, lux) ==
    CASE lamp = "Ready" /\ lux <= LUX_ON_THRESHOLD ->
            LampReply("OnRequested", <<"RequestOn">>)
      [] lamp = "On" /\ lux >= LUX_OFF_THRESHOLD ->
            LampReply("OffRequested", <<"RequestOff">>)
      [] OTHER -> LampReply(lamp, << >>)

\* recover_incomplete: a failed ON leaves the lamp dark but started, a failed
\* OFF leaves it lit.  It must be the request in flight.
RecoverIncomplete(lamp, direction) ==
    IF InFlight(lamp) # direction THEN LampReply(lamp, << >>)
    ELSE LampReply(IF direction = "On" THEN "Ready" ELSE "On", << >>)

\* HeadlampContext::on_receiving_message
HeadlampOnMessage(lamp, m) ==
    CASE m.kind = "BecomeOn"            -> LampReply("Ready", << >>)
      [] m.kind = "BecomeOff"           -> LampReply("Off", << >>)
      [] m.kind = "AckOn"               -> LampReply("On", << >>)
      [] m.kind = "AckOff"              -> LampReply("Ready", << >>)
      [] m.kind = "AmbientLux"          -> EvaluateLux(lamp, m.lux)
      [] m.kind = "ActuationIncomplete" -> RecoverIncomplete(lamp, m.direction)
      [] m.kind = "TimerTick" ->
            IF m.ackOverdue /\ InFlight(lamp) # "None"
            THEN RecoverIncomplete(lamp, InFlight(lamp))
            ELSE LampReply(lamp, << >>)

-----------------------------------------------------------------------------
(* The wiper: Start and Stop only act on a started wiper.                  *)

\* WiperContext::on_receiving_message
WiperOnMessage(wip, m) ==
    CASE m.kind = "BecomeOn"                    -> WiperReplyOf(IF wip = "Off" THEN "Ready" ELSE wip, << >>)
      [] m.kind = "BecomeOff"                   -> WiperReplyOf("Off", << >>)
      [] m.kind = "Start" /\ wip = "Ready"      -> WiperReplyOf("Running", <<"StartWiping">>)
      [] m.kind = "Stop" /\ wip = "Running"     -> WiperReplyOf("Ready", <<"StopWiping">>)
      [] OTHER                                  -> WiperReplyOf(wip, << >>)

-----------------------------------------------------------------------------
\* The handler of zone z.
OnReceivingMessage(z, ctx, m) ==
    IF z = "Headlamp" THEN HeadlampOnMessage(ctx, m) ELSE WiperOnMessage(ctx, m)

\* synthetic_unresponsive_*_reply: the zone state is kept as it is
Unresponsive(z, ctx) == [zone |-> z, ctx |-> ctx, outcomes |-> << >>]
=============================================================================
