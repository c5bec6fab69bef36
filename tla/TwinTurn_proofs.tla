-------------------------- MODULE TwinTurn_proofs ---------------------------
(***************************************************************************)
(* Lemmas about one turn of the twin, for all sets of readings: the zones  *)
(* answer with replies of their own, and zone_turn, transition and the     *)
(* internal hop keep the twin well typed.                                  *)
(***************************************************************************)
EXTENDS TwinTurn, TLAPS

\* The countdown of a twin is there exactly in the Preparing states.
Shaped(t) == (t.remaining # {}) = (t.mode \in Preparing)

-----------------------------------------------------------------------------
(* The zones.                                                              *)

\* A headlamp handler answers with a state of the lamp.
LEMMA HeadlampAnswer ==
    ASSUME NEW Lux, NEW lamp \in HeadlampState, NEW m \in HeadlampMessage(Lux)
    PROVE  HeadlampOnMessage(lamp, m) \in HeadlampReply
<1>1. \A o \in HeadlampOutcome : <<o>> \in AtMostOne(HeadlampOutcome)
  BY DEF AtMostOne
<1>2. << >> \in AtMostOne(HeadlampOutcome)
  BY DEF AtMostOne
<1>3. \A l \in HeadlampState : LampReply(l, << >>) \in HeadlampReply
  BY <1>2 DEF LampReply, HeadlampReply
<1>4. LampReply("OnRequested", <<"RequestOn">>) \in HeadlampReply
  BY <1>1 DEF LampReply, HeadlampReply, HeadlampState, HeadlampOutcome
<1>5. LampReply("OffRequested", <<"RequestOff">>) \in HeadlampReply
  BY <1>1 DEF LampReply, HeadlampReply, HeadlampState, HeadlampOutcome
<1>6. \A d : RecoverIncomplete(lamp, d) \in HeadlampReply
  BY <1>3 DEF RecoverIncomplete, HeadlampState
<1>7. \A lux : EvaluateLux(lamp, lux) \in HeadlampReply
  BY <1>3, <1>4, <1>5 DEF EvaluateLux
<1> QED
  BY <1>3, <1>6, <1>7 DEF HeadlampOnMessage, HeadlampMessage, HeadlampState

\* A wiper handler answers with a state of the wiper.
LEMMA WiperAnswer ==
    ASSUME NEW wip \in WiperState, NEW m \in WiperMessage
    PROVE  WiperOnMessage(wip, m) \in WiperReply
<1>1. \A o \in WiperOutcome : <<o>> \in AtMostOne(WiperOutcome)
  BY DEF AtMostOne
<1>2. << >> \in AtMostOne(WiperOutcome)
  BY DEF AtMostOne
<1>3. \A w \in WiperState : WiperReplyOf(w, << >>) \in WiperReply
  BY <1>2 DEF WiperReplyOf, WiperReply
<1>4. WiperReplyOf("Running", <<"StartWiping">>) \in WiperReply
  BY <1>1 DEF WiperReplyOf, WiperReply, WiperState, WiperOutcome
<1>5. WiperReplyOf("Ready", <<"StopWiping">>) \in WiperReply
  BY <1>1 DEF WiperReplyOf, WiperReply, WiperState, WiperOutcome
<1> QED
  BY <1>3, <1>4, <1>5 DEF WiperOnMessage, WiperMessage, WiperState

\* A user event's tell is for a zone and carries a message of that zone.
LEMMA TellType ==
    ASSUME NEW Rpm, NEW Lux, NEW e \in EventOver(Rpm, Lux), UserEventToZoneTell(e) # NoTell
    PROVE  \/ /\ UserEventToZoneTell(e).zone = "Headlamp"
              /\ UserEventToZoneTell(e).message \in HeadlampMessage(Lux)
           \/ /\ UserEventToZoneTell(e).zone = "Wiper"
              /\ UserEventToZoneTell(e).message \in WiperMessage
  BY DEF UserEventToZoneTell, NoTell, Tell, EventOver, HeadlampMessage, WiperMessage, Direction

\* The effect of an event on the zones is a reply, and PowerOff has none.
LEMMA EffectType ==
    ASSUME NEW Rpm, NEW Lux, NEW t \in TwinOver(Rpm, Lux), NEW e \in EventOver(Rpm, Lux), NEW reply \in ZoneReply \cup {NoReply}
    PROVE  /\ ZoneEffect(t, e, reply) \in ZoneReply \cup {NoReply}
           /\ e.kind = "PowerOff" => ZoneEffect(t, e, reply) = NoReply
<1> USE DEF TwinOver
<1>1. CASE e.kind = "TimerTick"
  <2> DEFINE m == [kind |-> "TimerTick", ackOverdue |-> e.ackOverdue]
  <2>1. m \in HeadlampMessage(Lux)
    BY <1>1 DEF EventOver, HeadlampMessage
  <2>2. HeadlampOnMessage(t.headlamp, m) \in HeadlampReply
    BY <2>1, HeadlampAnswer
  <2> QED BY <1>1, <2>2 DEF ZoneEffect, Merged, OnReceivingMessage, ZoneCtx, ZoneReply
<1>2. CASE e.kind = "AssemblyZoneReady"
  BY <1>2 DEF ZoneEffect
<1>3. CASE e.kind \notin {"TimerTick", "AssemblyZoneReady"} /\ UserEventToZoneTell(e) = NoTell
  BY <1>3 DEF ZoneEffect
<1>4. CASE e.kind \notin {"TimerTick", "AssemblyZoneReady"} /\ UserEventToZoneTell(e) # NoTell
  <2> DEFINE tell == UserEventToZoneTell(e)
  <2>1. CASE tell.zone = "Headlamp" /\ tell.message \in HeadlampMessage(Lux)
    <3>1. HeadlampOnMessage(t.headlamp, tell.message) \in HeadlampReply
      BY <2>1, HeadlampAnswer
    <3> QED BY <1>4, <2>1, <3>1 DEF ZoneEffect, Merged, OnReceivingMessage, ZoneCtx, ZoneReply,
                                    UserEventToZoneTell
  <2>2. CASE tell.zone = "Wiper" /\ tell.message \in WiperMessage
    <3>1. WiperOnMessage(t.wiper, tell.message) \in WiperReply
      BY <2>2, WiperAnswer
    <3> QED BY <1>4, <2>2, <3>1 DEF ZoneEffect, Merged, OnReceivingMessage, ZoneCtx, ZoneReply,
                                    UserEventToZoneTell
  <2> QED BY <1>4, <2>1, <2>2, TellType
<1> QED BY <1>1, <1>2, <1>3, <1>4

\* What a zone answers from any state of its own is a reply of that zone.
LEMMA AnswerType ==
    ASSUME NEW Lux, NEW z \in Assembly, NEW m,
           z = "Headlamp" => m \in HeadlampMessage(Lux),
           z = "Wiper" => m \in WiperMessage,
           NEW c,
           z = "Headlamp" => c \in HeadlampState,
           z = "Wiper" => c \in WiperState
    PROVE  /\ OnReceivingMessage(z, c, m) \in {r \in ZoneReply : r.zone = z}
           /\ Unresponsive(z, c) \in {r \in ZoneReply : r.zone = z}
<1>1. CASE z = "Headlamp"
  <2>1. OnReceivingMessage(z, c, m) \in HeadlampReply
    BY <1>1, HeadlampAnswer DEF OnReceivingMessage
  <2>2. Unresponsive(z, c) \in HeadlampReply
    BY <1>1 DEF Unresponsive, HeadlampReply, AtMostOne
  <2> QED BY <1>1, <2>1, <2>2 DEF ZoneReply, HeadlampReply
<1>2. CASE z = "Wiper"
  <2>1. OnReceivingMessage(z, c, m) \in WiperReply
    BY <1>2, WiperAnswer DEF OnReceivingMessage
  <2>2. Unresponsive(z, c) \in WiperReply
    BY <1>2 DEF Unresponsive, WiperReply, AtMostOne
  <2> QED BY <1>2, <2>1, <2>2 DEF ZoneReply, WiperReply
<1> QED BY <1>1, <1>2 DEF Assembly

-----------------------------------------------------------------------------
(* One turn.                                                               *)

\* Readings leave mode and countdown alone, and keep the twin well typed.
LEMMA ReadingType ==
    ASSUME NEW Rpm, NEW Lux, NEW t \in TwinOver(Rpm, Lux), NEW e \in EventOver(Rpm, Lux)
    PROVE  /\ TakeReading(t, e) \in TwinOver(Rpm, Lux)
           /\ TakeReading(t, e).mode = t.mode
           /\ TakeReading(t, e).remaining = t.remaining
           /\ TakeReading(t, e).headlamp = t.headlamp
           /\ e.kind \notin {"UpdateRpm", "UpdateAmbientLux"} => TakeReading(t, e) = t
           /\ e.kind = "UpdateRpm" /\ t.mode # "Off"
                 => TakeReading(t, e).speed = SpeedFromRpm(e.rpm)
<1>1. CASE e.kind = "UpdateRpm"
  <2>1. e.rpm \in Rpm
    BY <1>1 DEF EventOver
  <2> DEFINE v == IF t.mode = "Off" THEN 0 ELSE SpeedFromRpm(e.rpm)
  <2>2. v \in {SpeedFromRpm(r) : r \in Rpm} \cup {0}
    BY <2>1
  <2>3. TakeReading(t, e) = [t EXCEPT !.rpm = e.rpm, !.speed = v]
    BY <1>1 DEF TakeReading
  <2> QED BY <1>1, <2>1, <2>2, <2>3 DEF TwinOver
<1>2. CASE e.kind = "UpdateAmbientLux"
  <2>1. e.lux \in Lux
    BY <1>2 DEF EventOver
  <2>2. TakeReading(t, e) = [t EXCEPT !.lux = e.lux]
    BY <1>2 DEF TakeReading
  <2> QED BY <1>2, <2>1, <2>2 DEF TwinOver
<1>3. CASE e.kind \notin {"UpdateRpm", "UpdateAmbientLux"}
  <2>1. TakeReading(t, e) = t
    BY <1>3 DEF TakeReading
  <2> QED BY <1>3, <2>1
<1> QED BY <1>1, <1>2, <1>3

\* zone_turn keeps the twin well typed, leaves mode, countdown and the readings
\* as TakeReading has them, and changes nothing on PowerOff.
LEMMA ZoneTurnType ==
    ASSUME NEW Rpm, NEW Lux, NEW t \in TwinOver(Rpm, Lux), NEW e \in EventOver(Rpm, Lux), NEW reply \in ZoneReply \cup {NoReply}
    PROVE  LET z == ZoneTurn(t, e, reply).twin
           IN  /\ z \in TwinOver(Rpm, Lux)
               /\ z.mode = t.mode
               /\ z.remaining = t.remaining
               /\ z.rpm = TakeReading(t, e).rpm
               /\ z.speed = TakeReading(t, e).speed
               /\ z.lux = TakeReading(t, e).lux
               /\ e.kind = "PowerOff" => z = t
<1> DEFINE r == ZoneEffect(t, e, reply)
           u == TakeReading(t, e)
           z == ZoneTurn(t, e, reply).twin
<1>1. /\ r \in ZoneReply \cup {NoReply}
      /\ e.kind = "PowerOff" => r = NoReply
  BY EffectType
<1>2. /\ u \in TwinOver(Rpm, Lux) /\ u.mode = t.mode /\ u.remaining = t.remaining
      /\ e.kind = "PowerOff" => u = t
  BY ReadingType
<1>3. CASE r = NoReply
  <2>1. z = u
    BY <1>3 DEF ZoneTurn
  <2> QED BY <1>2, <2>1
<1>4. CASE r # NoReply
  <2>1. z = Adopt(u, r)
    BY <1>4 DEF ZoneTurn
  <2>2. CASE r \in HeadlampReply
    <3>1. z = [u EXCEPT !.headlamp = r.ctx] /\ r.ctx \in HeadlampState
      BY <2>1, <2>2 DEF Adopt, HeadlampReply
    <3> QED BY <1>1, <1>2, <1>4, <3>1 DEF TwinOver
  <2>3. CASE r \in WiperReply
    <3>1. z = [u EXCEPT !.wiper = r.ctx] /\ r.ctx \in WiperState
      BY <2>1, <2>3 DEF Adopt, WiperReply
    <3> QED BY <1>1, <1>2, <1>4, <3>1 DEF TwinOver
  <2> QED BY <1>1, <1>4, <2>2, <2>3 DEF ZoneReply
<1> QED BY <1>3, <1>4

\* The table goes to a mode and a countdown.
LEMMA TransitionType ==
    ASSUME NEW Rpm, NEW Lux, NEW t \in TwinOver(Rpm, Lux), NEW e
    PROVE  Transition(t, e) \in [mode : Mode, remaining : SUBSET Assembly]
<1> USE DEF TwinOver, Mode, Assembly, To, Stay
<1>1. CASE t.mode = "Off"
  BY <1>1 DEF Transition, FromOff
<1>2. CASE t.mode = "PreparingToStart"
  BY <1>2 DEF Transition, CountDown
<1>3. CASE t.mode = "Idle"
  BY <1>3 DEF Transition, FromIdle
<1>4. CASE t.mode = "Driving"
  BY <1>4 DEF Transition, FromDriving
<1>5. CASE t.mode = "DrivingDangerously"
  BY <1>5 DEF Transition, FromDrivingDangerously
<1>6. CASE t.mode = "ExtremeOperationWarning"
  BY <1>6 DEF Transition, FromExtremeOperationWarning
<1>7. CASE t.mode = "PreparingToStop"
  BY <1>7 DEF Transition, CountDown
<1> QED BY <1>1, <1>2, <1>3, <1>4, <1>5, <1>6, <1>7

\* The countdown the table goes to has the right shape.
LEMMA TransitionShape ==
    ASSUME NEW Rpm, NEW Lux, NEW t \in TwinOver(Rpm, Lux), Shaped(t), NEW e
    PROVE  Shaped(Transition(t, e))
<1> USE DEF TwinOver, Shaped, Preparing, Mode, Assembly, To, Stay
<1>1. CASE t.mode = "Off"
  BY <1>1 DEF Transition, FromOff
<1>2. CASE t.mode = "PreparingToStart"
  BY <1>2 DEF Transition, CountDown
<1>3. CASE t.mode = "Idle"
  BY <1>3 DEF Transition, FromIdle
<1>4. CASE t.mode = "Driving"
  BY <1>4 DEF Transition, FromDriving
<1>5. CASE t.mode = "DrivingDangerously"
  BY <1>5 DEF Transition, FromDrivingDangerously
<1>6. CASE t.mode = "ExtremeOperationWarning"
  BY <1>6 DEF Transition, FromExtremeOperationWarning
<1>7. CASE t.mode = "PreparingToStop"
  BY <1>7 DEF Transition, CountDown
<1> QED BY <1>1, <1>2, <1>3, <1>4, <1>5, <1>6, <1>7

\* The detector's internal hop only raises the alarm.
LEMMA InternalHop ==
    ASSUME NEW Rpm, NEW Lux, NEW h \in TwinOver(Rpm, Lux), LightingUnsafe(h)
    PROVE  /\ Step(h, LightingUnsafeEvent).twin
                  = [h EXCEPT !.mode = "DrivingDangerously", !.remaining = {}]
           /\ Step(h, LightingUnsafeEvent).output = "StartBuzzer"
<1>1. h.mode = "Driving"
  BY DEF LightingUnsafe
<1>2. Transition(h, LightingUnsafeEvent) = To("DrivingDangerously")
  BY <1>1 DEF Transition, FromDriving, LightingUnsafeEvent
<1>3. Output("Driving", "DrivingDangerously") = "StartBuzzer"
  BY DEF Output, Alarm
<1> QED BY <1>1, <1>2, <1>3 DEF Step, To

\* The hops of a turn, with any event and any reply, lead to well typed twins.
LEMMA TurnType ==
    ASSUME NEW Rpm, NEW Lux, NEW t \in TwinOver(Rpm, Lux),
           NEW e \in EventOver(Rpm, Lux), NEW reply \in ZoneReply \cup {NoReply}
    PROVE  LET h == ExternalHop(t, e, reply).twin
               u == Turn(t, e, reply).twin
           IN  /\ h \in TwinOver(Rpm, Lux) /\ u \in TwinOver(Rpm, Lux)
               /\ Shaped(t) => Shaped(h) /\ Shaped(u)
<1> DEFINE z == ZoneTurn(t, e, reply).twin
           n == Transition(z, e)
           h == ExternalHop(t, e, reply).twin
           u == Turn(t, e, reply).twin
<1>1. z \in TwinOver(Rpm, Lux) /\ (Shaped(t) => Shaped(z))
  BY ZoneTurnType DEF Shaped
<1>2. h = [z EXCEPT !.mode = n.mode, !.remaining = n.remaining]
  BY DEF ExternalHop, Step
<1>3. n \in [mode : Mode, remaining : SUBSET Assembly] /\ (Shaped(t) => Shaped(n))
  <2> HIDE DEF z
  <2> QED BY <1>1, TransitionType, TransitionShape
<1>4. h \in TwinOver(Rpm, Lux) /\ (Shaped(t) => Shaped(h))
  <2> HIDE DEF z, n, h
  <2> QED BY <1>1, <1>2, <1>3 DEF TwinOver, Shaped
<1>5. CASE ~LightingUnsafe(h)
  <2>1. u = h
    BY <1>5 DEF Turn
  <2> QED BY <1>4, <1>5, <2>1
<1>6. CASE LightingUnsafe(h)
  <2>1. u = Step(h, LightingUnsafeEvent).twin
    BY <1>6 DEF Turn
  <2>2. u = [h EXCEPT !.mode = "DrivingDangerously", !.remaining = {}]
    <3> HIDE DEF h, u
    <3> QED BY <1>4, <1>6, <2>1, InternalHop
  <2>3. u \in TwinOver(Rpm, Lux) /\ Shaped(u)
    <3> HIDE DEF h, u
    <3>1. u \in TwinOver(Rpm, Lux)
      BY <1>4, <2>2 DEF TwinOver, Mode
    <3>2. u.mode = "DrivingDangerously" /\ u.remaining = {}
      BY <1>4, <2>2 DEF TwinOver
    <3> QED BY <3>1, <3>2 DEF Shaped, Preparing
  <2> QED BY <1>4, <2>3
<1> QED BY <1>5, <1>6

\* The zones raise at most one request in a turn.
LEMMA OutcomesType ==
    ASSUME NEW Rpm, NEW Lux, NEW t \in TwinOver(Rpm, Lux),
           NEW e \in EventOver(Rpm, Lux), NEW reply \in ZoneReply \cup {NoReply}
    PROVE  Turn(t, e, reply).outcomes \in AtMostOne(HeadlampOutcome \cup WiperOutcome)
<1> DEFINE r == ZoneEffect(t, e, reply)
<1>1. r \in ZoneReply \cup {NoReply}
  BY EffectType
<1>2. Turn(t, e, reply).outcomes = ZoneTurn(t, e, reply).outcomes
  BY DEF Turn
<1>3. ZoneTurn(t, e, reply).outcomes = IF r = NoReply THEN << >> ELSE r.outcomes
  BY DEF ZoneTurn
<1> HIDE DEF r
<1>4. r # NoReply => r.outcomes \in AtMostOne(HeadlampOutcome \cup WiperOutcome)
  BY <1>1 DEF ZoneReply, HeadlampReply, WiperReply, AtMostOne
<1> QED BY <1>2, <1>3, <1>4 DEF AtMostOne
=============================================================================
