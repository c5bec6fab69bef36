------------------------- MODULE DigitalTwin_proofs -------------------------
(***************************************************************************)
(* Proofs about DigitalTwin, for all sets of readings.  The properties are *)
(* not inductive one by one: that the danger is real rests on DrivingMoves *)
(* (Driving is entered and kept only in motion), and the buzzer and the    *)
(* countdown on the type invariant.  Inv is their conjunction.             *)
(***************************************************************************)
EXTENDS DigitalTwin, TwinTurn_proofs, TLAPS

\* In Driving the car moves: the rpm that enters it is above the threshold,
\* and every later event that finds the car standing leaves it.
DrivingMoves == twin.mode = "Driving" => ~Stationary(twin)

Inv == /\ TypeOK
       /\ CountdownIsOpenTurns
       /\ QuiescentAfterCommit
       /\ DangerIsReal
       /\ BuzzerSoundsInAlarm
       /\ DrivingMoves

Twin  == TwinOver(Rpm, Lux)
Event == EventOver(Rpm, Lux)

USE DEF Twin, Event

-----------------------------------------------------------------------------
(* One turn.                                                               *)

\* What a zone may answer is a reply of that zone.
LEMMA AnswersType ==
    ASSUME NEW z \in Assembly, NEW m,
           z = "Headlamp" => m \in HeadlampMessage(Lux),
           z = "Wiper" => m \in WiperMessage
    PROVE  Answers(z, m) \subseteq {r \in ZoneReply : r.zone = z}
<1>1. ASSUME NEW c \in ZoneState(z)
      PROVE  /\ OnReceivingMessage(z, c, m) \in {r \in ZoneReply : r.zone = z}
             /\ Unresponsive(z, c) \in {r \in ZoneReply : r.zone = z}
  <2>1. /\ z = "Headlamp" => c \in HeadlampState
        /\ z = "Wiper" => c \in WiperState
    BY DEF ZoneState
  <2> QED BY <2>1, AnswerType
<1> QED BY <1>1 DEF Answers

\* The alarm of a twin has its cause, and in Driving it moves.
Caused(t) == t.mode = "DrivingDangerously" =>
                /\ t.lux <= LUX_ON_THRESHOLD
                /\ t.headlamp # "On"
                /\ ~Stationary(t)
Moves(t)  == t.mode = "Driving" => ~Stationary(t)

\* Readings are integers.
LEMMA ReadingsAreInt == Rpm \subseteq Int /\ Lux \subseteq Int
<1>1. U16 \subseteq Int
  BY DEF U16
<1>2. Rpm \subseteq U16 /\ Lux \subseteq U16
  BY ReadingAssumption DEF ReadingAssumption
<1> QED BY <1>1, <1>2

\* A reading above the driving threshold is a motion.
LEMMA FastIsMoving ==
    ASSUME NEW rpm \in Rpm, rpm > RPM_DRIVING_THRESHOLD
    PROVE  SpeedFromRpm(rpm) # 0
<1>1. rpm \in Int /\ rpm > 1000
  BY ReadingsAreInt DEF RPM_DRIVING_THRESHOLD
<1> QED BY <1>1 DEF SpeedFromRpm

\* What the table does with an event from outside, mode by mode, as far as the
\* alarm and motion are concerned; z is the twin after the zones.
LEMMA Table ==
    ASSUME NEW z \in Twin, NEW e \in Event
    PROVE  LET n == Transition(z, e)
           IN  /\ z.mode = "Off" =>
                     \/ n = Stay(z)
                     \/ n = [mode |-> "PreparingToStart", remaining |-> Assembly]
               /\ z.mode = "Idle" =>
                     \/ n = Stay(z)
                     \/ n = [mode |-> "PreparingToStop", remaining |-> Assembly]
                     \/ n = To("Driving") /\ e.kind = "UpdateRpm" /\ e.rpm > RPM_DRIVING_THRESHOLD
               /\ z.mode = "Driving" =>
                     \/ n = Stay(z) /\ (e.kind = "PowerOff" \/ ~Stationary(z))
                     \/ n = To("ExtremeOperationWarning")
                     \/ n = To("Idle")
               /\ z.mode = "DrivingDangerously" =>
                     \/ n = Stay(z) /\ e.kind = "PowerOff"
                     \/ n = Stay(z) /\ Caused(z)
                     \/ n = To("Idle")
                     \/ n = To("Driving") /\ ~Stationary(z)
               /\ z.mode = "ExtremeOperationWarning" =>
                     \/ n = Stay(z)
                     \/ n = To("Idle")
                     \/ n = To("Driving") /\ ~Stationary(z)
               /\ z.mode = "PreparingToStart" => n = CountDown(z, e, "Idle")
               /\ z.mode = "PreparingToStop" => n = CountDown(z, e, "Off")
<1> DEFINE n == Transition(z, e)
<1>0. e.kind # "LightingUnsafe"
  BY DEF Event, EventOver
<1>l. z.lux \in Int
  BY ReadingsAreInt DEF Twin, TwinOver
<1>1. z.mode = "Off" =>
         \/ n = Stay(z)
         \/ n = [mode |-> "PreparingToStart", remaining |-> Assembly]
  BY DEF Transition, FromOff
<1>2. z.mode = "Idle" =>
         \/ n = Stay(z)
         \/ n = [mode |-> "PreparingToStop", remaining |-> Assembly]
         \/ n = To("Driving") /\ e.kind = "UpdateRpm" /\ e.rpm > RPM_DRIVING_THRESHOLD
  BY DEF Transition, FromIdle
<1>3. z.mode = "Driving" =>
         \/ n = Stay(z) /\ (e.kind = "PowerOff" \/ ~Stationary(z))
         \/ n = To("ExtremeOperationWarning")
         \/ n = To("Idle")
  BY <1>0 DEF Transition, FromDriving
<1>4. z.mode = "DrivingDangerously" =>
         \/ n = Stay(z) /\ e.kind = "PowerOff"
         \/ n = Stay(z) /\ Caused(z)
         \/ n = To("Idle")
         \/ n = To("Driving") /\ ~Stationary(z)
  <2> SUFFICES ASSUME z.mode = "DrivingDangerously"
               PROVE  \/ n = Stay(z) /\ e.kind = "PowerOff"
                      \/ n = Stay(z) /\ Caused(z)
                      \/ n = To("Idle")
                      \/ n = To("Driving") /\ ~Stationary(z)
    OBVIOUS
  <2>1. n = FromDrivingDangerously(z, e)
    BY DEF Transition
  <2>2. ~(z.lux > LUX_ON_THRESHOLD) => z.lux <= LUX_ON_THRESHOLD
    BY <1>l DEF LUX_ON_THRESHOLD
  <2> QED BY <2>1, <2>2 DEF FromDrivingDangerously, Caused
<1>5. z.mode = "ExtremeOperationWarning" =>
         \/ n = Stay(z)
         \/ n = To("Idle")
         \/ n = To("Driving") /\ ~Stationary(z)
  BY DEF Transition, FromExtremeOperationWarning
<1>6. /\ z.mode = "PreparingToStart" => n = CountDown(z, e, "Idle")
      /\ z.mode = "PreparingToStop" => n = CountDown(z, e, "Off")
  BY DEF Transition
<1> QED BY <1>1, <1>2, <1>3, <1>4, <1>5, <1>6

\* The first hop keeps the twin well typed and shaped; if it ends in Driving
\* the car moves, and if in DrivingDangerously the danger is real.
LEMMA HopSafe ==
    ASSUME NEW t \in Twin, Shaped(t), Caused(t), Moves(t),
           NEW e \in Event, NEW reply \in ZoneReply \cup {NoReply}
    PROVE  LET h == ExternalHop(t, e, reply).twin
           IN  h \in Twin /\ Shaped(h) /\ Caused(h) /\ Moves(h)
<1> DEFINE z == ZoneTurn(t, e, reply).twin
           n == Transition(z, e)
           h == ExternalHop(t, e, reply).twin
<1>1. /\ z \in Twin /\ z.mode = t.mode /\ z.remaining = t.remaining
      /\ z.speed = TakeReading(t, e).speed
      /\ e.kind = "PowerOff" => z = t
  BY ZoneTurnType
<1>2. Shaped(z)
  BY <1>1 DEF Shaped
<1>3. n \in [mode : Mode, remaining : SUBSET Assembly] /\ Shaped(n)
  BY <1>1, <1>2, TransitionType, TransitionShape
<1>4. h = [z EXCEPT !.mode = n.mode, !.remaining = n.remaining]
  BY DEF ExternalHop, Step
<1>5. h \in Twin /\ Shaped(h)
  BY <1>1, <1>3, <1>4 DEF Twin, TwinOver, Shaped
<1>6. /\ h.mode = n.mode /\ h.lux = z.lux /\ h.headlamp = z.headlamp
      /\ Stationary(h) = Stationary(z)
  BY <1>1, <1>3, <1>4 DEF Twin, TwinOver, Stationary
<1>7. t.mode \in Mode
  BY DEF Twin, TwinOver
<1>8. Moves(h)
  <2> SUFFICES ASSUME n.mode = "Driving" PROVE ~Stationary(z)
    BY <1>6 DEF Moves
  <2>1. CASE t.mode = "Idle"
    <3>1. e.kind = "UpdateRpm" /\ e.rpm > RPM_DRIVING_THRESHOLD
      BY <1>1, <2>1, Table DEF Stay
    <3>2. e.rpm \in Rpm
      BY <3>1 DEF Event, EventOver
    <3>3. z.speed = SpeedFromRpm(e.rpm)
      BY <1>1, <2>1, <3>1, ReadingType
    <3> QED BY <3>1, <3>2, <3>3, FastIsMoving DEF Stationary
  <2>2. CASE t.mode = "Driving"
    BY <1>1, <2>2, Table DEF To, Stay, Moves
  <2>3. CASE t.mode = "DrivingDangerously"
    BY <1>1, <2>3, Table DEF To, Stay
  <2>4. CASE t.mode = "ExtremeOperationWarning"
    BY <1>1, <2>4, Table DEF To, Stay
  <2>5. CASE t.mode = "Off"
    BY <1>1, <2>5, Table DEF To, Stay
  <2>6. CASE t.mode \in Preparing
    BY <1>1, <2>6, Table DEF CountDown, To, Stay, Preparing
  <2> QED BY <1>7, <2>1, <2>2, <2>3, <2>4, <2>5, <2>6 DEF Mode, Preparing
<1>9. Caused(h)
  <2> SUFFICES ASSUME n.mode = "DrivingDangerously" PROVE Caused(z) /\ z.mode = "DrivingDangerously"
    BY <1>6 DEF Caused
  <2>1. CASE t.mode = "DrivingDangerously"
    BY <1>1, <2>1, Table DEF To, Stay
  <2>2. CASE t.mode \in {"Off", "Idle", "Driving", "ExtremeOperationWarning"}
    BY <1>1, <2>2, Table DEF To, Stay
  <2>3. CASE t.mode \in Preparing
    BY <1>1, <2>3, Table DEF CountDown, To, Stay, Preparing
  <2> QED BY <1>7, <2>1, <2>2, <2>3 DEF Mode, Preparing
<1> QED BY <1>5, <1>8, <1>9

\* The outputs of the changes of mode that can happen.
LEMMA OutputTable ==
    /\ \A a \in Mode : Output(a, a) = "None"
    /\ Output("Off", "PreparingToStart") = "StartAssemblies"
    /\ Output("Idle", "PreparingToStop") = "StopAssemblies"
    /\ \A a \in Alarm : Output("Driving", a) = "StartBuzzer"
    /\ \A a \in Alarm, b \in {"Driving", "Idle"} : Output(a, b) = "StopBuzzer"
    /\ Output("Idle", "Driving") = "PublishStateSync"
    /\ Output("Driving", "Idle") = "PublishStateSync"
    /\ \A a \in Preparing, b \in {"Idle", "Off"} : Output(a, b) = "PublishStateSync"
<1>1. \A a \in Mode : Output(a, a) = "None"
  <2> TAKE a \in Mode
  <2>1. a = "Off" => Output(a, a) = "None"
    BY DEF Output, Alarm
  <2>2. a = "Idle" => Output(a, a) = "None"
    BY DEF Output, Alarm
  <2>3. a = "Driving" => Output(a, a) = "None"
    BY DEF Output, Alarm
  <2>4. a = "DrivingDangerously" => Output(a, a) = "None"
    BY DEF Output, Alarm
  <2>5. a = "ExtremeOperationWarning" => Output(a, a) = "None"
    BY DEF Output, Alarm
  <2>6. a = "PreparingToStart" => Output(a, a) = "None"
    BY DEF Output, Alarm
  <2>7. a = "PreparingToStop" => Output(a, a) = "None"
    BY DEF Output, Alarm
  <2> QED BY <2>1, <2>2, <2>3, <2>4, <2>5, <2>6, <2>7 DEF Mode
<1>2. Output("Off", "PreparingToStart") = "StartAssemblies"
  BY DEF Output, Alarm
<1>3. Output("Idle", "PreparingToStop") = "StopAssemblies"
  BY DEF Output, Alarm
<1>4. Output("Driving", "DrivingDangerously") = "StartBuzzer"
  BY DEF Output, Alarm
<1>5. Output("Driving", "ExtremeOperationWarning") = "StartBuzzer"
  BY DEF Output, Alarm
<1>6. Output("DrivingDangerously", "Driving") = "StopBuzzer"
  BY DEF Output, Alarm
<1>7. Output("DrivingDangerously", "Idle") = "StopBuzzer"
  BY DEF Output, Alarm
<1>8. Output("ExtremeOperationWarning", "Driving") = "StopBuzzer"
  BY DEF Output, Alarm
<1>9. Output("ExtremeOperationWarning", "Idle") = "StopBuzzer"
  BY DEF Output, Alarm
<1>10. Output("Idle", "Driving") = "PublishStateSync"
  BY DEF Output, Alarm
<1>11. Output("Driving", "Idle") = "PublishStateSync"
  BY DEF Output, Alarm
<1>12. Output("PreparingToStart", "Idle") = "PublishStateSync"
  BY DEF Output, Alarm
<1>13. Output("PreparingToStart", "Off") = "PublishStateSync"
  BY DEF Output, Alarm
<1>14. Output("PreparingToStop", "Idle") = "PublishStateSync"
  BY DEF Output, Alarm
<1>15. Output("PreparingToStop", "Off") = "PublishStateSync"
  BY DEF Output, Alarm
<1>16. \A a \in Alarm : Output("Driving", a) = "StartBuzzer"
  BY <1>4, <1>5 DEF Alarm
<1>17. \A a \in Alarm, b \in {"Driving", "Idle"} : Output(a, b) = "StopBuzzer"
  BY <1>6, <1>7, <1>8, <1>9 DEF Alarm
<1>18. \A a \in Preparing, b \in {"Idle", "Off"} : Output(a, b) = "PublishStateSync"
  BY <1>12, <1>13, <1>14, <1>15 DEF Preparing
<1> QED BY <1>1, <1>2, <1>3, <1>10, <1>11, <1>16, <1>17, <1>18

\* What an output does to the buzzer and which lifecycle turns it opens.
LEMMA OutputEffect ==
    /\ \A s \in BOOLEAN : BuzzerAfter("StartBuzzer", s) = TRUE
    /\ \A s \in BOOLEAN : BuzzerAfter("StopBuzzer", s) = FALSE
    /\ \A s \in BOOLEAN : \A o \in FsmAction \ {"StartBuzzer", "StopBuzzer"} : BuzzerAfter(o, s) = s
    /\ OpenedBy("StartAssemblies") = [assembly : Assembly, message : {"BecomeOn"}]
    /\ OpenedBy("StopAssemblies") = [assembly : Assembly, message : {"BecomeOff"}]
    /\ \A o \in FsmAction \ {"StartAssemblies", "StopAssemblies"} : OpenedBy(o) = {}
<1>1. \A s \in BOOLEAN : BuzzerAfter("StartBuzzer", s) = TRUE
  BY DEF BuzzerAfter
<1>2. \A s \in BOOLEAN : BuzzerAfter("StopBuzzer", s) = FALSE
  BY DEF BuzzerAfter
<1>3. \A s \in BOOLEAN : \A o \in FsmAction \ {"StartBuzzer", "StopBuzzer"} : BuzzerAfter(o, s) = s
  BY DEF BuzzerAfter
<1>4. OpenedBy("StartAssemblies") = [assembly : Assembly, message : {"BecomeOn"}]
  BY DEF OpenedBy
<1>5. OpenedBy("StopAssemblies") = [assembly : Assembly, message : {"BecomeOff"}]
  BY DEF OpenedBy
<1>6. \A o \in FsmAction \ {"StartAssemblies", "StopAssemblies"} : OpenedBy(o) = {}
  BY DEF OpenedBy
<1> QED BY <1>1, <1>2, <1>3, <1>4, <1>5, <1>6

\* The output of the first hop turns the buzzer as the mode asks.
LEMMA HopBuzzer ==
    ASSUME NEW t \in Twin, NEW e \in Event, NEW reply \in ZoneReply \cup {NoReply}
    PROVE  LET hop == ExternalHop(t, e, reply)
           IN  BuzzerAfter(hop.output, t.mode \in Alarm) = (hop.twin.mode \in Alarm)
<1> DEFINE z   == ZoneTurn(t, e, reply).twin
           n   == Transition(z, e)
           hop == ExternalHop(t, e, reply)
           sounding == t.mode \in Alarm
<1>1. z \in Twin /\ z.mode = t.mode
  BY ZoneTurnType
<1>2. hop.twin.mode = n.mode /\ hop.output = Output(t.mode, n.mode)
  BY <1>1 DEF ExternalHop, Step, Twin, TwinOver
<1>3. t.mode \in Mode /\ sounding \in BOOLEAN
  BY DEF Twin, TwinOver
<1>q. \A o \in {"None", "PublishStateSync", "StartAssemblies", "StopAssemblies"} :
         BuzzerAfter(o, sounding) = sounding
  BY <1>3, OutputEffect DEF FsmAction
<1>s. CASE n.mode = t.mode
  <2>1. hop.output = "None"
    BY <1>2, <1>3, <1>s, OutputTable
  <2> QED BY <1>2, <1>q, <1>s, <2>1
<1>4. CASE t.mode = "Off" /\ n.mode # t.mode
  <2>1. n.mode = "PreparingToStart"
    BY <1>1, <1>4, Table DEF Stay
  <2>2. hop.output = "StartAssemblies"
    BY <1>2, <1>4, <2>1, OutputTable
  <2> QED BY <1>2, <1>4, <1>q, <2>1, <2>2 DEF Alarm
<1>5. CASE t.mode = "Idle" /\ n.mode # t.mode
  <2>1. n.mode \in {"PreparingToStop", "Driving"}
    BY <1>1, <1>5, Table DEF Stay, To
  <2>2. hop.output \in {"StopAssemblies", "PublishStateSync"}
    BY <1>2, <1>5, <2>1, OutputTable
  <2> QED BY <1>2, <1>5, <1>q, <2>1, <2>2 DEF Alarm
<1>6. CASE t.mode = "Driving" /\ n.mode # t.mode
  <2>1. n.mode \in {"ExtremeOperationWarning", "Idle"}
    BY <1>1, <1>6, Table DEF Stay, To
  <2>2. CASE n.mode = "Idle"
    <3>1. hop.output = "PublishStateSync"
      BY <1>2, <1>6, <2>2, OutputTable
    <3> QED BY <1>2, <1>6, <1>q, <2>2, <3>1 DEF Alarm
  <2>3. CASE n.mode = "ExtremeOperationWarning"
    <3>1. hop.output = "StartBuzzer" /\ n.mode \in Alarm
      BY <1>2, <1>6, <2>3, OutputTable DEF Alarm
    <3> QED BY <1>2, <1>3, <3>1, OutputEffect
  <2> QED BY <2>1, <2>2, <2>3
<1>7. CASE t.mode \in Alarm /\ n.mode # t.mode
  <2>1. n.mode \in {"Driving", "Idle"}
    BY <1>1, <1>7, Table DEF Stay, To, Alarm
  <2>2. hop.output = "StopBuzzer"
    BY <1>2, <1>7, <2>1, OutputTable
  <2>3. n.mode \notin Alarm
    BY <2>1 DEF Alarm
  <2>4. BuzzerAfter("StopBuzzer", sounding) = FALSE
    BY <1>3, OutputEffect
  <2>5. BuzzerAfter(hop.output, sounding) = FALSE
    BY <2>2, <2>4
  <2>6. (hop.twin.mode \in Alarm) = FALSE
    BY <1>2, <2>3
  <2> QED BY <2>5, <2>6
<1>8. CASE t.mode \in Preparing /\ n.mode # t.mode
  <2>1. n.mode \in {"Idle", "Off"}
    BY <1>1, <1>8, Table DEF CountDown, Stay, To, Preparing
  <2>2. hop.output = "PublishStateSync"
    BY <1>2, <1>8, <2>1, OutputTable
  <2>3. n.mode \notin Alarm /\ t.mode \notin Alarm
    BY <1>8, <2>1 DEF Alarm, Preparing
  <2> QED BY <1>2, <1>q, <2>2, <2>3
<1> QED BY <1>3, <1>s, <1>4, <1>5, <1>6, <1>7, <1>8 DEF Mode, Alarm, Preparing

\* The lifecycle turns a twin's countdown stands for.
Countdown(t) == CASE t.mode = "PreparingToStart" -> [assembly : t.remaining, message : {"BecomeOn"}]
                  [] t.mode = "PreparingToStop"  -> [assembly : t.remaining, message : {"BecomeOff"}]
                  [] OTHER -> {}

\* The event consumes the lifecycle turns in done: one, if it is the
\* acknowledgement of an open one, and none otherwise.
Consumes(e, done) ==
    \/ e.kind # "AssemblyZoneReady" /\ done = {}
    \/ \E l \in open : e = [kind |-> "AssemblyZoneReady", assembly |-> l.assembly] /\ done = {l}

\* The first hop keeps the countdown in step with the open lifecycle turns.
LEMMA HopCountdown ==
    ASSUME NEW t \in Twin, Shaped(t), open = Countdown(t), NEW e \in Event, NEW done,
           Consumes(e, done), NEW reply \in ZoneReply \cup {NoReply}
    PROVE  LET hop == ExternalHop(t, e, reply)
           IN  (open \ done) \cup OpenedBy(hop.output) = Countdown(hop.twin)
<1> DEFINE z   == ZoneTurn(t, e, reply).twin
           n   == Transition(z, e)
           hop == ExternalHop(t, e, reply)
<1>1. z \in Twin /\ z.mode = t.mode /\ z.remaining = t.remaining
  BY ZoneTurnType
<1>2. /\ hop.twin.mode = n.mode /\ hop.twin.remaining = n.remaining
      /\ hop.output = Output(t.mode, n.mode)
  BY <1>1 DEF ExternalHop, Step, Twin, TwinOver
<1>3. t.mode \in Mode
  BY DEF Twin, TwinOver
<1>4. CASE t.mode \notin Preparing
  <2>1. open = {} /\ done = {}
    BY <1>3, <1>4 DEF Countdown, Consumes, Mode, Preparing
  <2>2. \/ n.mode \notin Preparing /\ OpenedBy(Output(t.mode, n.mode)) = {}
        \/ n = [mode |-> "PreparingToStart", remaining |-> Assembly] /\ t.mode = "Off"
        \/ n = [mode |-> "PreparingToStop", remaining |-> Assembly] /\ t.mode = "Idle"
    <3>1. CASE t.mode = "Off"
      BY <1>1, <3>1, Table DEF Stay, Preparing, Output, OpenedBy, Alarm
    <3>2. CASE t.mode = "Idle"
      BY <1>1, <3>2, Table DEF Stay, To, Preparing, Output, OpenedBy, Alarm
    <3>3. CASE t.mode = "Driving"
      BY <1>1, <3>3, Table DEF Stay, To, Preparing, Output, OpenedBy, Alarm
    <3>4. CASE t.mode \in Alarm
      BY <1>1, <3>4, Table DEF Stay, To, Preparing, Output, OpenedBy, Alarm
    <3> QED BY <1>3, <1>4, <3>1, <3>2, <3>3, <3>4 DEF Mode, Alarm, Preparing
  <2>3. CASE n.mode \notin Preparing /\ OpenedBy(Output(t.mode, n.mode)) = {}
    BY <1>2, <2>1, <2>3 DEF Countdown, Preparing
  <2>4. CASE n = [mode |-> "PreparingToStart", remaining |-> Assembly] /\ t.mode = "Off"
    <3>0. n.mode = "PreparingToStart" /\ n.remaining = Assembly
      BY <2>4
    <3>o. hop.output = "StartAssemblies"
      BY <1>2, <2>4, <3>0, OutputTable
    <3>1. OpenedBy(hop.output) = [assembly : Assembly, message : {"BecomeOn"}]
      BY <3>o, OutputEffect
    <3>2. Countdown(hop.twin) = [assembly : Assembly, message : {"BecomeOn"}]
      BY <1>2, <3>0 DEF Countdown
    <3> QED BY <2>1, <3>1, <3>2
  <2>5. CASE n = [mode |-> "PreparingToStop", remaining |-> Assembly] /\ t.mode = "Idle"
    <3>0. n.mode = "PreparingToStop" /\ n.remaining = Assembly
      BY <2>5
    <3>o. hop.output = "StopAssemblies"
      BY <1>2, <2>5, <3>0, OutputTable
    <3>1. OpenedBy(hop.output) = [assembly : Assembly, message : {"BecomeOff"}]
      BY <3>o, OutputEffect
    <3>2. Countdown(hop.twin) = [assembly : Assembly, message : {"BecomeOff"}]
      BY <1>2, <3>0 DEF Countdown
    <3> QED BY <2>1, <3>1, <3>2
  <2> QED BY <2>2, <2>3, <2>4, <2>5
<1>5. CASE t.mode \in Preparing
  <2> DEFINE m == IF t.mode = "PreparingToStart" THEN "BecomeOn" ELSE "BecomeOff"
  <2>1. open = [assembly : t.remaining, message : {m}]
    BY <1>5 DEF Countdown, Preparing
  <2>2. n = CountDown(z, e, IF t.mode = "PreparingToStart" THEN "Idle" ELSE "Off")
    BY <1>1, <1>5, Table DEF Preparing
  <2>3. OpenedBy(Output(t.mode, n.mode)) = {}
    <3>1. n.mode \in {t.mode, "Idle", "Off"}
      BY <1>1, <2>2 DEF CountDown, Stay, To
    <3> QED BY <1>5, <3>1 DEF Output, OpenedBy, Preparing, Alarm
  <2>4. CASE e.kind # "AssemblyZoneReady"
    <3>1. done = {} /\ n.mode = t.mode /\ n.remaining = t.remaining
      BY <1>1, <2>2, <2>4 DEF Consumes, CountDown, Stay
    <3> QED BY <1>2, <2>3, <3>1 DEF Countdown
  <2>5. CASE e.kind = "AssemblyZoneReady"
    <3>1. PICK l \in open : e = [kind |-> "AssemblyZoneReady", assembly |-> l.assembly] /\ done = {l}
      BY <2>5 DEF Consumes
    <3>2. l = [assembly |-> e.assembly, message |-> m] /\ e.assembly \in t.remaining
      <4>1. l \in [assembly : t.remaining, message : {m}]
        BY <2>1
      <4>2. l.assembly \in t.remaining /\ l.message = m /\ l = [assembly |-> l.assembly, message |-> l.message]
        BY <4>1
      <4>3. e.assembly = l.assembly
        BY <3>1
      <4> QED BY <4>2, <4>3
    <3>3. open \ done = [assembly : t.remaining \ {e.assembly}, message : {m}]
      <4>1. \A k \in open : k # l <=> k.assembly # e.assembly
        BY <2>1, <3>2
      <4>2. \A k \in open \ done : k \in [assembly : t.remaining \ {e.assembly}, message : {m}]
        BY <2>1, <3>1, <4>1
      <4>3. \A k \in [assembly : t.remaining \ {e.assembly}, message : {m}] : k \in open \ done
        BY <2>1, <3>1, <4>1
      <4> QED BY <4>2, <4>3
    <3>4. CASE t.remaining \ {e.assembly} = {}
      <4>1. n.mode \notin Preparing
        BY <1>1, <2>2, <2>5, <3>4 DEF CountDown, To, Preparing
      <4>2. open \ done = {}
        BY <3>3, <3>4
      <4> QED BY <1>2, <2>3, <4>1, <4>2 DEF Countdown, Preparing
    <3>5. CASE t.remaining \ {e.assembly} # {}
      <4>1. n.mode = t.mode /\ n.remaining = t.remaining \ {e.assembly}
        BY <1>1, <2>2, <2>5, <3>5 DEF CountDown
      <4> QED BY <1>2, <1>5, <2>3, <3>3, <4>1 DEF Countdown, Preparing
    <3> QED BY <3>4, <3>5
  <2> QED BY <2>4, <2>5
<1> QED BY <1>4, <1>5

-----------------------------------------------------------------------------
(* The steps.                                                              *)

\* A countdown stands for lifecycle turns.
LEMMA CountdownType ==
    ASSUME NEW t \in Twin
    PROVE  Countdown(t) \subseteq LifecycleTurn
<1>1. t.remaining \subseteq Assembly
  BY DEF Twin, TwinOver
<1>2. [assembly : t.remaining, message : {"BecomeOn"}] \subseteq LifecycleTurn
  BY <1>1 DEF LifecycleTurn
<1>3. [assembly : t.remaining, message : {"BecomeOff"}] \subseteq LifecycleTurn
  BY <1>1 DEF LifecycleTurn
<1> QED BY <1>2, <1>3 DEF Countdown

\* The committed turn of any event, with any reply, keeps the invariant.
LEMMA CommitKeeps ==
    ASSUME Inv, NEW e \in Event, NEW reply \in ZoneReply \cup {NoReply}, NEW done,
           Consumes(e, done), CommitResolvedTurn(e, reply, done)
    PROVE  Inv'
<1> DEFINE hop      == ExternalHop(twin, e, reply)
           h        == hop.twin
           sounding == BuzzerAfter(hop.output, buzzer)
<1>1. twin \in Twin /\ Shaped(twin) /\ Caused(twin) /\ Moves(twin)
  BY DEF Inv, TypeOK, Twin, Shaped, Caused, Moves, DangerIsReal, DrivingMoves
<1>2. h \in Twin /\ Shaped(h) /\ Caused(h) /\ Moves(h)
  BY <1>1, HopSafe
<1>3. open = Countdown(twin)
  BY DEF Inv, CountdownIsOpenTurns, Countdown
<1>4. (open \ done) \cup OpenedBy(hop.output) = Countdown(h)
  BY <1>1, <1>3, HopCountdown
<1>5. buzzer = (twin.mode \in Alarm)
  BY DEF Inv, BuzzerSoundsInAlarm
<1>6. sounding = (h.mode \in Alarm)
  BY <1>1, <1>5, HopBuzzer
<1>7. (h.mode \in Alarm) \in BOOLEAN
  OBVIOUS
<1>8. sounding \in BOOLEAN
  BY <1>6, <1>7
<1>9. SUFFICES /\ twin' \in Twin /\ Shaped(twin') /\ Caused(twin') /\ Moves(twin')
               /\ ~LightingUnsafe(twin')
               /\ open' = Countdown(twin')
               /\ buzzer' = (twin'.mode \in Alarm)
  <2>1. ASSUME /\ twin' \in Twin /\ Shaped(twin') /\ Caused(twin') /\ Moves(twin')
               /\ open' = Countdown(twin')
               /\ buzzer' = (twin'.mode \in Alarm)
        PROVE  TypeOK'
    <3>1. open' \subseteq LifecycleTurn
      BY <2>1, CountdownType
    <3>2. buzzer' \in BOOLEAN
      BY <2>1
    <3> QED BY <2>1, <3>1, <3>2 DEF TypeOK, Twin, Shaped
  <2> QED BY <2>1 DEF Inv, CountdownIsOpenTurns, Countdown, QuiescentAfterCommit, LightingUnsafe,
                      DangerIsReal, Caused, DrivingMoves, Moves, BuzzerSoundsInAlarm, Stationary
<1>10. CASE ~LightingUnsafe(h)
  <2>1. /\ twin' = h
        /\ buzzer' = BuzzerAfter("None", sounding)
        /\ open' = (open \ done) \cup OpenedBy(hop.output)
    BY <1>10 DEF CommitResolvedTurn, Turn
  <2>2. buzzer' = sounding
    BY <1>8, <2>1, OutputEffect DEF FsmAction
  <2> QED BY <1>2, <1>4, <1>6, <1>10, <2>1, <2>2
<1>11. CASE LightingUnsafe(h)
  <2> DEFINE d     == [h EXCEPT !.mode = "DrivingDangerously", !.remaining = {}]
             inner == Step(h, LightingUnsafeEvent)
  <2>1. inner.twin = d /\ inner.output = "StartBuzzer"
    <3>1. h \in TwinOver(Rpm, Lux)
      BY <1>2
    <3> HIDE DEF h
    <3> QED BY <1>11, <3>1, InternalHop
  <2>2. /\ twin' = d
        /\ buzzer' = BuzzerAfter("StartBuzzer", sounding)
        /\ open' = (open \ done) \cup OpenedBy(hop.output)
    BY <1>11, <2>1 DEF CommitResolvedTurn, Turn
  <2>3. /\ d \in Twin /\ d.mode = "DrivingDangerously" /\ d.remaining = {}
        /\ d.speed = h.speed /\ d.lux = h.lux /\ d.headlamp = h.headlamp
    BY <1>2 DEF Twin, TwinOver, Mode
  <2>4. h.mode = "Driving" /\ h.lux <= LUX_ON_THRESHOLD /\ h.headlamp # "On"
    BY <1>11 DEF LightingUnsafe
  <2>5. Caused(d) /\ Moves(d)
    BY <1>2, <2>3, <2>4 DEF Caused, Moves, Stationary
  <2>6. Shaped(d) /\ ~LightingUnsafe(d)
    BY <2>3 DEF Shaped, Preparing, LightingUnsafe
  <2>7. Countdown(h) = {} /\ Countdown(d) = {}
    BY <2>3, <2>4 DEF Countdown
  <2>8. buzzer' = TRUE
    BY <1>8, <2>2, OutputEffect
  <2>9. (d.mode \in Alarm) = TRUE
    BY <2>3 DEF Alarm
  <2>10. twin' \in Twin /\ Shaped(twin') /\ Caused(twin') /\ Moves(twin') /\ ~LightingUnsafe(twin')
    BY <2>2, <2>3, <2>5, <2>6
  <2>11. open' = Countdown(twin')
    BY <1>4, <2>2, <2>7
  <2>12. buzzer' = (twin'.mode \in Alarm)
    BY <2>2, <2>8, <2>9
  <2> QED BY <2>10, <2>11, <2>12
<1> QED BY <1>10, <1>11

\* The replies a turn may be committed with are replies.
LEMMA RepliesType ==
    ASSUME NEW e \in Event
    PROVE  Replies(e) \subseteq ZoneReply \cup {NoReply}
<1>1. CASE UserEventToZoneTell(e) = NoTell
  BY <1>1 DEF Replies
<1>2. CASE UserEventToZoneTell(e) # NoTell
  <2> DEFINE tell == UserEventToZoneTell(e)
  <2>1. Answers(tell.zone, tell.message) \subseteq {r \in ZoneReply : r.zone = tell.zone}
    BY <1>2, TellType, AnswersType DEF Assembly
  <2> QED BY <1>2, <2>1 DEF Replies
<1> QED BY <1>1, <1>2

\* The twin as it is made satisfies the invariant.
LEMMA InitInv == Init => Inv
<1> SUFFICES ASSUME Init PROVE Inv
  OBVIOUS
<1>1. /\ twin = InitialTwin /\ open = {} /\ buzzer = FALSE
  BY DEF Init
<1>2. /\ twin.mode = "Off" /\ twin.remaining = {} /\ twin.rpm = 0 /\ twin.speed = 0
      /\ twin.lux = 100 /\ twin.headlamp = "Off" /\ twin.wiper = "Off"
  BY <1>1 DEF InitialTwin
<1>3. 0 \in Rpm /\ 100 \in Lux
  BY ReadingAssumption DEF ReadingAssumption
<1>4. twin \in TwinOver(Rpm, Lux)
  BY <1>1, <1>3 DEF InitialTwin, TwinOver, Mode, HeadlampState, WiperState
<1>5. TypeOK
  <2>1. (twin.remaining # {}) = FALSE
    BY <1>2
  <2>2. (twin.mode \in Preparing) = FALSE
    BY <1>2 DEF Preparing
  <2>3. open \subseteq LifecycleTurn /\ buzzer \in BOOLEAN
    BY <1>1
  <2> QED BY <1>4, <2>1, <2>2, <2>3 DEF TypeOK
<1>6. CountdownIsOpenTurns
  BY <1>1, <1>2 DEF CountdownIsOpenTurns
<1>7. QuiescentAfterCommit /\ DangerIsReal /\ DrivingMoves
  BY <1>2 DEF QuiescentAfterCommit, LightingUnsafe, DangerIsReal, DrivingMoves
<1>8. (twin.mode \in Alarm) = FALSE
  BY <1>2 DEF Alarm
<1>9. BuzzerSoundsInAlarm
  BY <1>1, <1>8 DEF BuzzerSoundsInAlarm
<1> QED BY <1>5, <1>6, <1>7, <1>9 DEF Inv

\* Every step keeps the invariant.
LEMMA StepInv == Inv /\ [Next]_vars => Inv'
<1> SUFFICES ASSUME Inv, [Next]_vars PROVE Inv'
  OBVIOUS
<1>n. NoReply \in ZoneReply \cup {NoReply}
  OBVIOUS
<1>1. CASE PowerOn
  <2> DEFINE e == [kind |-> "PowerOn"]
  <2>1. e \in Event /\ Consumes(e, {})
    BY DEF Event, EventOver, Consumes
  <2> QED BY <1>n, <1>1, <2>1, CommitKeeps DEF PowerOn
<1>2. CASE PowerOff
  <2> DEFINE e == [kind |-> "PowerOff"]
  <2>1. e \in Event /\ Consumes(e, {})
    BY DEF Event, EventOver, Consumes
  <2> QED BY <1>n, <1>2, <2>1, CommitKeeps DEF PowerOff
<1>3. ASSUME NEW rpm \in Rpm, UpdateRpm(rpm) PROVE Inv'
  <2> DEFINE e == [kind |-> "UpdateRpm", rpm |-> rpm]
  <2>1. e \in Event /\ Consumes(e, {})
    BY DEF Event, EventOver, Consumes
  <2> QED BY <1>n, <1>3, <2>1, CommitKeeps DEF UpdateRpm
<1>4. ASSUME NEW lux \in Lux, UpdateAmbientLux(lux) PROVE Inv'
  <2> DEFINE e == [kind |-> "UpdateAmbientLux", lux |-> lux]
  <2>1. e \in Event /\ Consumes(e, {})
    BY DEF Event, EventOver, Consumes
  <2> QED BY <1>4, <2>1, RepliesType, CommitKeeps DEF UpdateAmbientLux
<1>5. ASSUME NEW kind \in {"FrontHeadlampOnAck", "FrontHeadlampOffAck"}, FrontHeadlampAck(kind)
      PROVE  Inv'
  <2> DEFINE e == [kind |-> kind]
  <2>1. e \in Event /\ Consumes(e, {})
    BY DEF Event, EventOver, Consumes
  <2> QED BY <1>5, <2>1, RepliesType, CommitKeeps DEF FrontHeadlampAck
<1>6. ASSUME NEW direction \in Direction, FrontHeadlampActuationIncomplete(direction) PROVE Inv'
  <2> DEFINE e == [kind |-> "FrontHeadlampActuationIncomplete", direction |-> direction]
  <2>1. e \in Event /\ Consumes(e, {})
    BY DEF Event, EventOver, Consumes
  <2> QED BY <1>6, <2>1, RepliesType, CommitKeeps DEF FrontHeadlampActuationIncomplete
<1>7. ASSUME NEW kind \in {"RainsStarted", "RainsStopped"}, Rains(kind) PROVE Inv'
  <2> DEFINE e == [kind |-> kind]
  <2>1. e \in Event /\ Consumes(e, {})
    BY DEF Event, EventOver, Consumes
  <2> QED BY <1>7, <2>1, RepliesType, CommitKeeps DEF Rains
<1>8. CASE TimerTick
  <2>1. PICK o, w \in BOOLEAN :
           CommitResolvedTurn([kind |-> "TimerTick", ackOverdue |-> o, warningAged |-> w],
                              NoReply, {})
    BY <1>8 DEF TimerTick
  <2> DEFINE e == [kind |-> "TimerTick", ackOverdue |-> o, warningAged |-> w]
  <2>2. e \in Event /\ Consumes(e, {})
    BY DEF Event, EventOver, Consumes
  <2> QED BY <1>n, <2>1, <2>2, CommitKeeps
<1>9. ASSUME NEW l \in open, AssemblyZoneReady(l) PROVE Inv'
  <2> DEFINE e == [kind |-> "AssemblyZoneReady", assembly |-> l.assembly]
  <2>1. PICK reply \in Answers(l.assembly, [kind |-> l.message]) : CommitResolvedTurn(e, reply, {l})
    BY <1>9 DEF AssemblyZoneReady
  <2>2. l.assembly \in Assembly /\ l.message \in {"BecomeOn", "BecomeOff"}
    BY DEF Inv, TypeOK, LifecycleTurn
  <2>3. [kind |-> l.message] \in HeadlampMessage(Lux) /\ [kind |-> l.message] \in WiperMessage
    BY <2>2 DEF HeadlampMessage, WiperMessage
  <2>4. reply \in ZoneReply
    BY <2>1, <2>2, <2>3, AnswersType
  <2>5. e \in Event /\ Consumes(e, {l})
    BY <2>2 DEF Event, EventOver, Consumes
  <2> QED BY <2>1, <2>4, <2>5, CommitKeeps
<1>10. CASE UNCHANGED vars
  <2>1. twin' = twin /\ open' = open /\ buzzer' = buzzer
    BY <1>10 DEF vars
  <2> QED BY <2>1 DEF Inv, TypeOK, CountdownIsOpenTurns, QuiescentAfterCommit, LightingUnsafe,
                      DangerIsReal, BuzzerSoundsInAlarm, DrivingMoves, Stationary
<1> QED BY <1>1, <1>2, <1>3, <1>4, <1>5, <1>6, <1>7, <1>8, <1>9, <1>10 DEF Next

\* The invariant holds always.
LEMMA InvAlways == Spec => []Inv
  BY InitInv, StepInv, PTL DEF Spec

-----------------------------------------------------------------------------
(* The theorems.                                                           *)

\* The committed twin is always a state and a context of the code's types,
\* with a countdown exactly while assemblies start or stop.
THEOREM TypeCorrect == Spec => []TypeOK
<1>1. Inv => TypeOK
  BY DEF Inv
<1> QED BY <1>1, InvAlways, PTL

\* For any readings, the countdown of PreparingToStart and PreparingToStop
\* names exactly the assemblies whose lifecycle turn is still open.
THEOREM Countdowns == Spec => []CountdownIsOpenTurns
<1>1. Inv => CountdownIsOpenTurns
  BY DEF Inv
<1> QED BY <1>1, InvAlways, PTL

\* One internal hop is enough: no committed turn leaves the car driving in the
\* dark with a dark lamp and without the alarm.
THEOREM Quiescence == Spec => []QuiescentAfterCommit
<1>1. Inv => QuiescentAfterCommit
  BY DEF Inv
<1> QED BY <1>1, InvAlways, PTL

\* In DrivingDangerously the car moves in the dark without a confirmed lamp,
\* for any readings and in any order of events.
THEOREM Danger == Spec => []DangerIsReal
<1>1. Inv => DangerIsReal
  BY DEF Inv
<1> QED BY <1>1, InvAlways, PTL

\* The buzzer sounds exactly in the alarm states.
THEOREM Buzzer == Spec => []BuzzerSoundsInAlarm
<1>1. Inv => BuzzerSoundsInAlarm
  BY DEF Inv
<1> QED BY <1>1, InvAlways, PTL
=============================================================================
