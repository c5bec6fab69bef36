--------------------------- MODULE OperationalFsm ---------------------------
(***************************************************************************)
(* The operational state machine (L2): the transition table, the actions a *)
(* change of state raises, and the lighting detector.  A twin is the       *)
(* committed pair (FsmState, VehicleContext) in one record; the table      *)
(* reads the context after the zones have taken the event.                 *)
(*                                                                         *)
(* The instant ExtremeOperationWarning carries is abstracted: a TimerTick  *)
(* says whether the warning is old enough to end (warningAged).  Health is *)
(* left out: nothing in the program changes it, and it begins healthy.     *)
(***************************************************************************)
EXTENDS AssemblyZones

Mode == {"Off", "PreparingToStart", "Idle", "Driving", "DrivingDangerously",
         "ExtremeOperationWarning", "PreparingToStop"}
Preparing == {"PreparingToStart", "PreparingToStop"}

\* FsmState and VehicleContext.  remaining is the payload of Preparing*.
TwinOver(Rpm, Lux) ==
    [mode      : Mode,
     remaining : SUBSET Assembly,
     rpm       : Rpm,
     speed     : {SpeedFromRpm(r) : r \in Rpm} \cup {0},
     lux       : Lux,
     headlamp  : HeadlampState,
     wiper     : WiperState]

\* FsmEvent, for readings in Rpm and Lux, without Internal
EventOver(Rpm, Lux) ==
    [kind : {"PowerOn", "PowerOff", "FrontHeadlampOnAck", "FrontHeadlampOffAck",
             "RainsStarted", "RainsStopped"}]
       \cup [kind : {"UpdateRpm"}, rpm : Rpm]
       \cup [kind : {"UpdateAmbientLux"}, lux : Lux]
       \cup [kind : {"FrontHeadlampActuationIncomplete"}, direction : Direction]
       \cup [kind : {"TimerTick"}, ackOverdue : BOOLEAN, warningAged : BOOLEAN]
       \cup [kind : {"AssemblyZoneReady"}, assembly : Assembly]

\* Internal(LightingUnsafe), which only the detector raises
LightingUnsafeEvent == [kind |-> "LightingUnsafe"]

Stationary(t)    == t.speed = 0
WarningActive(t) == operational_warning_active(t.rpm, t.speed)

-----------------------------------------------------------------------------
(* transition: the next FsmState, as a mode and the assemblies it awaits.  *)

To(mode) == [mode |-> mode, remaining |-> {}]
Stay(t)  == [mode |-> t.mode, remaining |-> t.remaining]

\* Mutant: the last acknowledgement empties the countdown and ends nothing.
CountDownNeverDone(t, e, done) ==
    IF e.kind # "AssemblyZoneReady" THEN Stay(t)
    ELSE [mode |-> t.mode, remaining |-> t.remaining \ {e.assembly}]

\* An acknowledgement shrinks the countdown; the last one ends the phase.
CountDown(t, e, done) ==
    IF e.kind # "AssemblyZoneReady" THEN Stay(t)
    ELSE IF t.remaining \ {e.assembly} = {} THEN To(done)
    ELSE [mode |-> t.mode, remaining |-> t.remaining \ {e.assembly}]

FromOff(t, e) ==
    IF e.kind = "PowerOn" THEN [mode |-> "PreparingToStart", remaining |-> Assembly] ELSE Stay(t)

FromIdle(t, e) ==
    CASE e.kind = "PowerOff" -> [mode |-> "PreparingToStop", remaining |-> Assembly]
      [] e.kind = "UpdateRpm" /\ e.rpm > RPM_DRIVING_THRESHOLD -> To("Driving")
      [] OTHER -> Stay(t)

FromDriving(t, e) ==
    CASE e.kind = "LightingUnsafe" -> To("DrivingDangerously")
      [] e.kind = "PowerOff"       -> Stay(t)
      [] e.kind \notin {"LightingUnsafe", "PowerOff"} ->
            IF WarningActive(t) THEN To("ExtremeOperationWarning")
            ELSE IF Stationary(t) THEN To("Idle") ELSE Stay(t)

\* Mutant: the danger does not end when the ambient light is back.
FromDrivingDangerouslyLampOnly(t, e) ==
    IF e.kind = "PowerOff" THEN Stay(t)
    ELSE IF Stationary(t) THEN To("Idle")
    ELSE IF t.headlamp = "On" THEN To("Driving") ELSE Stay(t)

FromDrivingDangerously(t, e) ==
    IF e.kind = "PowerOff" THEN Stay(t)
    ELSE IF Stationary(t) THEN To("Idle")
    ELSE IF t.headlamp = "On" \/ t.lux > LUX_ON_THRESHOLD THEN To("Driving") ELSE Stay(t)

FromExtremeOperationWarning(t, e) ==
    IF e.kind = "TimerTick" /\ e.warningAged /\ ~WarningActive(t)
    THEN To(IF Stationary(t) THEN "Idle" ELSE "Driving")
    ELSE Stay(t)

Transition(t, e) ==
    CASE t.mode = "Off"                     -> FromOff(t, e)
      [] t.mode = "PreparingToStart"        -> CountDown(t, e, "Idle")
      [] t.mode = "Idle"                    -> FromIdle(t, e)
      [] t.mode = "Driving"                 -> FromDriving(t, e)
      [] t.mode = "DrivingDangerously"      -> FromDrivingDangerously(t, e)
      [] t.mode = "ExtremeOperationWarning" -> FromExtremeOperationWarning(t, e)
      [] t.mode = "PreparingToStop"         -> CountDown(t, e, "Off")

-----------------------------------------------------------------------------
(* output: the action a change of state raises.  The warning texts logged  *)
(* on entry to ExtremeOperationWarning are left out.                       *)

FsmAction == {"StartAssemblies", "StopAssemblies", "StartBuzzer", "StopBuzzer",
              "PublishStateSync", "None"}

Alarm == {"DrivingDangerously", "ExtremeOperationWarning"}

\* Mutant: the buzzer is stopped only on the way back to Driving.
OutputIdleKeepsBuzzer(old, new) ==
    CASE old = "Off" /\ new = "PreparingToStart"              -> "StartAssemblies"
      [] old = "Idle" /\ new = "PreparingToStop"              -> "StopAssemblies"
      [] old = "Driving" /\ new \in Alarm                     -> "StartBuzzer"
      [] old \in Alarm /\ new = "Driving"                     -> "StopBuzzer"
      [] old = new                                            -> "None"
      [] OTHER                                                -> "PublishStateSync"

Output(old, new) ==
    CASE old = "Off" /\ new = "PreparingToStart"              -> "StartAssemblies"
      [] old = "Idle" /\ new = "PreparingToStop"              -> "StopAssemblies"
      [] old = "Driving" /\ new \in Alarm                     -> "StartBuzzer"
      [] old \in Alarm /\ new \in {"Driving", "Idle"}         -> "StopBuzzer"
      [] old = new                                            -> "None"
      [] OTHER                                                -> "PublishStateSync"

-----------------------------------------------------------------------------
\* lighting_unsafe_detector: driving in the dark with a dark lamp
LightingUnsafe(t) ==
    /\ t.mode = "Driving"
    /\ t.lux <= LUX_ON_THRESHOLD
    /\ t.headlamp \in {"Off", "Ready"}
=============================================================================
