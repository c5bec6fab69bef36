--------------------------- MODULE VehiclePhysics ---------------------------
(***************************************************************************)
(* The calibration constants the state machine, the zones, the detectors   *)
(* and the laws share, and the kinematics that turn the wheel rpm into a   *)
(* ground speed.  All readings are u16.                                    *)
(***************************************************************************)
EXTENDS Integers

U16 == 0..65535

RPM_DRIVING_THRESHOLD                 == 1000
RPM_EXTREME_OPERATION_THRESHOLD       == 5500
SPEED_EXTREME_OPERATION_THRESHOLD_KPH == 160
LUX_ON_THRESHOLD                      == 840
LUX_OFF_THRESHOLD                     == 860

\* refresh_speed: calculate_speed_from_rpm (0.114 kph per rpm), rounded to the
\* nearest.  No u16 rpm reaches the cap: 65535 rpm is 7471 kph.
SpeedFromRpm(rpm) == (114 * rpm + 500) \div 1000

speed_threshold_exceeded(kph) == kph > SPEED_EXTREME_OPERATION_THRESHOLD_KPH

extreme_operation_active(rpm, kph) ==
    rpm > RPM_EXTREME_OPERATION_THRESHOLD /\ speed_threshold_exceeded(kph)

operational_warning_active(rpm, kph) ==
    speed_threshold_exceeded(kph) \/ extreme_operation_active(rpm, kph)
=============================================================================
