-------------------------- MODULE ControlAuthority --------------------------
(* Who decides the control of a frame: carla_runner picks an override for    *)
(* C's output (an injected fault, perception's brake), ControlRuntime.step    *)
(* applies the stop hold, and D's SafetySupervisor.arbitrate has the last     *)
(* word (car_control_D/safety_supervisor.py).  Controls are percentages;      *)
(* a scene is what D's thresholds make of it.                                 *)
EXTENDS Integers, Absent

CONSTANTS Faults,   \* scenario faults on the raw control: "conflict", "invalid", "steer"
          Wanted,   \* what C may ask for: [throttle, brake]
          CapBrakes \* what the temporary speed cap may ask for, None within tolerance

ASSUME AuthorityAssumption ==
  /\ Faults \subseteq {"conflict", "invalid", "steer"}
  /\ Wanted \subseteq [throttle : 0..100, brake : 0..100] /\ CapBrakes \subseteq (0..100) \cup {None}
  /\ None \notin [throttle : Int, brake : Int, valid : BOOLEAN]

HoldBrake == 55       \* hold_brake
EmergencyBrake == 100 \* emergency_brake
CautionBrake == 35    \* caution_brake
ComfortBrake == 60    \* comfort_decel over max_decel
RouteBrake == 65      \* route_deviation_brake

VARIABLES injected,  \* raw_control_fault_injected
          verdict    \* the last frame: its scene and who decided what, None between frames
authorityVars == <<injected, verdict>>

Control(throttle, brake) == [throttle |-> throttle, brake |-> brake, valid |-> TRUE]
Harder(a, b) == IF a > b THEN a ELSE b

\* What a frame is, for the decision: perception's summary, the sensors a
\* scenario blinds, the alerts, what is ahead, the stop line that binds (after
\* the yellow dilemma), the place in the lane and the command in force.  Summary
\* "grace": perception failed within the startup grace frames.
Scene == [summary : {"keep", "slow", "closed", "grace"}, blind : 0..2, alarm : {"none", "watchdog", "collision"},
          front : {"clear", "caution", "low", "close"}, atLine : BOOLEAN, moving : BOOLEAN,
          place : {"route", "lane", "off"}, command : {"none", "stop", "emergency", "unconfirmed"}]

-----------------------------------------------------------------------------
\* The overrides of carla_runner, the later ones of perception winning.
CapRequest(brake) == IF brake = None THEN None ELSE Control(0, brake)

PerceptionOverride(scene, cap) ==
  CASE scene.blind = 2 -> Control(0, 100)
    [] scene.blind < 2 /\ scene.summary = "closed" -> Control(0, 100)
    [] OTHER -> IF scene.summary = "slow" \/ scene.blind = 1 THEN CapRequest(cap) ELSE None

\* _scenario_raw_control_fault once, and the steer fault for as long as it is active.
Injected(fault) ==
  CASE fault = "steer" -> Control(10, 0)
    [] fault = "conflict" /\ ~injected -> Control(50, 50)
    [] fault = "invalid" /\ ~injected -> [throttle |-> 0, brake |-> 0, valid |-> FALSE]
    [] OTHER -> None

\* ControlRuntime.step: C's request, or the fuzzy policy's, under the stop hold.
Asked(scene, wanted) ==
  IF scene.command = "unconfirmed"
    THEN Control(0, IF scene.front = "low" THEN EmergencyBrake ELSE IF scene.moving THEN ComfortBrake ELSE HoldBrake)
    ELSE Control(wanted.throttle, wanted.brake)
Held(asked, holds) == IF holds THEN Control(0, Harder(HoldBrake, asked.brake)) ELSE asked

Standing(scene) == scene.command \in {"stop", "emergency"} /\ ~scene.moving

-----------------------------------------------------------------------------
Conflict(raw) == raw.throttle > 3 /\ raw.brake > 3
Full(reason) == [throttle |-> 0, brake |-> EmergencyBrake, reason |-> reason]
Softened(raw, least, reason) == [throttle |-> 0, brake |-> Harder(raw.brake, least), reason |-> reason]

LineGuardMutant(raw, scene) == scene.atLine /\ (raw.throttle > 5 \/ scene.moving)
LineGuard(raw, scene) == scene.atLine /\ (raw.throttle > 5 \/ scene.moving \/ raw.brake < HoldBrake)

\* D is told of an emergency order only: a plain STOP and an unconfirmed
\* command are C's to answer.
Told(scene) == scene.command = "emergency"

Arbitrate(raw, scene) ==
  IF ~raw.valid \/ Conflict(raw) THEN Full("INVALID_CONTROL_OUTPUT")
  ELSE IF scene.alarm = "watchdog" THEN Full("WATCHDOG_ALERT")
  ELSE IF scene.alarm = "collision" THEN Full("COLLISION_DETECTED")
  ELSE IF Told(scene) THEN Full("COMMAND_EMERGENCY_STOP")
  ELSE IF scene.front = "low" THEN Full("LOW_TTC")
  ELSE IF scene.front = "close" THEN Full("EMERGENCY_FRONT_OBSTACLE_TOO_CLOSE")
  ELSE IF LineGuard(raw, scene) THEN Full("RED_LIGHT_STOP_LINE_GUARD")
  ELSE IF scene.place = "off" THEN Softened(raw, RouteBrake, "ROUTE_DEVIATION_RECOVERY_STOP")
  ELSE IF scene.place = "lane" THEN Softened(raw, CautionBrake, "LANE_OFFSET_TOO_LARGE")
  ELSE IF scene.front = "caution" THEN Softened(raw, CautionBrake, "CAUTION_TTC")
  ELSE [throttle |-> raw.throttle, brake |-> raw.brake, reason |-> "NONE"]

\* Within the startup grace the runner replaces the result by a full brake.
Final(raw, scene) ==
  IF scene.summary = "grace" THEN Full("PERCEPTION_STARTUP_GRACE") ELSE Arbitrate(raw, scene)

-----------------------------------------------------------------------------
AuthorityInit == injected = FALSE /\ verdict = None

\* The decision part of a frame, from the overrides to the final control.
DecideFrame(scene, fault, wanted, cap, stopHold) ==
  LET over == IF Injected(fault) # None THEN Injected(fault) ELSE PerceptionOverride(scene, cap)
      asked == Held(Asked(scene, wanted), stopHold \/ Standing(scene))
      raw == IF over = None THEN asked ELSE over IN
  /\ injected' = (injected \/ fault \in {"conflict", "invalid"})
  /\ verdict' = [scene |-> scene, override |-> over, held |-> stopHold, faulted |-> Injected(fault) # None,
                 raw |-> raw, final |-> Final(raw, scene)]

NextFrame == verdict # None /\ verdict' = None /\ UNCHANGED injected

AuthorityNext ==
  \/ /\ verdict = None
     /\ \E scene \in Scene, fault \in Faults \cup {None}, wanted \in Wanted, cap \in CapBrakes, stopHold \in BOOLEAN :
          DecideFrame(scene, fault, wanted, cap, stopHold)
  \/ NextFrame

-----------------------------------------------------------------------------
\* D never gives more throttle nor, but for a raw control it cannot read, less
\* brake than it was asked, and the throttle and the brake are never both on.
OnlySafer ==
  verdict # None =>
    /\ verdict.final.throttle \in {0, verdict.raw.throttle} /\ verdict.final.brake >= verdict.raw.brake
    /\ verdict.final.throttle = 0 \/ verdict.final.brake = 0

\* At a stop line that binds no source of control moves the car: not C's
\* request, not an injected fault, not a soft brake of the speed cap
\* (car_control_D/safety_supervisor.py 266-282).
LineDefended == verdict # None /\ verdict.scene.atLine => verdict.final.throttle = 0 /\ verdict.final.brake >= HoldBrake

\* Perception that fails closed, or is blind, stops the car in that very frame
\* unless a scenario injects a fault into the raw control.
BlindStops ==
  verdict # None /\ (verdict.scene.summary = "closed" \/ verdict.scene.blind = 2) /\ ~verdict.faulted
    => verdict.final.throttle = 0 /\ verdict.final.brake = EmergencyBrake

\* A stop hold moves nothing: with no fault injected the car gets no throttle
\* and, unless perception overrides the control, at least the hold brake.
HoldStands ==
  verdict # None /\ verdict.held /\ ~verdict.faulted =>
    verdict.final.throttle = 0 /\ (verdict.override = None => verdict.final.brake >= HoldBrake)

AuthoritySound == OnlySafer /\ LineDefended /\ BlindStops /\ HoldStands
=============================================================================
