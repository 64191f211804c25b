---------------------------- MODULE SpeedControl ----------------------------
(* C, the longitudinal controller: ControlRuntime resolves the yellow-light  *)
(* dilemma (integration/runtime_loop.py), then LongitudinalController.step   *)
(* plans a target speed under the stop, lead, curve and limit ceilings,      *)
(* steps the PID and turns its acceleration into throttle or brake           *)
(* (car_control_C).  A frame is one unit of time; the gains and limits, which *)
(* the code takes as parameters, are constants; roots and quotients are      *)
(* rounded down and controls are percentages.                                *)
EXTENDS Integers, Absent

CONSTANTS EgoSpeeds,        \* of the ego
          Requests,      \* requested_speed_mps
          Views,         \* where the ego may be: [light, around, posted, contract], the light it is at, or None,
                         \* the stop waypoints around it, of its lane and heading (ours) or not, the map's limit and
                         \* the scenario's [limit, overrides], or None
          LightRange,    \* max_distance_m
          Leads,         \* None or [gap, speed]
          CurveCap,      \* the speed the road's curvature allows
          MaxAccel, MaxDecel, Comfortable,
          AccelStep, DecelStep,          \* command_accel, command_decel over a frame
          Delta,                         \* max_control_delta over a frame
          HoldLevel, EmergencyLevel,
          CreepSpeed, HoldDistance, HoldSpeed,
          GapAtRest, TimeGap, EmergencyTtc,
          Kp, Ki, Kd, IntegralLimit, TargetStep

\* _normalise_light_state.
Colours == {"RED", "YELLOW", "GREEN", "UNKNOWN"}

ASSUME SpeedAssumption ==
  /\ EgoSpeeds \cup Requests \subseteq Nat /\ {CurveCap, AccelStep, DecelStep, Delta, TargetStep} \subseteq Nat \ {0}
  /\ MaxAccel \in Nat \ {0} /\ Comfortable \in 1..MaxDecel /\ MaxDecel \in Nat
  /\ HoldLevel \in 1..100 /\ EmergencyLevel \in 0..100 /\ IntegralLimit \in Nat \ {0}
  /\ {CreepSpeed, HoldDistance, HoldSpeed, GapAtRest, TimeGap, EmergencyTtc, Kp, Ki, Kd} \subseteq Nat
  /\ LightRange \in Nat /\ \A v \in Views :
       /\ v.light = None \/ v.light \in [light : Colours, line : Nat \cup {None}, alone : BOOLEAN, junction : Nat]
       /\ v.around \subseteq [light : Colours, line : Int, ours : BOOLEAN, junction : Nat]
       /\ v.posted \in Nat \cup {None} /\ v.contract \in [limit : Nat, overrides : BOOLEAN] \cup {None}
  /\ Leads \subseteq [gap : Nat, speed : Nat] \cup {None} /\ None \notin Int

VARIABLES committed,  \* _yellow_clear_committed
          lastTarget,   \* SpeedPlanner._previous_target, None before the first plan
          pid,        \* [integral, error, target], the last two None before the first step
          control,    \* [throttle, brake], _last_throttle and _last_brake
          decided,    \* what the last frame was given and decided
          approach    \* ghost: the junction seen last, the hardest stop a YELLOW has asked of it (here)
                      \* and since a light was last not against the ego, or no line ahead (stretch)
speedVars == <<committed, lastTarget, pid, control, decided, approach>>

Most(a, b) == IF a > b THEN a ELSE b
Least(a, b) == IF a < b THEN a ELSE b
Within(x, low, high) == Most(low, Least(x, high))
Root(n) == CHOOSE r \in 0..n : r * r <= n /\ n < (r + 1) * (r + 1)

-----------------------------------------------------------------------------
\* _upcoming_traffic_light: the nearest stop waypoint ahead in the ego's own lane.
InReach(around) == {w \in around : w.ours /\ w.line \in 0..LightRange}
Upcoming(around) ==
  IF InReach(around) = {} THEN None ELSE CHOOSE w \in InReach(around) : \A x \in InReach(around) : w.line <= x.line

\* traffic_light_and_stop_distance: the light the ego is at, unless the waypoint ahead is
\* nearer or its own are behind; one known by its trigger volume or by its state only
\* stands alone, also when it has been passed (no line).
Shown(light, upcoming) ==
  CASE light = None /\ upcoming = None -> [light |-> "UNKNOWN", line |-> None, junction |-> 0]
    [] upcoming # None /\ (light # None => ~light.alone /\ (light.line # None => upcoming.line < light.line)) -> upcoming
    [] OTHER -> light

\* _apply_scenario_speed_limit: the scenario only tightens the map's limit, unless it is
\* said to replace it.
LimitOf(view) ==
  CASE view.contract = None -> view.posted
    [] view.contract # None /\ (view.contract.overrides \/ view.posted = None) -> view.contract.limit
    [] OTHER -> Least(view.posted, view.contract.limit)

\* What perception says of a view: no line and no limit are None.  The junction the light
\* is at is there for the properties; the code does not know it.
SceneOf(view) ==
  LET shown == Shown(view.light, Upcoming(view.around)) IN
  [light |-> shown.light, line |-> shown.line, limit |-> LimitOf(view), junction |-> shown.junction]
Scenes == {SceneOf(v) : v \in Views}

-----------------------------------------------------------------------------
\* StopController and TrafficRulePlanner: the stop line that binds, and how.
StopDistance(scene) == IF scene.light = "GREEN" THEN None ELSE scene.line

DecelNeeded(speed, line) ==
  IF line = None \/ speed = 0 THEN 0 ELSE (speed * speed) \div (2 * Most(1, line - HoldDistance))

StopState(speed, line) ==
  CASE line = None -> "CRUISE"
    [] line # None /\ line <= HoldDistance /\ speed <= HoldSpeed -> "HOLD"
    [] line # None /\ line <= Most(2, 3 * HoldDistance)
         /\ ~(line <= HoldDistance /\ speed <= HoldSpeed) -> "CREEP"
    [] OTHER -> "DECELERATE"

StopCap(speed, line) ==
  CASE StopState(speed, line) = "HOLD" -> 0
    [] StopState(speed, line) = "CREEP" -> CreepSpeed
    [] OTHER -> Root(2 * Comfortable * Most(0, line - HoldDistance - speed))

\* FollowingController: the lead's ceiling and the time-to-collision alarm.
DesiredGap(speed) == GapAtRest + TimeGap * speed
LeadCap(speed, lead) == lead.speed + Root(2 * Comfortable * Most(0, lead.gap - DesiredGap(speed)))
TooSoon(speed, lead) ==
  lead # None /\ speed > lead.speed /\ lead.gap <= EmergencyTtc * (speed - lead.speed)

-----------------------------------------------------------------------------
\* _traffic_scene_for_control: what C and D see of the light.
Cleared(scene) == [scene EXCEPT !.light = "GREEN", !.line = None]

Dilemma(speed, scene) == scene.light = "YELLOW" /\ scene.line # None /\ DecelNeeded(speed, scene.line) > Comfortable

CommittedNextMutant(speed, scene) ==
  CASE scene.light \in {"GREEN", "UNKNOWN"} -> FALSE
    [] committed /\ scene.light \in {"RED", "YELLOW"} -> TRUE
    [] OTHER -> Dilemma(speed, scene)
CommittedNext(speed, scene) ==
  CASE scene.light \in {"GREEN", "UNKNOWN"} -> FALSE
    [] committed /\ scene.light \in {"RED", "YELLOW"} -> scene.line # None
    [] OTHER -> Dilemma(speed, scene)

ControlScene(speed, scene) ==
  IF scene.light \in {"RED", "YELLOW"} /\ (committed \/ Dilemma(speed, scene))
    THEN Cleared(scene) ELSE scene

-----------------------------------------------------------------------------
\* SpeedPlanner.plan: the ramp towards the request, under the hard ceilings.
Under(cap, ceiling) == IF ceiling = None THEN cap ELSE Least(cap, ceiling)
HardCap(speed, scene, lead) ==
  LET line == StopDistance(scene) IN
  Under(Under(Under(CurveCap, scene.limit), IF line = None THEN None ELSE StopCap(speed, line)),
        IF lead = None THEN None ELSE LeadCap(speed, lead))

Comfort(requested, base) ==
  IF requested >= base THEN Least(requested, base + AccelStep) ELSE Most(requested, base - DecelStep)

Target(speed, requested, cap) ==
  Least(Comfort(requested, IF lastTarget = None THEN speed ELSE lastTarget), cap)

\* SpeedPID.step.
Decayed(target) ==
  IF pid.target # None /\ Most(target - pid.target, pid.target - target) >= TargetStep
    THEN pid.integral \div 4 ELSE pid.integral
Raw(error, integral) ==
  Kp * error + Ki * integral + (IF pid.error = None THEN 0 ELSE Kd * (error - pid.error))
Clipped(raw) == Within(raw, -MaxDecel, MaxAccel)

Winds(raw, error) ==
  \/ raw = Clipped(raw)
  \/ raw > Clipped(raw) /\ error < 0
  \/ raw < Clipped(raw) /\ error > 0

Pid(target, speed) ==
  LET error == target - speed
      candidate == Within(Decayed(target) + error, -IntegralLimit, IntegralLimit)
      raw == Raw(error, candidate) IN
  [accel |-> Clipped(raw),
   next |-> [integral |-> IF Winds(raw, error) THEN candidate ELSE Decayed(target),
             error |-> error, target |-> target]]

\* _rate_limited_control: throttle or brake, never a crossfade.
Limited(accel) ==
  LET throttle == IF accel >= 0 THEN Least(100, (100 * accel) \div MaxAccel) ELSE 0
      brake == IF accel < 0 THEN Least(100, (100 * (-accel)) \div MaxDecel) ELSE 0
      toward(want, last) == Most(Most(0, Least(want, last + Delta)), last - Delta) IN
  [throttle |-> IF brake > 0 THEN 0 ELSE toward(throttle, control.throttle),
   brake |-> IF throttle > 0 THEN 0 ELSE toward(brake, control.brake)]

-----------------------------------------------------------------------------
Braked(level) == [throttle |-> 0, brake |-> Most(level, control.brake)]

SpeedInit ==
  /\ committed = FALSE /\ lastTarget = None /\ pid = [integral |-> 0, error |-> None, target |-> None]
  /\ control = [throttle |-> 0, brake |-> 0] /\ decided = None
  /\ approach = [junction |-> 0, here |-> None, stretch |-> None]

\* What has been seen: the hardest stop a YELLOW asked for, forgotten when the light is
\* not against the ego or there is no line ahead; `here` also when the junction changes.
Heard(before, speed, scene) ==
  IF scene.light \in {"GREEN", "UNKNOWN"} \/ scene.line = None THEN None
  ELSE IF scene.light # "YELLOW" THEN before
  ELSE IF before = None THEN DecelNeeded(speed, scene.line)
  ELSE Most(before, DecelNeeded(speed, scene.line))
Approach(speed, scene) ==
  [junction |-> scene.junction,
   here |-> Heard(IF scene.junction = approach.junction THEN approach.here ELSE None, speed, scene),
   stretch |-> Heard(approach.stretch, speed, scene)]

\* ControlRuntime.step up to C's output: the scene, then LongitudinalController.step.
Step(speed, requested, scene, lead) ==
  LET line == StopDistance(ControlScene(speed, scene))
      state == StopState(speed, line)
      cap == HardCap(speed, ControlScene(speed, scene), lead)
      target == Target(speed, requested, cap)
      step == Pid(target, speed)
      mode == CASE state = "HOLD" -> "hold"
                [] line # None /\ state # "HOLD" /\ DecelNeeded(speed, line) >= MaxDecel -> "unreachable"
                [] OTHER -> IF TooSoon(speed, lead) THEN "ttc" ELSE "drive" IN
  /\ committed' = CommittedNext(speed, scene)
  /\ approach' = Approach(speed, scene)
  /\ lastTarget' = target
  /\ pid' = IF mode \in {"hold", "unreachable"} THEN pid ELSE step.next
  /\ control' = CASE mode = "hold" -> Braked(HoldLevel)
                  [] mode = "unreachable" -> [throttle |-> 0, brake |-> 100]
                  [] mode = "ttc" -> Braked(EmergencyLevel)
                  [] OTHER -> Limited(step.accel)
  /\ decided' = [mode |-> mode, through |-> scene.line # None /\ scene.light = "RED" /\ line = None,
               cap |-> cap, limit |-> scene.limit,
               accel |-> IF mode = "drive" THEN step.accel ELSE -MaxDecel]

\* A command that needs confirmation: FuzzyCommandPolicy.evaluate answers and C is not stepped.
Ask(speed, scene) ==
  /\ committed' = CommittedNext(speed, scene)
  /\ approach' = Approach(speed, scene)
  /\ decided' = [mode |-> "ask", cap |-> CurveCap, limit |-> scene.limit, accel |-> -Comfortable,
               through |-> scene.line # None /\ scene.light = "RED" /\ ControlScene(speed, scene) # scene]
  /\ UNCHANGED <<lastTarget, pid, control>>

SpeedNext ==
  \E speed \in EgoSpeeds, scene \in Scenes :
    \/ \E requested \in Requests, lead \in Leads : Step(speed, requested, scene, lead)
    \/ Ask(speed, scene)

-----------------------------------------------------------------------------
\* "RED never creates a new permission to proceed. Only a previously seen YELLOW whose
\* stop would exceed comfortable deceleration can commit ego to clear the junction"
\* (runtime_loop.py 496-501): a RED line is let through only at a junction whose own
\* YELLOW asked for more than a comfortable stop.
RedNeverPermits ==
  decided # None /\ decided.through => approach.here # None /\ approach.here > Comfortable

\* What holds of it: a RED line is let through only while lights against the ego, each
\* with a line ahead, have followed each other without a gap since a YELLOW, of this
\* junction or one before it, that asked for more than a comfortable stop.
PermissionsLapse ==
  decided # None /\ decided.through => approach.stretch # None /\ approach.stretch > Comfortable

\* Throttle and brake are never asked for together, across holds, emergencies
\* and the rate limiter's memory (longitudinal_controller.py 91-97).
NeverBoth == control.throttle = 0 \/ control.brake = 0

\* While the output is saturated and the error still pushes outwards, the
\* integral does not grow: no wind-up during a long brake or a long climb.
NoWindup ==
  decided' # None /\ decided'.mode = "drive" =>
    /\ decided'.accel = MaxAccel /\ Raw(pid'.error, pid.integral) > MaxAccel
         => pid'.integral <= Most(0, pid.integral)
    /\ decided'.accel = -MaxDecel /\ Raw(pid'.error, pid.integral) < -MaxDecel
         => pid'.integral >= Least(0, pid.integral)

\* The throttle rises by no more than the rate limit, the brake never falls
\* while the car is held, and an emergency never brakes less than before.
ControlsGradual ==
  /\ control'.throttle <= control.throttle + Delta
  /\ decided' # None /\ decided'.mode \in {"hold", "unreachable", "ttc"} => control'.brake >= control.brake

\* After the first plan the target climbs by no more than the comfort ramp, and
\* it is never above what the stop line, the lead, the curve or the posted limit
\* allows, also right after a hold or an alarm.
TargetHonest ==
  /\ lastTarget # None => lastTarget' <= lastTarget + AccelStep
  /\ decided' # None /\ decided'.mode # "ask" =>
       lastTarget' <= decided'.cap /\ (decided'.limit # None => lastTarget' <= decided'.limit)

SpeedSound ==
  [](PermissionsLapse /\ NeverBoth) /\ [][NoWindup /\ ControlsGradual /\ TargetHonest]_speedVars
=============================================================================
