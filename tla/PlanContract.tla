---------------------------- MODULE PlanContract ----------------------------
(***************************************************************************)
(* What a plan must satisfy before the vehicle may act on it, and what it   *)
(* becomes: PlanValidator.validate (src/runtime/plan_validator.py),         *)
(* PlanCompiler.compile (src/runtime/plan_compiler.py) and the conversion   *)
(* of the first compiled step into a command for the vehicle runtime.       *)
(*                                                                          *)
(* A setting is what a plan is judged against: stale, the ids of the        *)
(* targets, the adjacent lanes known to exist (None when nothing is known), *)
(* the facts a precondition may ask for, the speed limit and mustStop.      *)
(***************************************************************************)
EXTENDS QwenPlanner

AdvancingMutant == Codes \ {"STOP", "YIELD", "HOLD", "KEEP_LANE"}
Advancing == Codes \ {"STOP", "YIELD", "HOLD"}
Facts ==
  {"LEFT_LANE_EXISTS", "RIGHT_LANE_EXISTS", "LEFT_GAP_SAFE", "RIGHT_GAP_SAFE", "ROUTE_AVAILABLE",
   "INTERSECTION_AHEAD", "STOP_LINE_CLEAR"}
Lanes(road) ==
  IF ~road.observed THEN None
  ELSE {"CURRENT"} \cup (IF road.left THEN {"LEFT_ADJACENT"} ELSE {})
                   \cup (IF road.right THEN {"RIGHT_ADJACENT"} ELSE {})

\* What the vehicle's worker judges a plan against: the scene the request was made from.
WorkerSettingMutant(r, s) ==
  [stale |-> s.stale, targets |-> {s.objects[i].id : i \in DOMAIN s.objects},
   lanes |-> Lanes(r.road), facts |-> IF r.road.observed THEN Facts ELSE {},
   limit |-> r.maxSpeed, mustStop |-> r.mustStop \/ s.risk = "EMERGENCY"]
WorkerSetting(r, s) ==
  [stale |-> s.stale, targets |-> {s.objects[i].id : i \in DOMAIN s.objects} \cup r.road.grounded,
   lanes |-> Lanes(r.road), facts |-> IF r.road.observed THEN Facts ELSE {},
   limit |-> r.maxSpeed, mustStop |-> r.mustStop \/ s.risk = "EMERGENCY"]

\* What the service judges it against: all it knows is the request.
ServiceSetting(r, maximum) ==
  [stale |-> FALSE, targets |-> {r.targets[i].id : i \in DOMAIN r.targets} \cup r.road.grounded,
   lanes |-> Lanes(r.road), facts |-> IF r.road.observed THEN Facts ELSE {},
   limit |-> IF r.limit = None THEN maximum ELSE Least(r.limit, maximum),
   mustStop |-> r.mustStop \/ r.risk = "EMERGENCY"]

\* Which ways of ending a step a behaviour may have.
EndingsOf(b) ==
  CASE b \in {"TURN_LEFT", "TURN_RIGHT"} -> {"JUNCTION_EXITED"}
    [] b \in {"CHANGE_LANE_LEFT", "CHANGE_LANE_RIGHT"} -> {"LANE_CENTERED"}
    [] b = "STOP" -> {"STOPPED", "SPEED_BELOW"}
    [] b = "FOLLOW" -> {"TARGET_GAP_REACHED", "HOLD_FRAMES"}
    [] b = "YIELD" -> {"HOLD_FRAMES"}
    [] b = "PULL_OVER" -> {"STOPPED", "LANE_CENTERED"}
    [] OTHER -> {"SPEED_BELOW", "SPEED_REACHED", "LANE_CENTERED", "JUNCTION_EXITED",
                 "TARGET_GAP_REACHED", "TARGET_PASSED", "STOPPED", "HOLD_FRAMES"}

\* The faults a step's completion alone can have.
EndingFaults(step) ==
  {f \in {"COMPLETION_VALUE_REQUIRED", "COMPLETION_LANE_REQUIRED", "COMPLETION_BEHAVIOR_MISMATCH"} :
    CASE f = "COMPLETION_VALUE_REQUIRED" ->
           step.done \in {"SPEED_BELOW", "SPEED_REACHED", "TARGET_GAP_REACHED"} /\ ~step.valued
      [] f = "COMPLETION_LANE_REQUIRED" -> step.done = "LANE_CENTERED" /\ ~step.laned
      [] OTHER -> step.done \notin EndingsOf(step.behaviour)}

\* The faults a step has in a setting; the code reports the first, any refuses the plan.
StepFaults(step, setting) ==
  LET fault(name, broken) == IF broken THEN {name} ELSE {}
      beside == step.lane \in {"LEFT_ADJACENT", "RIGHT_ADJACENT", "SHOULDER"}
      changes == step.behaviour \in {"CHANGE_LANE_LEFT", "CHANGE_LANE_RIGHT"}
  IN  fault("MUST_STOP_PROPULSION_FORBIDDEN", setting.mustStop /\ step.behaviour \in Advancing)
      \cup fault("TARGET_NOT_FOUND", step.target # None /\ step.target \notin setting.targets)
      \cup fault("TARGET_REQUIRED",
                 step.behaviour \in {"FOLLOW", "AVOID_OBSTACLE"} /\ step.target = None)
      \cup fault("SPEED_LIMIT_EXCEEDED", step.speed # None /\ step.speed > setting.limit)
      \cup fault("TARGET_SPEED_REQUIRED",
                 step.behaviour \in {"SET_SPEED", "SLOW_DOWN", "FOLLOW"} /\ step.speed = None)
      \cup fault("TARGET_LANE_MISMATCH", changes /\ step.lane # Adjacent(Side(step.behaviour)))
      \cup fault("LANE_CONTEXT_MISSING", beside /\ setting.lanes = None)
      \cup fault("TARGET_LANE_UNAVAILABLE",
                 beside /\ setting.lanes # None /\ step.lane \notin setting.lanes)
      \cup fault("PRECONDITION_UNOBSERVABLE", (step.pre \cap Facts) \ setting.facts # {})
      \cup EndingFaults(step)

PlanFaults(plan, setting, mayAsk) ==
  (IF ~mayAsk /\ (~plan.sure \/ plan.confirm) THEN {"PLAN_CONFIRMATION_REQUIRED"} ELSE {})
  \cup (IF setting.stale THEN {"PERCEPTION_STALE"} ELSE {})
  \cup UNION {StepFaults(plan.steps[i], setting) : i \in DOMAIN plan.steps}

---------------------------------------------------------------------------
(* The compiler.  A compiled step keeps what the vehicle needs of it.       *)

Copy(step) == [behaviour |-> step.behaviour, target |-> step.target, lane |-> step.lane,
               speed |-> step.speed, pre |-> step.pre, done |-> step.done]

CompileChangeMutant(step) == <<Copy(step)>>

\* An ordinary lane change waits for its gap first and keeps asking for it.
CompileChange(step) ==
  LET side == Side(step.behaviour)
      gated == step.pre \cup {"PERCEPTION_FRESH"} \cup Gap(side)
      move == [Copy(step) EXCEPT !.lane = Adjacent(side), !.pre = gated]
  IN  <<[move EXCEPT !.behaviour = "WAIT_SAFE_GAP", !.done = "HOLD_FRAMES"], move>>

\* The side an avoidance takes: the one planned, else one the road has.
AvoidSide(step, road) ==
  CASE step.lane = "LEFT_ADJACENT" -> "LEFT"
    [] step.lane = "RIGHT_ADJACENT" -> "RIGHT"
    [] OTHER -> IF road.observed /\ road.left THEN "LEFT"
                ELSE IF road.observed /\ road.right THEN "RIGHT" ELSE None

CompileAvoid(step, side) ==
  LET go == [Copy(step) EXCEPT !.lane = Adjacent(side)]
      gated == step.pre \cup Gap(side)
  IN  <<[go EXCEPT !.behaviour = "SLOW_DOWN", !.speed = IF step.speed = None THEN 3 ELSE step.speed,
                   !.pre = step.pre \cup {"PERCEPTION_FRESH"}, !.done = "SPEED_BELOW"],
        [go EXCEPT !.behaviour = "WAIT_SAFE_GAP", !.pre = gated, !.done = "HOLD_FRAMES"],
        [go EXCEPT !.behaviour = Change(side), !.pre = gated, !.done = "LANE_CENTERED"],
        [go EXCEPT !.behaviour = "PASS_TARGET", !.done = "TARGET_PASSED",
                   !.pre = {"PERCEPTION_FRESH", "TARGET_VISIBLE", "NO_EMERGENCY_RISK"}]>>

\* The way back asks for its gap only while it waits: once it moves the lane is its own.
CompileReturn(step, side) ==
  LET back == [Copy(step) EXCEPT !.lane = "CURRENT"]
      careful == step.pre \cup {"PERCEPTION_FRESH", "NO_EMERGENCY_RISK"}
  IN  <<[back EXCEPT !.behaviour = "WAIT_SAFE_GAP", !.pre = careful \cup Gap(side),
                     !.done = "HOLD_FRAMES"],
        [back EXCEPT !.behaviour = Change(side), !.done = "LANE_CENTERED",
                     !.pre = careful \ (Gap("LEFT") \cup Gap("RIGHT"))]>>

\* The steps compiled so far and the side a return would take, after one more step;
\* ok turns FALSE at a ValueError.
AddStep(acc, step, road) ==
  LET with(more, back) == [ok |-> TRUE, steps |-> acc.steps \o more, back |-> back]
      failed == [ok |-> FALSE, steps |-> acc.steps, back |-> acc.back]
      around(side) == IF side = None THEN failed ELSE with(CompileAvoid(step, side), Opposite(side))
      return(side) == IF side = None THEN failed ELSE with(CompileReturn(step, side), None)
  IN  CASE ~acc.ok -> acc
        [] acc.ok /\ step.behaviour = "AVOID_OBSTACLE" -> around(AvoidSide(step, road))
        [] acc.ok /\ step.behaviour = "RETURN_TO_LANE" -> return(acc.back)
        [] acc.ok /\ Unsided(step.behaviour) = "CHANGE_LANE" -> with(CompileChange(step), acc.back)
        [] OTHER -> with(<<Copy(step)>>, acc.back)

\* What has been compiled after each number of steps.
Compilation(steps, road) ==
  LET after[n \in 0..Len(steps)] ==
        IF n = 0 THEN [ok |-> TRUE, steps |-> <<>>, back |-> None]
        ELSE AddStep(after[n - 1], steps[n], road)
  IN  after

Compiled(steps, road) == Compilation(steps, road)[Len(steps)]

---------------------------------------------------------------------------
(* The command for the vehicle.                                             *)

\* The first behaviour must be one the request allowed, unless the vehicle stands.
Forbidden(r, b) == b \notin {"HOLD", "STOP"} /\ ~Permits(r, b)

\* The first compiled step as the orchestrator hands it over.
PlanControl(first, r) ==
  [behaviour |-> IF first.behaviour \in {"WAIT_SAFE_GAP", "PASS_TARGET"} THEN "HOLD" ELSE first.behaviour,
   target |-> first.target,
   speed |-> IF first.speed = None THEN None ELSE Least(first.speed, r.maxSpeed)]

\* What the vehicle runtime is told to do, or None for what it cannot execute.
Envelope(control) ==
  LET b == control.behaviour
      says(intent, speed, side) == [intent |-> intent, speed |-> speed, direction |-> side]
  IN  CASE b \in {"SET_SPEED", "SLOW_DOWN", "YIELD"} ->
             IF control.speed = None THEN None
             ELSE says(IF b = "SET_SPEED" THEN b ELSE "SLOW_DOWN", control.speed, None)
        [] b = "FOLLOW" -> IF control.speed = None THEN says("KEEP_LANE", None, None)
                           ELSE says("SLOW_DOWN", control.speed, None)
        [] b \in {"STOP", "HOLD"} -> says("STOP", None, None)
        [] b \in {"KEEP_LANE", "PULL_OVER"} -> says(b, None, None)
        [] b \in {"TURN_LEFT", "TURN_RIGHT", "CHANGE_LANE_LEFT", "CHANGE_LANE_RIGHT"} ->
             says(Unsided(b), None, Side(b))
        [] OTHER -> None

===========================================================================
