---------------------------- MODULE PlanPipeline ----------------------------
(***************************************************************************)
(* One command on its way through planning: the orchestrator routes it and  *)
(* builds the request, a backend answers, the service and then the vehicle's*)
(* worker judge the plan, the worker compiles it, the orchestrator consumes *)
(* it and the bridge dispatches its first step in the scene of that later   *)
(* moment.  SlowPath and FrameLoop model when these stages run and what     *)
(* happens when they are late; this module models what passes through them. *)
(***************************************************************************)
EXTENDS PlanContract

CONSTANTS Situations,    \* [backend, command, scene, lanes]: what may be spoken, and where
          FreePlans,     \* plans a generating backend may write
          Sightings,     \* sets of targets that may be visible when the answer arrives
          TopK, MaxSpeed

\* How a command can come out of planning.
Reasons ==
  {"MODEL_ERROR", "QWEN_ERROR", "QWEN_PLAN_REJECTED", "QWEN_PLAN_INFEASIBLE", "QWEN_TARGET_STALE",
   "QWEN_BEHAVIOR_UNSUPPORTED", "DISPATCHED"}

\* What is not there is no number, name or order; where no lane is observed none is known;
\* and a generated plan is one the plan schema lets through: steps of known behaviours.
ASSUME NoneApart ==
  /\ None \notin Int \cup Directions \cup Reasons
  /\ None \notin [intent : Configured, speed : Int \cup {None}, direction : Directions \cup {None}]
ASSUME LimitAssumption == TopK \in Nat /\ MaxSpeed \in Nat
ASSUME SituationAssumption ==
  \A g \in Situations :
    /\ g.command.intent \in AtomicIntents \cup ManeuverIntents \cup {"UNKNOWN"}
    /\ g.command.direction \in Directions \cup {"STRAIGHT", None} /\ g.command.speed \in Nat \cup {None}
    /\ g.scene.limit \in Nat \cup {None}
    /\ g.scene.objects \in Seq(Range(g.scene.objects)) /\ \A o \in Range(g.scene.objects) : o.distance \in Int
    /\ g.lanes.observed \in BOOLEAN /\ (~g.lanes.observed => ~g.lanes.left /\ ~g.lanes.right)
ASSUME PlanAssumption ==
  \A p \in FreePlans :
    p.steps \in Seq(Range(p.steps)) \ {<<>>} /\ \A step \in Range(p.steps) : step.behaviour \in Codes

VARIABLES given,      \* the situation
          stage,      \* how far the command has come
          request, plan, steps, control,
          faults,     \* why the plan was refused
          outcome,    \* the reason code
          told        \* what the vehicle runtime was told

pipeVars == <<given, stage, request, plan, steps, control, faults, outcome, told>>

\* What the runner knows of the lanes: a lane is free unless something stands beside.
Road(lanes, s, named) ==
  LET beside(o, side) == o.distance < 250 /\ (IF side = "LEFT" THEN o.y > 7 ELSE o.y < -7)
      free(side) == ~\E i \in DOMAIN s.objects : beside(s.objects[i], side)
  IN  [observed |-> lanes.observed, left |-> lanes.left, right |-> lanes.right,
       leftGap |-> lanes.left /\ free("LEFT"), rightGap |-> lanes.right /\ free("RIGHT"),
       grounded |-> {named} \cap lanes.owned]

PipeInit ==
  /\ given \in Situations
  /\ stage = "spoken" /\ request = None /\ plan = None /\ steps = None /\ control = None
  /\ faults = {} /\ outcome = None /\ told = None

End(reason, why) ==
  /\ stage' = "done" /\ outcome' = reason /\ faults' = why

Ask ==
  /\ stage = "spoken" /\ stage' = "asked"
  /\ request' = ModelRequest(given.command, given.scene,
                             Road(given.lanes, given.scene, given.command.target), TopK, MaxSpeed)
  /\ UNCHANGED <<given, plan, steps, control, faults, outcome, told>>

Take(answer) ==
  /\ plan' = answer /\ stage' = "planned"
  /\ UNCHANGED <<given, request, steps, control, faults, outcome, told>>

PlannerReplies ==
  /\ stage = "asked" /\ given.backend = "vllm"
  /\ \E token \in Offered(request) :
       IF PlannerFails(request, token)
       THEN End("MODEL_ERROR", {}) /\ UNCHANGED <<given, request, plan, steps, control, told>>
       ELSE Take(PlannerAnswers(request, token))
RulesReply == stage = "asked" /\ given.backend = "rules" /\ Take(RuledPlan(request))
ModelWrites == stage = "asked" /\ given.backend = "free" /\ \E p \in FreePlans : Take(p)

\* The service judges by the request, and lets a plan that asks for confirmation through.
Serve ==
  LET found == PlanFaults(plan, ServiceSetting(request, MaxSpeed), TRUE)
  IN  /\ stage = "planned"
      /\ IF found # {} THEN End("QWEN_ERROR", found)
         ELSE stage' = "served" /\ UNCHANGED <<faults, outcome>>
      /\ UNCHANGED <<given, request, plan, steps, control, told>>

\* The worker judges by the scene the request was made from, then compiles.
Accept ==
  LET found == PlanFaults(plan, WorkerSetting(request, given.scene), FALSE)
      compiled == Compiled(plan.steps, request.road)
  IN  /\ stage = "served"
      /\ IF found # {} THEN End("QWEN_PLAN_REJECTED", found) /\ UNCHANGED steps
         ELSE IF ~compiled.ok THEN End("QWEN_ERROR", {"NO_DIRECTION"}) /\ UNCHANGED steps
         ELSE stage' = "accepted" /\ steps' = compiled.steps /\ UNCHANGED <<faults, outcome>>
      /\ UNCHANGED <<given, request, plan, control, told>>

Consume ==
  LET order == PlanControl(steps[1], request)
  IN  /\ stage = "accepted"
      /\ IF Forbidden(request, order.behaviour) THEN End("QWEN_PLAN_INFEASIBLE", {"NOT_ALLOWED"}) /\ UNCHANGED control
         ELSE stage' = "ready" /\ control' = order /\ UNCHANGED <<faults, outcome>>
      /\ UNCHANGED <<given, request, plan, steps, told>>

\* The bridge looks once more for the target, unless the vehicle is only to stand.
Dispatch ==
  /\ stage = "ready"
  /\ \E seen \in Sightings :
       LET lost == /\ control.behaviour \notin {"STOP", "HOLD"} /\ control.target # None
                   /\ control.target \notin seen \cup request.road.grounded
       IN  /\ End(CASE lost -> "QWEN_TARGET_STALE"
                        [] ~lost /\ Envelope(control) = None -> "QWEN_BEHAVIOR_UNSUPPORTED"
                        [] OTHER -> "DISPATCHED", {})
           /\ told' = IF outcome' = "DISPATCHED" THEN Envelope(control) ELSE None
  /\ UNCHANGED <<given, request, plan, steps, control>>

PipeNext ==
  \/ Ask \/ PlannerReplies \/ RulesReply \/ ModelWrites \/ Serve \/ Accept \/ Consume \/ Dispatch

PipeSpec == PipeInit /\ [][PipeNext]_pipeVars

---------------------------------------------------------------------------

Obeyed == outcome = "DISPATCHED"
Stands == told.intent = "STOP" \/ told.speed = 0
Behaviours == {steps[i].behaviour : i \in DOMAIN steps}

\* Whatever wrote the plan, a command that must end in a stop is never turned into
\* driving: the first order stands still and no later step advances.
StopMeansStop ==
  Obeyed /\ request.mustStop => /\ Stands
                                /\ Behaviours \subseteq {"STOP", "HOLD", "YIELD"}

\* A command that has to be confirmed is answered by standing still, and the
\* production backend plans nothing beyond that.
ConfirmIsHeld ==
  Obeyed /\ request.disposition = "CONFIRM_SAFE" =>
    /\ Stands
    /\ given.backend = "vllm" => Behaviours \subseteq {"STOP", "HOLD"}

\* Where the vehicle must stop or the light is red, and the sensors work, the
\* production backend's answer is never lost to a check: the vehicle is told to stop.
StopIsNeverRefused ==
  stage = "done" /\ given.backend = "vllm" /\ ~given.scene.stale
    /\ (request.mustStop \/ request.light = "RED") => Obeyed /\ told.intent = "STOP"

\* Every lane change of a compiled plan, the way back included, directly follows a
\* wait for the gap on its own side, whoever wrote the plan.
GapBeforeLaneChange ==
  steps # None =>
    \A i \in DOMAIN steps : \A side \in Directions : steps[i].behaviour = Change(side) =>
      i > 1 /\ steps[i - 1].behaviour = "WAIT_SAFE_GAP" /\ Gap(side) \subseteq steps[i - 1].pre

\* A return to the lane goes to the other side than the avoidance before it, and
\* there is no return without an avoidance.
BackToOwnLane ==
  steps # None =>
    \A j \in DOMAIN steps : Unsided(steps[j].behaviour) = "CHANGE_LANE" /\ steps[j].lane = "CURRENT" =>
      \E i \in 1..(j - 1) :
        /\ steps[i].behaviour = "PASS_TARGET"
        /\ steps[i].lane # Adjacent(Side(steps[j].behaviour))
        /\ \A k \in (i + 1)..(j - 1) : steps[k].behaviour # "PASS_TARGET"

\* The production backend's plan of a command with its parameters is never refused
\* for its form: only the scene can refuse it.  (A plain "start" is not such a
\* command: SET_SPEED is offered to the model for it, and refused without a speed.)
FormNeverRefused ==
  given.backend = "vllm" /\ given.command.intent \in Configured /\ ParametersComplete(given.command) =>
    /\ outcome \notin {"MODEL_ERROR", "QWEN_PLAN_INFEASIBLE", "QWEN_BEHAVIOR_UNSUPPORTED"}
    /\ faults \cap {"TARGET_SPEED_REQUIRED", "SPEED_LIMIT_EXCEEDED", "TARGET_LANE_MISMATCH",
                     "COMPLETION_VALUE_REQUIRED", "COMPLETION_LANE_REQUIRED",
                     "COMPLETION_BEHAVIOR_MISMATCH"} = {}
    /\ "NO_DIRECTION" \in faults => ~request.road.left /\ ~request.road.right

\* A plan the service let through is refused by the worker only for what the service
\* cannot judge: stale sensors, or confirmation asked of somebody.
ServiceAndWorkerAgree ==
  outcome = "QWEN_PLAN_REJECTED" => faults \subseteq {"PERCEPTION_STALE", "PLAN_CONFIRMATION_REQUIRED"}

\* The production backend does what was said: a clear intent is carried out, to the
\* side that was named, unless a stop or a confirmation stands against it.  (A turn
\* that is to go straight on is not to a side: both turns are offered to the model.)
IntentKept ==
  Obeyed /\ given.backend = "vllm" /\ ~request.mustStop /\ request.light # "RED"
    /\ request.disposition = "QWEN_PLAN" /\ request.intent \in Configured /\ request.risk # "EMERGENCY" =>
    /\ \E i \in DOMAIN plan.steps : Unsided(plan.steps[i].behaviour) = request.intent
    /\ request.direction \in Directions =>
         \A i \in DOMAIN steps : steps[i].lane # "CURRENT" => Side(steps[i].behaviour) \in {None, request.direction}

\* Nothing between the speaker and the vehicle turns a stop into driving, asks the vehicle
\* to move before a confirmation, or loses a stop that the scene demands.
StopsAreObeyed == StopMeansStop /\ ConfirmIsHeld /\ StopIsNeverRefused

\* Whoever wrote the plan, the vehicle leaves its lane only behind a gap on that side and
\* comes back to the side it came from.
LaneChangesAreGuarded == GapBeforeLaneChange /\ BackToOwnLane

\* What is refused is refused because of the scene: neither the form of the production
\* backend's plan nor a disagreement of service and worker loses a command.
RefusedForTheScene == FormNeverRefused /\ ServiceAndWorkerAgree
===========================================================================
