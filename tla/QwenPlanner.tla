---------------------------- MODULE QwenPlanner ----------------------------
(***************************************************************************)
(* What the planner backends of the Qwen service make of a request          *)
(* (src/qwen_service/service.py).  The production backend asks the model    *)
(* for one token, the code of a behaviour, and builds the plan around it;   *)
(* the deterministic backend answers by rules and stands in for the model   *)
(* in tests and demonstrations.  The image, the prompt and the wording of   *)
(* the answer are left out; the token is one of the codes offered, which is *)
(* what structured decoding promises.                                       *)
(*                                                                          *)
(* A step is a record: behaviour, target, lane, speed, the type of    *)
(* its completion (done) with whether that carries a value and a lane, and  *)
(* its preconditions (pre).                                                 *)
(***************************************************************************)
EXTENDS CommandRouting

Codes ==
  {"KEEP_LANE", "SET_SPEED", "SLOW_DOWN", "STOP", "YIELD", "FOLLOW", "CHANGE_LANE_LEFT",
   "CHANGE_LANE_RIGHT", "TURN_LEFT", "TURN_RIGHT", "AVOID_OBSTACLE", "RETURN_TO_LANE",
   "PULL_OVER", "HOLD"}

\* A behaviour without its side, as lists of allowed behaviours name it.
Unsided(b) ==
  CASE b \in {"CHANGE_LANE_LEFT", "CHANGE_LANE_RIGHT"} -> "CHANGE_LANE"
    [] b \in {"TURN_LEFT", "TURN_RIGHT"} -> "TURN"
    [] OTHER -> b
Side(b) ==
  CASE b \in {"CHANGE_LANE_LEFT", "TURN_LEFT"} -> "LEFT"
    [] b \in {"CHANGE_LANE_RIGHT", "TURN_RIGHT"} -> "RIGHT"
    [] OTHER -> None
Permits(r, b) == {b, Unsided(b)} \cap r.allowed # {}
Adjacent(side) == IF side = "LEFT" THEN "LEFT_ADJACENT" ELSE "RIGHT_ADJACENT"
Change(side) == IF side = "LEFT" THEN "CHANGE_LANE_LEFT" ELSE "CHANGE_LANE_RIGHT"
Turn(side) == IF side = "LEFT" THEN "TURN_LEFT" ELSE "TURN_RIGHT"
Gap(side) ==
  IF side = "LEFT" THEN {"LEFT_LANE_EXISTS", "LEFT_GAP_SAFE"} ELSE {"RIGHT_LANE_EXISTS", "RIGHT_GAP_SAFE"}
Opposite(side) == IF side = "LEFT" THEN "RIGHT" ELSE "LEFT"
Least(a, b) == IF a < b THEN a ELSE b

\* An explicit intent leaves the model no other behaviour than a necessary stop.
MeantMutant(r, b) == TRUE
Meant(r, b) ==
  \/ r.intent \notin Configured \/ Unsided(b) = r.intent
  \/ b = "STOP" /\ (r.mustStop \/ r.risk = "EMERGENCY")

\* The codes offered to the model; a direction that is no side leaves both sides open.
Offered(r) ==
  LET sided(b) == r.direction \notin Directions \/ Side(b) \in {None, r.direction}
      left == {b \in Codes : Permits(r, b) /\ Meant(r, b) /\ sided(b)}
  IN  IF r.light = "RED" \/ left = {} THEN {"STOP"} ELSE left

\* The behaviour a token stands for, after the service's own overrides.
Chosen(r, token) ==
  CASE r.mustStop \/ r.light = "RED" -> "STOP"
    [] ~(r.mustStop \/ r.light = "RED") /\ r.disposition = "CONFIRM_SAFE" /\ token # "STOP" -> "HOLD"
    [] OTHER -> token

---------------------------------------------------------------------------
(* One step of the plan.                                                    *)

TargetBehaviours == {"FOLLOW", "AVOID_OBSTACLE", "YIELD", "SLOW_DOWN"}

\* The visible objects a behaviour may be about: the one named if it is visible, else
\* those straight ahead; to follow, a vehicle rather than something unrecognised.
Suitable(r, b, named) ==
  LET rel(o) == Relation(o)
      pick(test(_)) == SelectSeq(r.targets, test)
      named_(o) == o.id = named
      centred(o) == rel(o).along = "ahead" /\ rel(o).across = "center"
      fitting == IF pick(named_) # <<>> THEN pick(named_) ELSE pick(centred)
      typed(o) == o.class \in {"vehicle", "cyclist"}
      generic(o) == o.class \in {"unknown", "obstacle"}
  IN  CASE b # "FOLLOW" -> fitting
        [] b = "FOLLOW" /\ SelectSeq(fitting, typed) # <<>> -> SelectSeq(fitting, typed)
        [] OTHER -> SelectSeq(fitting, generic)

\* The target bound to a step: the nearest that suits; a name the sensors do not know
\* only if the simulator vouches for it.
Bound(r, b, named) ==
  LET suits == Suitable(r, b, named)
  IN  CASE b \notin TargetBehaviours -> None
        [] b \in TargetBehaviours /\ suits # <<>> -> suits[1].id
        [] b \in TargetBehaviours /\ suits = <<>> /\ named = None /\ b # "FOLLOW" ->
             IF r.targets = <<>> THEN None ELSE r.targets[1].id
        [] OTHER -> IF named \in r.road.grounded THEN named ELSE None

Wheresoever(r, b) ==
  CASE b \in {"TURN_LEFT", "TURN_RIGHT"} -> "ROUTE_BRANCH"
    [] b \in {"CHANGE_LANE_LEFT", "CHANGE_LANE_RIGHT"} -> Adjacent(Side(b))
    [] b = "AVOID_OBSTACLE" /\ r.direction \in Directions -> Adjacent(r.direction)
    [] b = "PULL_OVER" -> "SHOULDER"
    [] OTHER -> "CURRENT"

Within(r, speed) == Least(speed, r.maxSpeed)

Pace(r, b, asked) ==
  CASE b \in {"STOP", "HOLD", "PULL_OVER", "YIELD"} -> 0
    [] b = "SLOW_DOWN" -> IF r.intent = "SLOW_DOWN" /\ asked # None THEN Within(r, asked)
                          ELSE Within(r, 3)
    [] b = "SET_SPEED" /\ asked = None -> None
    [] OTHER -> Within(r, IF asked = None THEN 3 ELSE asked)

\* How a step ends; a watched slow-down ends when its target has been passed.
Ending(r, b, target) ==
  CASE b \in {"STOP", "PULL_OVER"} -> "STOPPED"
    [] b \in {"HOLD", "KEEP_LANE", "YIELD"} -> "HOLD_FRAMES"
    [] b = "FOLLOW" -> "TARGET_GAP_REACHED"
    [] b = "AVOID_OBSTACLE" -> "TARGET_PASSED"
    [] b \in {"RETURN_TO_LANE", "CHANGE_LANE_LEFT", "CHANGE_LANE_RIGHT"} -> "LANE_CENTERED"
    [] b \in {"TURN_LEFT", "TURN_RIGHT"} -> "JUNCTION_EXITED"
    [] b = "SLOW_DOWN" ->
         IF "observe" \in r.words /\ target # None /\ "merge" \notin r.words
         THEN "TARGET_PASSED" ELSE "SPEED_BELOW"
    [] OTHER -> "SPEED_REACHED"

Step(r, b, named, asked) ==
  LET target == Bound(r, b, named)
      done == Ending(r, b, target)
      pace == Pace(r, b, asked)
  IN  [behaviour |-> b, target |-> target, lane |-> Wheresoever(r, b), speed |-> pace, done |-> done,
       valued |-> \/ done \in {"STOPPED", "TARGET_GAP_REACHED", "SPEED_BELOW"}
                  \/ done = "SPEED_REACHED" /\ pace # None
                  \/ done = "TARGET_PASSED" /\ b = "SLOW_DOWN",
       laned |-> done = "LANE_CENTERED", pre |-> {"PERCEPTION_FRESH"}]

\* The pedestrian an overtake yields to.
Walker(r) ==
  LET walkers == SelectSeq(r.targets, LAMBDA o : o.class = "pedestrian")
  IN  IF walkers = <<>> THEN None ELSE walkers[1].id

\* The steps of the whole command: yield to a pedestrian before an overtake, come
\* back after an avoidance, drive on after either if the text says so.
Expanded(r, b) ==
  LET careful == {"PERCEPTION_FRESH", "NO_EMERGENCY_RISK"}
      yields == b = "AVOID_OBSTACLE" /\ {"pedestrian", "overtake", "order"} \subseteq r.words
      main == Step(r, b, r.target, r.speed)
      resumes == b \in {"AVOID_OBSTACLE", "SLOW_DOWN", "YIELD"} /\ "resume" \in r.words
      cruise == IF r.maxSpeed = 0 THEN 3 ELSE r.maxSpeed
  IN  (IF yields THEN <<Step(r, "YIELD", Walker(r), r.speed), [main EXCEPT !.pre = careful]>>
       ELSE <<main>>)
      \o (IF b = "AVOID_OBSTACLE" THEN <<Step(r, "RETURN_TO_LANE", r.target, r.speed)>> ELSE <<>>)
      \o (IF resumes THEN <<[Step(r, "KEEP_LANE", None, cruise) EXCEPT !.pre = careful]>> ELSE <<>>)

\* The production backend raises an error for a token it was not allowed, or plans for it.
PlannerFails(r, token) == Chosen(r, token) # "HOLD" /\ ~Permits(r, Chosen(r, token))
PlannerAnswers(r, token) == [steps |-> Expanded(r, Chosen(r, token)), sure |-> TRUE, confirm |-> FALSE]

---------------------------------------------------------------------------
(* The deterministic backend.                                               *)

Ruled(b, speed, target, lane, done, valued) ==
  [behaviour |-> b, target |-> target, lane |-> lane, speed |-> speed, done |-> done,
   valued |-> valued, laned |-> done = "LANE_CENTERED", pre |-> {"PERCEPTION_FRESH", "NO_EMERGENCY_RISK"}]

\* The steps of its rules; none where no rule fits.
RuledSteps(r) ==
  LET most == IF r.maxSpeed = 0 THEN 4 ELSE r.maxSpeed
      slow == Least(3, most)
      asked == IF r.speed = None THEN Least(4, most) ELSE Least(r.speed, most)
      closest == IF r.targets = <<>> THEN None ELSE r.targets[1].id
      lane(side) == side \in Directions /\ (IF side = "LEFT" THEN r.road.left ELSE r.road.right)
      wanted == IF r.direction \in Directions THEN r.direction ELSE "LEFT"
      either == IF r.road.left THEN "LEFT" ELSE IF r.road.right THEN "RIGHT" ELSE None
      needs(step, more) == [step EXCEPT !.pre = @ \cup more]
      around(side, speed, more) ==
        <<needs(Ruled("AVOID_OBSTACLE", slow, closest, Adjacent(side), "TARGET_PASSED", FALSE), more),
          Ruled("RETURN_TO_LANE", speed, None, "CURRENT", "LANE_CENTERED", FALSE)>>
      turn(side) == needs(Ruled(Turn(side), slow, None, "ROUTE_BRANCH", "JUNCTION_EXITED", FALSE),
                          {"ROUTE_AVAILABLE", "INTERSECTION_AHEAD"})
      cruise == Ruled("SET_SPEED", Least(4, most), None, "CURRENT", "SPEED_REACHED", TRUE)
  IN  CASE r.mustStop \/ r.intent \in {"STOP", "EMERGENCY_STOP"} ->
             <<Ruled("STOP", 0, None, "CURRENT", "STOPPED", FALSE)>>
        [] ~r.mustStop /\ r.intent = "KEEP_LANE" ->
             <<Ruled("KEEP_LANE", asked, None, "CURRENT", "HOLD_FRAMES", FALSE)>>
        [] ~r.mustStop /\ r.intent = "SET_SPEED" ->
             <<Ruled("SET_SPEED", asked, None, "CURRENT", "SPEED_REACHED", TRUE)>>
        [] ~r.mustStop /\ r.intent = "SLOW_DOWN" ->
             <<Ruled("SLOW_DOWN", Least(asked, slow), None, "CURRENT", "SPEED_BELOW", TRUE)>>
        [] ~r.mustStop /\ r.intent = "CHANGE_LANE" /\ lane(r.direction) ->
             <<Ruled(Change(r.direction), asked, None, Adjacent(r.direction),
                     "LANE_CENTERED", FALSE)>>
        [] ~r.mustStop /\ r.intent = "AVOID_OBSTACLE" /\ lane(wanted) /\ closest # None ->
             around(wanted, asked, {})
        [] ~r.mustStop /\ r.intent = "TURN" /\ r.direction = "RIGHT" ->
             <<Ruled("SLOW_DOWN", slow, None, "CURRENT", "SPEED_BELOW", TRUE), turn("RIGHT")>>
             \o (IF "pace" \in r.words THEN <<cruise>> ELSE <<>>)
        [] ~r.mustStop /\ r.intent = "TURN" /\ r.direction = "LEFT" -> <<turn("LEFT")>>
        [] ~r.mustStop /\ r.intent = "FOLLOW" /\ Len(r.targets) = 1 ->
             <<needs(Ruled("FOLLOW", Least(4, most), closest, "CURRENT", "TARGET_GAP_REACHED", TRUE),
                     {"TARGET_VISIBLE"})>>
        [] ~r.mustStop /\ r.intent = "UNKNOWN" /\ "evade" \in r.words /\ closest # None
             /\ either # None -> around(either, slow, {"TARGET_VISIBLE"} \cup Gap(either))
        [] OTHER -> <<>>

\* Where no rule fits it holds and asks.
RuledPlan(r) ==
  IF RuledSteps(r) = <<>>
  THEN [steps |-> <<Ruled("HOLD", None, None, "CURRENT", "HOLD_FRAMES", FALSE)>>,
        sure |-> FALSE, confirm |-> TRUE]
  ELSE [steps |-> RuledSteps(r), sure |-> TRUE, confirm |-> FALSE]

===========================================================================
