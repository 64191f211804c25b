-------------------------- MODULE CommandRouting --------------------------
(***************************************************************************)
(* What happens to a driving command before it is sent to Qwen: the         *)
(* complexity router (src/runtime/complexity_router.py) and the request the *)
(* orchestrator builds from command, scene and road                         *)
(* (src/runtime/orchestrator.py).  All of it is a function of its inputs.   *)
(*                                                                          *)
(* A command is a record: intent, direction, speed and target of the parsed *)
(* envelope; mentions, the actions whose pattern its text matches; words,   *)
(* the other patterns it matches; seeks, the class of object it names;      *)
(* sure and confirm, whether its confidence reaches the threshold and       *)
(* whether it asks for confirmation.  Lengths are in decimetres, speeds in  *)
(* metres per second.                                                       *)
(***************************************************************************)
EXTENDS Integers, Sequences, FiniteSets, SequencesExt, Absent

\* The sides a command may name; "STRAIGHT" is a direction of a command too, but no side.
Directions == {"LEFT", "RIGHT"}

\* The behaviours a deployment lets the model choose from.
Configured ==
  {"KEEP_LANE", "SET_SPEED", "SLOW_DOWN", "STOP", "YIELD", "FOLLOW", "CHANGE_LANE", "TURN",
   "AVOID_OBSTACLE", "RETURN_TO_LANE", "PULL_OVER"}

AtomicIntents == {"START", "STOP", "EMERGENCY_STOP", "SET_SPEED", "SLOW_DOWN", "KEEP_LANE"}
ManeuverIntents == {"FOLLOW", "YIELD", "CHANGE_LANE", "TURN", "PULL_OVER", "AVOID_OBSTACLE"}
ManeuverActions ==
  {"FOLLOW", "YIELD", "TURN_LEFT", "TURN_RIGHT", "CHANGE_LANE_LEFT", "CHANGE_LANE_RIGHT",
   "AVOID_OBSTACLE", "RETURN_TO_LANE", "PULL_OVER"}

---------------------------------------------------------------------------
(* The router.                                                              *)

\* The action an intent stands for, unless the text already names its side.
IntentAction(intent, found) ==
  CASE intent = "EMERGENCY_STOP" -> {"STOP"}
    [] intent = "TURN" -> IF found \cap {"TURN_LEFT", "TURN_RIGHT"} = {} THEN {"TURN"} ELSE {}
    [] intent = "CHANGE_LANE" ->
         IF found \cap {"CHANGE_LANE_LEFT", "CHANGE_LANE_RIGHT"} = {} THEN {"CHANGE_LANE"} ELSE {}
    [] intent = "UNKNOWN" -> {}
    [] OTHER -> {intent}

\* The actions of a command: a speed named in "slow down to" is no action of its own.
Actions(c) ==
  LET found == c.mentions \cup IntentAction(c.intent, c.mentions)
  IN  IF "SLOW_DOWN" \in found THEN found \ {"SET_SPEED"} ELSE found

ParametersComplete(c) ==
  CASE c.intent = "SET_SPEED" -> c.speed # None
    [] c.intent \in {"TURN", "CHANGE_LANE"} -> c.direction # None
    [] OTHER -> c.intent # "UNKNOWN"

\* How many objects of the scene the command may mean.
Candidates(c, s) ==
  CASE c.target # None -> Cardinality({i \in DOMAIN s.objects : s.objects[i].id = c.target})
    [] c.target = None /\ "visual" \notin c.words -> 0
    [] OTHER -> Cardinality({i \in DOMAIN s.objects : c.seeks \in {None, s.objects[i].class}})

SceneConflict(c, s) ==
  \/ "illegal" \in c.words
  \/ s.light \in {"RED", "YELLOW"} /\ "go" \in c.words /\ "STOP" \notin c.mentions

RequiresManeuver(c) == c.intent \in ManeuverIntents \/ Actions(c) \cap ManeuverActions # {}

SafeWait(s) ==
  CASE s.risk = "EMERGENCY" -> "EMERGENCY_STOP"
    [] s.risk # "EMERGENCY" /\ (s.stale \/ s.risk \in {"HIGH", "UNKNOWN"}) -> "STOP"
    [] ~s.stale /\ s.risk = "CAUTION" -> "SLOW_DOWN"
    [] OTHER -> "KEEP_LANE_LIMITED"

Score(c, s) ==
  LET points(p, n) == IF p THEN n ELSE 0
  IN  points(Cardinality(Actions(c)) >= 2, 3) + points(c.words \cap {"sequence", "condition"} # {}, 3)
      + points("visual" \in c.words \/ Candidates(c, s) > 1, 3) + points(RequiresManeuver(c), 2)
      + points(SceneConflict(c, s), 2) + points(~ParametersComplete(c), 1)

Urgent(c, s) == c.intent \in {"STOP", "EMERGENCY_STOP"} \/ s.risk = "EMERGENCY"

\* The gates that ask for confirmation whatever the command's complexity.
Gated(c, s) ==
  \/ s.stale \/ ~s.stateValid
  \/ c.words \cap {"illegal", "ambiguous"} # {}
  \/ "visual" \in c.words /\ Candidates(c, s) > 1

ClearAtomic(c, s) ==
  /\ c.intent \in AtomicIntents /\ Cardinality(Actions(c)) <= 1
  /\ c.words \cap {"sequence", "condition", "visual", "route"} = {}
  /\ ~SceneConflict(c, s) /\ ParametersComplete(c) /\ c.sure /\ ~c.confirm

Complex(c, s) ==
  \/ Cardinality(Actions(c)) >= 2 \/ RequiresManeuver(c)
  \/ c.words \cap {"sequence", "condition", "visual", "route"} # {}
  \/ Score(c, s) >= 3

Disposition(c, s) ==
  IF Urgent(c, s) \/ (~Gated(c, s) /\ (ClearAtomic(c, s) \/ Complex(c, s)))
  THEN "QWEN_PLAN" ELSE "CONFIRM_SAFE"

---------------------------------------------------------------------------
(* The request.                                                             *)

CommandStops(c) == c.intent \in {"STOP", "EMERGENCY_STOP"} \/ "occluded" \in c.words

Frontal(o, halfWidth, reach) == o.x >= 0 /\ o.y \in -halfWidth..halfWidth /\ o.distance <= reach /\ o.sure

\* An evasive manoeuvre is asked for, something is ahead and no side is free.
Blocked(c, s, road) ==
  LET free(side) == IF side = "LEFT" THEN road.left /\ road.leftGap ELSE road.right /\ road.rightGap
      exists(side) == IF side = "LEFT" THEN road.left ELSE road.right
      sides == IF c.direction \in Directions THEN {c.direction} ELSE Directions
  IN  /\ "evade" \in c.words /\ road.observed
      /\ \E i \in DOMAIN s.objects : Frontal(s.objects[i], 18, 300)
      /\ ~(c.intent \in {"AVOID_OBSTACLE", "CHANGE_LANE"} /\ \E d \in sides : exists(d))
      /\ ~\E d \in Directions : free(d)

SceneStops(s) ==
  \/ s.stale \/ ~s.stateValid \/ s.risk = "EMERGENCY"
  \/ \E i \in DOMAIN s.objects : s.objects[i].still /\ Frontal(s.objects[i], 15, 125)

\* A red light alone leaves the approach to the stop line to the controller.
MustStop(c, s, road) == CommandStops(c) \/ Blocked(c, s, road) \/ SceneStops(s)

Narrowed(permitted) == IF permitted \cap Configured = {} THEN {"STOP"} ELSE permitted \cap Configured

\* What the intent lets the model choose.
Allowed(c, mustStop) ==
  LET maneuver == [i \in {"FOLLOW", "CHANGE_LANE", "TURN", "PULL_OVER", "AVOID_OBSTACLE"} |->
        CASE i = "TURN" -> {"SET_SPEED", "SLOW_DOWN", "TURN", "STOP"}
          [] i = "AVOID_OBSTACLE" ->
               {"SLOW_DOWN", "AVOID_OBSTACLE", "CHANGE_LANE", "RETURN_TO_LANE", "STOP"}
               \cup (IF c.words \cap {"pedestrian", "yielding"} # {} THEN {"YIELD"} ELSE {})
          [] OTHER -> {i, "STOP"}]
      atomic == [i \in {"START", "KEEP_LANE", "SET_SPEED", "SLOW_DOWN", "STOP"} |->
        IF i = "START" THEN {"KEEP_LANE", "SET_SPEED"} ELSE {i}]
      compound == [i \in {"START", "KEEP_LANE", "SET_SPEED", "SLOW_DOWN", "YIELD"} |->
        {"STOP"} \cup CASE i = "START" -> {"KEEP_LANE", "SET_SPEED"}
                        [] i = "SLOW_DOWN" -> {"SLOW_DOWN"}
                        [] OTHER -> {i, "SLOW_DOWN"}]
      simple == Cardinality(Actions(c)) <= 1 /\ c.words \cap {"sequence", "condition", "visual"} = {}
  IN  CASE mustStop -> {"STOP"}
        [] ~mustStop /\ RequiresManeuver(c) ->
             IF c.intent \in DOMAIN maneuver THEN Narrowed(maneuver[c.intent]) ELSE Configured
        [] ~mustStop /\ ~RequiresManeuver(c) /\ simple /\ c.intent \in DOMAIN atomic ->
             Narrowed(atomic[c.intent])
        [] OTHER -> IF c.intent \in DOMAIN compound THEN Narrowed(compound[c.intent]) ELSE Configured

\* The relation reported for an object, from its place in the ego frame.
Relation(o) ==
  [along |-> IF o.x >= 0 THEN "ahead" ELSE "behind",
   across |-> CASE o.y > 15 -> "left" [] o.y < -15 -> "right" [] OTHER -> "center"]

\* The place of an object in the order of their distances; of two equally near, the
\* order of the scene stands for that of their confidence and their id.
Place(s, i) ==
  LET distance(j) == s.objects[j].distance
  IN  Cardinality({j \in DOMAIN s.objects :
        distance(j) < distance(i) \/ (distance(j) = distance(i) /\ j <= i)})

\* The objects of a scene, nearest first, at most TopK of them.
Targets(s, TopK) ==
  LET sorted == [n \in 1..Len(s.objects) |-> s.objects[CHOOSE i \in DOMAIN s.objects : Place(s, i) = n]]
  IN  SubSeq(sorted, 1, IF Len(s.objects) < TopK THEN Len(s.objects) ELSE TopK)

SpeedLimit(s, maximum) == IF s.limit = None \/ s.limit > maximum THEN maximum ELSE s.limit

\* A red light must leave the model the choice to stop.
WithStop(allowed, light) == allowed \cup (IF light = "RED" THEN {"STOP"} ELSE {})

ModelRequest(c, s, road, TopK, maximum) ==
  LET must == MustStop(c, s, road)
      asks == c.confirm \/ Disposition(c, s) = "CONFIRM_SAFE"
      offered == WithStop(Allowed(c, must), s.light)
  IN  [intent |-> c.intent, direction |-> c.direction, speed |-> c.speed, target |-> c.target,
       words |-> c.words, light |-> s.light, risk |-> s.risk, targets |-> Targets(s, TopK),
       road |-> road, limit |-> s.limit, maxSpeed |-> SpeedLimit(s, maximum), mustStop |-> must,
       allowed |-> IF asks /\ ~must THEN {"STOP"} ELSE offered,
       disposition |-> IF asks THEN "CONFIRM_SAFE" ELSE Disposition(c, s),
       safeWait |-> IF Urgent(c, s) \/ ~(s.stale \/ ~s.stateValid \/ "illegal" \in c.words)
                    THEN SafeWait(s) ELSE "STOP"]

===========================================================================
