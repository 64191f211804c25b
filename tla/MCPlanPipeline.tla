--------------------------- MODULE MCPlanPipeline ---------------------------
(* Commands, scenes, roads and written plans for checking PlanPipeline.     *)
EXTENDS PlanPipeline

CONSTANTS lead, person, ghost

Plain == [intent |-> "KEEP_LANE", direction |-> None, speed |-> None, target |-> None,
          mentions |-> {}, words |-> {}, seeks |-> None, sure |-> TRUE, confirm |-> FALSE]
Says(intent, words) == [Plain EXCEPT !.intent = intent, !.words = words]
Utterances ==
  {Plain, Says("START", {"go"}), Says("STOP", {}), Says("EMERGENCY_STOP", {}),
   Says("KEEP_LANE", {"illegal", "go"}), Says("UNKNOWN", {"ambiguous"}), Says("UNKNOWN", {"evade"}),
   Says("UNKNOWN", {"sequence", "go"}), Says("KEEP_LANE", {"occluded"}), Says("PULL_OVER", {}),
   Says("YIELD", {"pedestrian", "yielding", "resume", "condition"}),
   Says("SLOW_DOWN", {"observe", "resume", "condition"}), Says("SLOW_DOWN", {"observe", "merge"}),
   [Says("SET_SPEED", {"pace"}) EXCEPT !.speed = 8], Says("SET_SPEED", {"pace"}),
   [Says("SET_SPEED", {"pace"}) EXCEPT !.speed = 8, !.sure = FALSE],
   [Says("SET_SPEED", {"pace"}) EXCEPT !.speed = 8, !.confirm = TRUE],
   [Says("SLOW_DOWN", {"pace"}) EXCEPT !.speed = 2],
   [Says("FOLLOW", {"visual"}) EXCEPT !.seeks = "vehicle"],
   [Says("FOLLOW", {}) EXCEPT !.target = ghost], [Says("SLOW_DOWN", {"observe"}) EXCEPT !.target = ghost],
   [Says("CHANGE_LANE", {"evade"}) EXCEPT !.direction = "LEFT", !.mentions = {"CHANGE_LANE_LEFT"}],
   Says("CHANGE_LANE", {"evade"}),
   [Says("TURN", {"route", "pace"}) EXCEPT !.direction = "RIGHT", !.mentions = {"TURN_RIGHT", "SET_SPEED"}],
   [Says("TURN", {"route"}) EXCEPT !.direction = "LEFT", !.mentions = {"TURN_LEFT"}],
   [Says("TURN", {"route"}) EXCEPT !.direction = "STRAIGHT"],
   [Says("AVOID_OBSTACLE", {"evade"}) EXCEPT !.direction = "LEFT", !.target = lead],
   Says("AVOID_OBSTACLE", {"evade", "resume"}),
   [Says("AVOID_OBSTACLE", {"pedestrian", "overtake", "order", "sequence"}) EXCEPT !.target = ghost]}

Thing(id, class, x, y, still) ==
  [id |-> id, class |-> class, x |-> x, y |-> y, distance |-> x, sure |-> TRUE, still |-> still]
Views ==
  {<<>>, <<Thing(lead, "vehicle", 200, 0, FALSE)>>, <<Thing(lead, "vehicle", 100, 0, TRUE)>>,
   <<Thing(lead, "obstacle", 220, 0, TRUE), Thing(person, "pedestrian", 180, -30, FALSE)>>,
   <<Thing(lead, "vehicle", 200, 30, FALSE), Thing(person, "vehicle", 240, 0, FALSE)>>}
Clear == [stale |-> FALSE, stateValid |-> TRUE, risk |-> "LOW", light |-> "GREEN", line |-> None,
          limit |-> 14, objects |-> <<>>]
Scenes ==
  {[Clear EXCEPT !.objects = v, !.limit = l] : v \in Views, l \in {None, 2}}
  \cup {[Clear EXCEPT !.objects = v, !.light = l, !.risk = r] :
          v \in Views, l \in {"RED", "GREEN"}, r \in {"CAUTION", "EMERGENCY"}}
  \cup {[Clear EXCEPT !.stale = TRUE], [Clear EXCEPT !.stateValid = FALSE]}
Roads ==
  {[observed |-> TRUE, left |-> l, right |-> r, owned |-> {}] : l, r \in BOOLEAN}
  \cup {[observed |-> TRUE, left |-> FALSE, right |-> TRUE, owned |-> {ghost}],
        [observed |-> FALSE, left |-> FALSE, right |-> FALSE, owned |-> {}]}

MCSituations ==
  [backend : {"vllm", "rules"}, command : Utterances, scene : Scenes, lanes : Roads]
  \cup [backend : {"free"}, command : {c \in Utterances : c.direction # "LEFT" /\ c.words \cap {"pace", "observe", "resume"} = {}},
        scene : {s \in Scenes : s.limit # 2 /\ s.light # "RED" /\ Len(s.objects) = 2},
        lanes : {l \in Roads : l.owned = {} /\ (l.observed => l.right)}]

Written(b, target, lane, speed) ==
  [behaviour |-> b, target |-> target, lane |-> lane, speed |-> speed,
   done |-> CHOOSE e \in EndingsOf(b) : TRUE, valued |-> TRUE, laned |-> TRUE, pre |-> {}]
FreeSteps ==
  {Written("KEEP_LANE", None, "CURRENT", None), Written("SET_SPEED", None, "CURRENT", 20),
   Written("HOLD", None, "CURRENT", None), Written("STOP", ghost, "CURRENT", 0),
   Written("YIELD", None, "CURRENT", 0), Written("FOLLOW", person, "CURRENT", 3),
   Written("CHANGE_LANE_RIGHT", None, "RIGHT_ADJACENT", None),
   Written("CHANGE_LANE_RIGHT", None, "LEFT_ADJACENT", 3),
   Written("AVOID_OBSTACLE", lead, "CURRENT", None), Written("AVOID_OBSTACLE", lead, "RIGHT_ADJACENT", 3),
   Written("RETURN_TO_LANE", None, "CURRENT", None), Written("PULL_OVER", None, "SHOULDER", 0)}
Seconds == {s \in FreeSteps : s.behaviour \notin {"HOLD", "YIELD", "FOLLOW", "PULL_OVER"}}
MCFreePlans ==
  {[steps |-> <<s>>, sure |-> TRUE, confirm |-> FALSE] : s \in FreeSteps}
  \cup {[steps |-> <<s, t>>, sure |-> TRUE, confirm |-> FALSE] : s \in FreeSteps, t \in Seconds}
MCSightings == {{}, {lead, person}}

\* Type correctness of the pipeline.
PipeTypeOK ==
  /\ stage \in {"spoken", "asked", "planned", "served", "accepted", "ready", "done"}
  /\ (plan = None) = (stage \in {"spoken", "asked"} \/ outcome = "MODEL_ERROR")
  /\ control # None => steps # None /\ steps # <<>>
  /\ (outcome # None) = (stage = "done")
===========================================================================
