--------------------------- MODULE DirectDecision ---------------------------
(***************************************************************************)
(* The direct path from one model token to one driving command, all of it   *)
(* deterministic: StrictQwenVLAdapter (src/integration/qwen_vl_adapter.py)  *)
(* assembles the token into a decision under the safety rules and grounds   *)
(* the target the speaker named, qwen_boundary.py validates the decision,   *)
(* qwen_command_adapter.py and car_control_A/high_level_command.py make a   *)
(* command envelope of it and voice_adapter.py a command for the vehicle.   *)
(*                                                                          *)
(* A context is what the model is asked about: rules (what C recommends,    *)
(* danger, red, missing), visual, names (the target description in the      *)
(* sentence, None without one), pace and manner (the speed in it and whether*)
(* it is set or reduced) and objects.  Distances are decimetres, speeds     *)
(* decimetres per second, confidences percentages.                          *)
(***************************************************************************)
EXTENDS Integers, FiniteSets, SequencesExt, Absent

ChoiceThreshold  == 60
GatingThreshold  == 80
Fastest          == 500
SlowDownDefault  == 20
Moving           == {"START", "SET_SPEED", "SLOW_DOWN"}
Stopping         == {"STOP", "EMERGENCY_STOP"}

\* The action the rules impose, None when they leave the choice to the model.
Rule(c) ==
  IF c.danger \/ c.recommended = "EMERGENCY_STOP" THEN "EMERGENCY_STOP"
  ELSE IF c.red \/ c.recommended = "STOP" THEN "STOP"
  ELSE IF c.recommended = "SLOW_DOWN" THEN "SLOW_DOWN"
  ELSE None

Nearest(os) ==
  {o \in os : o.distance # None /\ \A p \in os : p.distance # None => o.distance <= p.distance + 2}

\* The objects the speaker may have meant, None when no one is clearly described.
ModelCandidatesMutant(c) == IF c.names = None THEN None ELSE {o \in c.objects : o.class = c.names.class}
ModelCandidates(c) ==
  LET likely == {o \in c.objects : o.class = c.names.class /\ o.sure}
  IN  IF c.names = None THEN None
      ELSE CASE c.names.how = "distance" ->
                  {o \in likely : o.distance # None /\ o.distance - c.names.metres \in -20 .. 20}
             [] c.names.how = "nearest" ->
                  IF \A o \in likely : o.distance = None
                  THEN IF Cardinality(likely) = 1 THEN likely ELSE {}
                  ELSE Nearest(likely)
             [] OTHER -> {o \in likely : o.relation = c.names.how}

Tracks(os) == {o.track : o \in os} \ {None}

Decision(action, confidence, confirm, source) ==
  [action |-> action, confidence |-> confidence, confirm |-> confirm, source |-> source,
   speed |-> None, target |-> None]

\* assemble_action_choice: rules, then confidence, then sight, then the target, then the model.
Assembled(choice, c) ==
  LET ask(source) == Decision("STOP", choice.confidence, TRUE, source)
      rule == Rule(c)
      meant == ModelCandidates(c)
      plain == Decision(choice.action, choice.confidence, FALSE, "QWEN_VL_CHOICE")
  IN  IF rule # None
      THEN IF rule = "STOP" /\ c.missing THEN Decision("STOP", 99, TRUE, "TARGET_GROUNDING")
           ELSE Decision(rule, IF rule = "SLOW_DOWN" THEN 95 ELSE 99, FALSE, "SAFETY_RULE")
      ELSE IF choice.confidence < ChoiceThreshold THEN ask("QWEN_VL_LOW_CONFIDENCE")
      ELSE IF c.visual = "invalid" THEN ask("QWEN_VL_VISUAL_INVALID")
      ELSE IF meant # None /\ Cardinality(Tracks(meant)) # 1 THEN ask("TARGET_GROUNDING")
      ELSE IF choice.action = "SLOW_DOWN" /\ c.manner = "set" /\ c.pace # None /\ c.pace <= Fastest
      THEN [Decision("SET_SPEED", IF choice.confidence > 90 THEN choice.confidence ELSE 90, FALSE,
                     "VOICE_SPEED_GROUNDED") EXCEPT !.speed = c.pace]
      ELSE IF choice.action = "SET_SPEED"
      THEN IF c.pace = None \/ c.pace > Fastest THEN ask("QWEN_VL_SPEED_UNRESOLVED")
           ELSE [plain EXCEPT !.speed = c.pace]
      ELSE plain

\* validate_qwen_response: a speed of zero beside a stop is dropped, any other misfit refused.
Misfit(d) ==
  \/ d.action \notin Moving \cup Stopping
  \/ d.action = "SET_SPEED" /\ d.speed = None
  \/ d.speed # None /\ d.action \notin {"SET_SPEED", "SLOW_DOWN"} /\ ~(d.action \in Stopping /\ d.speed = 0)
Normalised(d) == IF d.action \in Stopping THEN [d EXCEPT !.speed = None] ELSE d

\* _validate_target_reference and _ground_explicit_target: the decision with its target, or None.
Grounded(d, c) ==
  LET meant == ModelCandidates(c)
      known == Tracks(meant)
  IN  IF d.target # None /\ d.target \notin Tracks(c.objects) THEN None
      ELSE IF meant = None THEN d
      ELSE IF Cardinality(known) = 1 THEN [d EXCEPT !.target = CHOOSE t \in known : TRUE]
      ELSE IF /\ d.target = None /\ d.confirm
              /\ known = {} => d.action \in Stopping
      THEN d
      ELSE None

Checked(d, c) == IF Misfit(d) THEN None ELSE Grounded(Normalised(d), c)

\* A backend that picks one of five tokens, and one that writes the decision itself.
ChoiceInfer(choice, c) == Checked(Assembled(choice, c), c)
WritingInfer(written, c) == Checked(written, c)

\* build_high_level_command, HighLevelCommandAdapter.adapt and the vehicle's own adapter.
IntentOf(action) == IF action = "START" THEN "KEEP_LANE" ELSE action
VehicleCommand(d) ==
  [action |-> CASE IntentOf(d.action) = "EMERGENCY_STOP" -> "EMERGENCY_BRAKE"
                [] IntentOf(d.action) = "SLOW_DOWN" -> "SET_SPEED"
                [] OTHER -> IntentOf(d.action),
   target |-> IF d.action \notin {"SET_SPEED", "SLOW_DOWN"} THEN None
              ELSE IF d.speed = None THEN SlowDownDefault ELSE d.speed,
   gated |-> d.confirm \/ d.confidence < GatingThreshold]
=============================================================================
