----------------------------- MODULE MCFrameLoop -----------------------------
(* A small instance of FrameLoop: the scenario asks for something to be    *)
(* sat out and then for a lane change (d1), the driver for a lane change   *)
(* behind its gap (d2).                                                    *)
EXTENDS FrameLoop
CONSTANTS d1, d2, w1, w2, s1, s2

MCWaitOf == [d \in Driving |-> IF d = d1 THEN w1 ELSE w2]
MCStepOf == [d \in Driving |-> IF d = d1 THEN s1 ELSE s2]

MCOf(action, isPlan, target, life) ==
  [action |-> action, gated |-> FALSE, plan |-> isPlan, target |-> target, life |-> life]

MCEnvelope == [c \in Command |->
  CASE c = w1 -> MCOf("STOP", FALSE, 0, 2)
    [] c = w2 -> MCOf("STOP", FALSE, 0, 2)
    [] c = s1 -> MCOf("SET_SPEED", TRUE, 1, 2)
    [] c = s2 -> MCOf("STOP", TRUE, 0, 2)]

MCStep(kind, hold, timeout, onFailure) ==
  [kind |-> kind, hold |-> hold, timeout |-> timeout, onFailure |-> onFailure]

MCPlan == [d \in Driving |->
  IF d = d1 THEN <<MCStep("patient", 2, 1, "CONFIRM"), MCStep("move", 1, 1, "HOLD_CURRENT_LANE")>>
            ELSE <<MCStep("gap", 1, 1, "REPLAN"), MCStep("move", 1, 1, "SAFE_STOP")>>]

MCStepSpeed == [d \in Driving |-> IF d = d1 THEN <<1, 2>> ELSE <<None, 1>>]

\* States that differ only in what nothing reads any more behave alike: which alerts are
\* latched (but for whether one is, and one that is not lateral), the feedback that was
\* told, whose speed is requested, how the FSM shows a command that no confirmation stops,
\* a plan that is over, the order of the frame once step() has begun, its alerts before and
\* after it, whether an earlier frame drove, and what raised a speed for a command answered.
MCTurn == IF stage # "commands" THEN "over" ELSE IF turn = "finished" THEN "submitted" ELSE turn
MCRuntime == <<fsm.holders, {c \in Command : fsm.terminal[c] # "NONE"},
               IF active = None THEN None ELSE active.id, approach, successFrames, requested, stopHold,
               latched # {}, latched \ {"LATERAL"} # {}, stage,
               stage \in {"lateral", "arbitrate"} /\ alerts, stage = "after" /\ drove>>
MCManeuver == IF Running THEN <<plan, step, elapsed, entered, heldFrames, replans, sinceReplan>> ELSE <<>>
MCView == <<MCRuntime, MCManeuver, terminals, slow, latest, dispatched, MCTurn,
            infeasible, observed, over, IF Awaited = {} THEN "no" ELSE raised>>
=============================================================================
