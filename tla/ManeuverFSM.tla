----------------------------- MODULE ManeuverFSM -----------------------------
(***************************************************************************)
(* car_control_A/maneuver_fsm.py: ManeuverFSM executes the steps of a      *)
(* compiled plan, one at a time.  Every frame the runner shows it what it  *)
(* observed (update); the FSM waits for a step's preconditions, counts the *)
(* consecutive frames in which its completion holds, and ends the plan     *)
(* when the last step is done, a step times out, an emergency preempts it  *)
(* or its replanning budget is spent.                                      *)
(*                                                                         *)
(* Abstracted: a step is its patience with emergencies, its place in a     *)
(* gap-then-move pair, its hold frames, timeout and failure policy; an     *)
(* observation is whether the preconditions and the completion hold, which *)
(* emergency is reported and whether a replan condition is.  Time is       *)
(* counted in frames.  The working states are one state, EXECUTING.        *)
(***************************************************************************)
EXTENDS Integers, Sequences

CONSTANTS
  Driving,      \* the driving commands, each with its plan
  Plan,         \* the compiled steps of each command's plan
  Cooldown,     \* replan_cooldown_s, in frames
  MaxReplans,   \* max_replans_per_command
  NoPlan        \* before the first plan

Kinds    == {"patient", "gap", "move", "other"}  \* YIELD and SLOW_DOWN; WAIT_SAFE_GAP; lane changes
Policies == {"SAFE_STOP", "HOLD_CURRENT_LANE", "REPLAN", "CONFIRM"}
Steps    == [kind : Kinds, hold : Nat \ {0}, timeout : Nat, onFailure : Policies]

ASSUME PlanAssumption == Plan \in [Driving -> Seq(Steps) \ {<<>>}]
ASSUME ReplanAssumption == Cooldown \in Nat /\ MaxReplans \in Nat
ASSUME NoPlanAssumption == NoPlan \notin Driving

VARIABLES
  plan,         \* the command whose plan is, or was last, executing
  state,        \* self.state
  step,         \* self.step_index, from 1
  elapsed,      \* frames since step_started_s
  entered,      \* _preconditions_latched
  heldFrames,   \* _completion_frames
  replans,      \* _replan_count
  sinceReplan,  \* frames since _last_replan_s, Cooldown when longer ago or never
  safe,         \* the safe_behavior of the last update
  terminals     \* the terminal statuses announced for each command

planVars == <<plan, state, step, elapsed, entered, heldFrames, replans, sinceReplan, safe>>
maneuverVars == <<planVars, terminals>>

Terminal == {"SUCCEEDED", "FAILED", "SAFETY_OVERRIDE", "CONFIRMING"}
Running  == plan # NoPlan /\ state \notin Terminal
Current  == Plan[plan][step]

ManeuverTypeOK ==
  /\ plan \in Driving \cup {NoPlan}
  /\ state \in Terminal \cup {"IDLE", "EXECUTING", "WAIT_TRAFFIC_SIGNAL", "REPLAN_PENDING"}
  /\ step \in Nat \ {0} /\ (Running => step \in DOMAIN Plan[plan])
  /\ elapsed \in Nat /\ heldFrames \in Nat /\ entered \in BOOLEAN
  /\ replans \in 0 .. MaxReplans
  /\ sinceReplan \in 0 .. Cooldown
  /\ safe \in {"none", "STOP", "SLOW_DOWN", "KEEP_LANE", "EMERGENCY_STOP"}
  /\ terminals \in [Driving -> Seq(Terminal \cup {"SUPERSEDED", "REJECTED"})]

ManeuverInit ==
  /\ plan = NoPlan /\ state = "IDLE" /\ step = 1
  /\ elapsed = 0 /\ entered = FALSE /\ heldFrames = 0
  /\ replans = 0 /\ sinceReplan = Cooldown /\ safe = "none"
  /\ terminals = [d \in Driving |-> <<>>]

Announce(d, status) == [terminals EXCEPT ![d] = Append(@, status)]
-----------------------------------------------------------------------------
\* start: a plan still running is superseded, one that has ended is simply replaced.
SupersededMutant == IF plan # NoPlan THEN Announce(plan, "SUPERSEDED") ELSE terminals
Superseded == IF Running THEN Announce(plan, "SUPERSEDED") ELSE terminals

Start(d) ==
  /\ terminals' = Superseded
  /\ plan' = d /\ state' = "EXECUTING" /\ step' = 1
  /\ elapsed' = 0 /\ entered' = FALSE /\ heldFrames' = 0
  /\ replans' = 0 /\ sinceReplan' = Cooldown /\ safe' = "none"

\* _finish of a running plan.
FinishPlan(status, behaviour) ==
  /\ state' = status /\ safe' = behaviour
  /\ terminals' = Announce(plan, status)

Fail == FinishPlan("FAILED", "STOP")

\* request_replan.
CoolingDown == sinceReplan < Cooldown

ReplansLeft == replans < MaxReplans

RequestReplan ==
  \/ /\ CoolingDown
     /\ safe' = "SLOW_DOWN"
     /\ UNCHANGED <<state, replans, sinceReplan, terminals>>
  \/ /\ ~CoolingDown /\ ~ReplansLeft
     /\ Fail
     /\ UNCHANGED <<replans, sinceReplan>>
  \/ /\ ~CoolingDown /\ ReplansLeft
     /\ replans' = replans + 1 /\ sinceReplan' = 0
     /\ state' = "REPLAN_PENDING" /\ safe' = "SLOW_DOWN"
     /\ UNCHANGED terminals

\* _step_failure.
StepFailure ==
  CASE Current.onFailure = "REPLAN"  -> RequestReplan
    [] Current.onFailure = "CONFIRM" ->
         FinishPlan("CONFIRMING", "STOP") /\ UNCHANGED <<replans, sinceReplan>>
    [] Current.onFailure = "SAFE_STOP" -> Fail /\ UNCHANGED <<replans, sinceReplan>>
    [] Current.onFailure = "HOLD_CURRENT_LANE" ->
         FinishPlan("FAILED", "KEEP_LANE") /\ UNCHANGED <<replans, sinceReplan>>

Overrun == elapsed > Current.timeout
-----------------------------------------------------------------------------
(* update.                                                                 *)

\* A red light pauses the step: its completion window and its timeout start again.
PauseAtRedLight ==
  /\ heldFrames' = 0 /\ elapsed' = 0
  /\ state' = "WAIT_TRAFFIC_SIGNAL" /\ safe' = "STOP"
  /\ UNCHANGED <<plan, step, entered, replans, sinceReplan, terminals>>

\* Yielding and slowing down sit an emergency out, as long as the step lasts.
EndureEmergency ==
  /\ Current.kind = "patient"
  /\ heldFrames' = 0
  /\ IF Overrun THEN StepFailure
     ELSE safe' = "EMERGENCY_STOP" /\ UNCHANGED <<state, replans, sinceReplan, terminals>>
  /\ UNCHANGED <<plan, step, elapsed, entered>>

PreemptedByEmergency ==
  /\ Current.kind # "patient"
  /\ FinishPlan("SAFETY_OVERRIDE", "EMERGENCY_STOP")
  /\ UNCHANGED <<plan, step, elapsed, entered, heldFrames, replans, sinceReplan>>

\* A declared replan condition, or else the end of the step's time.
ReplanOrFail(replan) ==
  /\ replan \/ Overrun
  /\ IF replan THEN RequestReplan ELSE StepFailure
  /\ UNCHANGED <<plan, step, elapsed, entered, heldFrames>>

AwaitPreconditions(met) ==
  /\ ~entered /\ ~met
  /\ heldFrames' = 0 /\ state' = "EXECUTING" /\ safe' = "SLOW_DOWN"
  /\ UNCHANGED <<plan, step, elapsed, entered, replans, sinceReplan, terminals>>

\* A gap that was waited for is not asked for again by the move right behind it.
InheritsGate ==
  /\ Current.kind = "gap" /\ step < Len(Plan[plan])
  /\ Plan[plan][step + 1].kind = "move"

HeldLongEnough == heldFrames + 1 >= Current.hold

HoldCompletion(met, done) ==
  /\ entered \/ met
  /\ ~(done /\ HeldLongEnough)
  /\ entered' = TRUE /\ state' = "EXECUTING" /\ safe' = "none"
  /\ heldFrames' = IF done THEN heldFrames + 1 ELSE 0
  /\ UNCHANGED <<plan, step, elapsed, replans, sinceReplan, terminals>>

CompleteStep(met, done) ==
  /\ entered \/ met
  /\ done /\ HeldLongEnough
  /\ step' = step + 1 /\ heldFrames' = 0 /\ elapsed' = 0
  /\ entered' = InheritsGate
  /\ IF step < Len(Plan[plan])
     THEN state' = "EXECUTING" /\ safe' = "none" /\ UNCHANGED terminals
     ELSE FinishPlan("SUCCEEDED", "none")
  /\ UNCHANGED <<plan, replans, sinceReplan>>

Emergencies == {"none", "red", "other"}

\* What the runner shows the FSM in one frame.
Update(emergency, replan, met, done) ==
  /\ Running
  /\ \/ emergency = "red" /\ PauseAtRedLight
     \/ emergency = "other" /\ (EndureEmergency \/ PreemptedByEmergency)
     \/ /\ emergency = "none"
        /\ \/ ReplanOrFail(replan)
           \/ /\ ~replan /\ ~Overrun
              /\ AwaitPreconditions(met) \/ HoldCompletion(met, done) \/ CompleteStep(met, done)

\* A frame passes.  Nothing is compared with a time beyond the timeout and the cooldown.
Tick ==
  /\ elapsed' = IF Running /\ elapsed <= Current.timeout THEN elapsed + 1 ELSE elapsed
  /\ sinceReplan' = IF CoolingDown THEN sinceReplan + 1 ELSE sinceReplan
  /\ UNCHANGED <<plan, state, step, entered, heldFrames, replans, safe, terminals>>
=============================================================================
