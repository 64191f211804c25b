------------------------------ MODULE FrameLoop ------------------------------
(***************************************************************************)
(* One frame of integration/carla_runner.py in planner_v2 mode: the slow   *)
(* path, the bridge of integration/second_group_runtime.py, the command    *)
(* runtime and the maneuver FSM, all driven by one loop.                   *)
(*                                                                         *)
(* A driving command goes to the slow path while the bridge puts a wait    *)
(* command (a stop) in force under an id of its own.  The answer, if it is *)
(* a plan and the command is still the latest, puts the plan's first step  *)
(* in force under another id and starts the plan in the maneuver FSM.      *)
(* From then on the FSM owns the command and the loop sets the speed of    *)
(* each step directly in the runtime, whatever command is in force there.  *)
(*                                                                         *)
(* A frame is: AdvanceWorld; what the loop itself does to the runtime, in   *)
(* this order: route recovery (RecoverRoute, GiveUpRoute), the scenario's   *)
(* release of a stop (ReleaseForScenario), the end of the route            *)
(* (FinishRoute); submissions, one poll (Resolve), StartPlan, the three     *)
(* stages of step(), ShowManeuver, and EnterStep if a step began.          *)
(* The slow path is what it promises, RequestLifecycle (SlowPath implements *)
(* it); it is open until the run is over.                                  *)
(***************************************************************************)
EXTENDS CommandRuntime, ManeuverFSM

CONSTANTS
  WaitOf,       \* the id of the stop that holds the vehicle for a driving command
  StepOf,       \* the id under which its plan's first step is in force
  StepSpeed,    \* the speed each step of a plan asks for, None for no speed
  Live          \* the commands spoken while driving; the others wait for their turn

ASSUME BridgeIds ==
  /\ WaitOf \in [Driving -> Command] /\ StepOf \in [Driving -> Command]
  /\ \A d, e \in Driving : WaitOf[d] # StepOf[e]
  /\ \A d, e \in Driving : d # e => WaitOf[d] # WaitOf[e] /\ StepOf[d] # StepOf[e]
ASSUME FreshIds == ~Redelivers
ASSUME BridgeEnvelopes ==
  \A d \in Driving :
    /\ ~Envelope[WaitOf[d]].gated /\ ~Envelope[StepOf[d]].gated
    /\ Envelope[WaitOf[d]].action \in {"STOP", "EMERGENCY_BRAKE"}
    /\ ~Envelope[WaitOf[d]].plan /\ Envelope[StepOf[d]].plan
ASSUME StepSpeedAssumption ==
  /\ DOMAIN StepSpeed = Driving
  /\ \A d \in Driving : StepSpeed[d] \in [DOMAIN Plan[d] -> Speeds \cup {None}]
ASSUME LiveAssumption == Live \subseteq Driving

VARIABLES
  slow,         \* what the slow path has said of each driving command; the bridge's
                \* _pending holds those it has not answered
  latest,       \* _latest_command_id
  turn,         \* what the frame has done last, of the work before step()
  dispatched,   \* the command whose plan the poll returned and nobody has started
  infeasible,   \* QWEN_PLAN_ROUTE_INFEASIBLE is in this frame's watchdog_alerts
  observed,     \* what the frame just stepped has for a running plan
  over,         \* "no", or how the run came to its end
  raised        \* history: what the loop itself has last asked a speed for since the
                \* latest command was spoken: a plan's step, a recovered route, a release

bridgeVars == <<slow, latest, turn, dispatched>>
loopVars == <<vars, maneuverVars, bridgeVars, infeasible, observed, over, raised>>

RunGoesOn == over = "no"
Slow == INSTANCE RequestLifecycle
          WITH Request <- Driving, Answer <- {"ready", "failed"}, status <- slow, open <- RunGoesOn

LoopTypeOK ==
  /\ TypeOK /\ ManeuverTypeOK /\ Slow!TypeOK
  /\ latest \in Driving \cup {NoPlan}
  /\ turn \in {"ticked", "recovered", "released", "finished", "submitted", "polled"}
  /\ dispatched \in Driving \cup {NoPlan}
  /\ infeasible \in BOOLEAN
  /\ observed \in {"nothing", "started"} \cup Emergencies
  /\ over \in {"no", "ended", "crashed"}
  /\ raised \in {"no", "step", "recovery", "release"}

LoopInit ==
  /\ over = "no"
  /\ Init /\ ManeuverInit /\ Slow!Init
  /\ latest = NoPlan /\ turn = "ticked" /\ dispatched = NoPlan
  /\ infeasible = FALSE /\ observed = "nothing" /\ raised = "no"
-----------------------------------------------------------------------------
(* The bridge.                                                             *)

\* A scenario's command is kept back while a plan is running, a spoken one is not.
MayArriveMutant(d) == TRUE
MayArrive(d) == d \in Live \/ ~Running

\* CanonicalRuntimeBridge.submit: the vehicle is held even if the command is refused.
Submit(d) ==
  /\ RunGoesOn /\ UNCHANGED over
  /\ turn # "polled" /\ turn' = "submitted" /\ MayArrive(d)
  /\ \/ Slow!Accept(d) /\ UNCHANGED terminals
     \/ Slow!Refuse(d) /\ terminals' = Announce(d, "REJECTED")
  /\ latest' = d /\ raised' = "no"
  /\ SubmitVoice(WaitOf[d])
  /\ UNCHANGED <<planVars, dispatched, infeasible, observed>>

\* _fail_wait_if_current.
FailWait(d) ==
  IF d = latest /\ active # None /\ active.id = WaitOf[d] THEN FailActive(None) ELSE UNCHANGED vars

\* The command comes to nothing: no plan, or one the runtime has no use for.
Reject(d) ==
  /\ terminals' = Announce(d, "REJECTED")
  /\ FailWait(d)
  /\ UNCHANGED dispatched

\* The first step replaces the wait.
Dispatch(d) ==
  /\ SubmitVoice(StepOf[d])
  /\ dispatched' = d
  /\ UNCHANGED terminals

IsLatestMutant(d) == TRUE
IsLatest(d) == d = latest

\* poll, for one answer.
Resolve(d) ==
  /\ RunGoesOn /\ UNCHANGED over
  /\ stage = "commands" /\ turn' = "polled"
  /\ \/ Slow!Reply(d, "failed") /\ Reject(d)
     \/ /\ Slow!Reply(d, "ready") /\ ~IsLatest(d)
        /\ terminals' = Announce(d, "REJECTED")
        /\ UNCHANGED <<vars, dispatched>>
     \/ Slow!Reply(d, "ready") /\ IsLatest(d) /\ (Reject(d) \/ Dispatch(d))
  /\ UNCHANGED <<planVars, latest, infeasible, observed, raised>>
-----------------------------------------------------------------------------
(* The loop's own work.                                                    *)

\* requested_speed_mps is set from outside, in the name of the plan.
RequestStepSpeed(speed) ==
  /\ IF speed = None THEN UNCHANGED speedVars
     ELSE requested' = speed /\ authority' = (IF speed = 0 THEN None ELSE StepOf[plan'])
  /\ raised' = (IF speed \in {None, 0} THEN raised ELSE "step")
  /\ UNCHANGED <<fsm, commandVars, stopHold, latched, pending, reported, stage, alerts, drove>>

\* A dispatched plan starts; if there is no route for its first step the alert is raised
\* and the plan is left running.
StartPlan(d) ==
  /\ RunGoesOn /\ dispatched = d
  /\ Start(d)
  /\ dispatched' = NoPlan
  /\ \/ RequestStepSpeed(StepSpeed[d][1]) /\ UNCHANGED infeasible
     \/ infeasible' = TRUE /\ UNCHANGED <<vars, raised>>
  /\ UNCHANGED <<slow, latest, turn, observed, over>>

\* What step() reports, as the loop translates it for a running plan.
Observations(hazard, semantic) ==
  CASE ~Running                                             -> {"nothing"}
    [] Running /\ hazard = "collision" /\ ~alerts           -> {"none", "other"}
    [] Running /\ hazard = "obstacle" /\ ~alerts /\ ~Spoken -> {"other"}
    [] Running /\ hazard = "guard" /\ ~alerts /\ ~Spoken    -> {"none", "red"}
    [] Running /\ hazard = "none" /\ ~alerts /\ ~Spoken /\ semantic -> {"none", "other"}
    [] OTHER                                                -> {"none"}

\* step(): the runtime's frame, with the alerts the loop has collected.
StepRuntime ==
  /\ RunGoesOn /\ dispatched = NoPlan
  /\ \/ /\ \E watch \in {{}, {"WATCHDOG"}} : (infeasible => watch # {}) /\ FrameTick(watch)
        /\ infeasible' = FALSE /\ UNCHANGED observed
     \/ FrameLateral /\ UNCHANGED <<infeasible, observed>>
     \/ /\ FrameFails
        /\ observed' = (IF Running THEN "none" ELSE "nothing") /\ UNCHANGED infeasible
     \/ /\ \E v \in Speeds, near, semantic \in BOOLEAN, hazard \in Hazards :
             /\ FrameArbitrate(v, near, hazard, semantic)
             /\ observed' \in Observations(hazard, semantic)
        /\ UNCHANGED infeasible
  /\ UNCHANGED <<maneuverVars, bridgeVars, over, raised>>

\* The maneuver FSM sees the frame; a plan that succeeds completes the command in force.
ShowManeuver ==
  /\ RunGoesOn /\ stage = "after" /\ observed \in Emergencies
  /\ \E met, done \in BOOLEAN : Update(observed, FALSE, met, done)
  /\ observed' = (IF step' # step /\ Running' THEN "started" ELSE "nothing")
  /\ IF state' = "SUCCEEDED" /\ active # None THEN CompleteActive ELSE UNCHANGED vars
  /\ UNCHANGED <<bridgeVars, infeasible, over, raised>>

\* The next step begins: its speed, and its route, without which the plan fails.  The
\* alert raised then belongs to a list no step() reads any more.
EnterStep ==
  /\ RunGoesOn /\ observed = "started"
  /\ observed' = "nothing"
  /\ \/ UNCHANGED maneuverVars
     \/ Fail /\ UNCHANGED <<plan, step, elapsed, entered, heldFrames, replans, sinceReplan>>
  /\ RequestStepSpeed(StepSpeed[plan][step])
  /\ UNCHANGED <<bridgeVars, infeasible, over>>

FrameDone == stage = "after" /\ observed = "nothing"

AdvanceWorld ==
  /\ RunGoesOn /\ FrameDone
  /\ AdvanceClock /\ Tick
  /\ turn' = "ticked"
  /\ UNCHANGED <<slow, latest, dispatched, infeasible, observed, over, raised>>

\* What the loop does to the runtime before any command is looked at; each part only once
\* and in this order, or not at all.
Early(before, now) ==
  /\ RunGoesOn /\ stage = "commands"
  /\ turn \in before /\ turn' = now
  /\ UNCHANGED <<maneuverVars, slow, latest, dispatched, infeasible, observed, over>>

Ask(speed) ==
  /\ requested' = speed /\ authority' = None
  /\ UNCHANGED <<fsm, commandVars, stopHold, pending, reported, stage, alerts, drove>>

\* A new route is found: the speed comes back that the old one had, whatever command is in
\* force, and the lateral alerts go.  No route is sought while a plan is running.
RecoverRoute ==
  /\ Early({"ticked"}, "recovered") /\ ~Running
  /\ \E had \in Speeds : Ask(IF had > requested THEN had ELSE requested)
  /\ latched' = latched \ {"LATERAL"}
  /\ raised' = (IF requested' = 0 THEN raised ELSE "recovery")

\* The last attempt to find one fails.
GiveUpRoute ==
  /\ Early({"ticked"}, "recovered") /\ ~Running
  /\ Ask(0) /\ UNCHANGED <<latched, raised>>

\* An emergency of the scenario is over.
ReleaseForScenario ==
  /\ Early({"ticked", "recovered"}, "released")
  /\ \E speed \in Speeds : ReleaseStopHold(speed)
  /\ raised' = "release"

\* The end of the route is near.
FinishRoute ==
  /\ Early({"ticked", "recovered", "released"}, "finished") /\ requested > 0
  /\ Ask(0) /\ UNCHANGED <<latched, raised>>

\* The commands the end of the run has to answer: fail_all_pending, then the plan's.
UnansweredMutant == {d \in Driving : slow[d] = "pending"}
Unanswered == {d \in Driving : slow[d] = "pending" \/ (Running /\ plan = d)}

\* The run ends after a frame: everything open is failed.
EndRun ==
  /\ RunGoesOn /\ FrameDone
  /\ over' = "ended" /\ Slow!Close
  /\ terminals' = [d \in Driving |->
                     IF d \in Unanswered THEN Append(terminals[d], "FAILED") ELSE terminals[d]]
  /\ state' = (IF Running THEN "FAILED" ELSE state)
  /\ safe' = (IF Running THEN "STOP" ELSE safe)
  /\ IF active # None THEN FailActive(None) ELSE UNCHANGED vars
  /\ UNCHANGED <<plan, step, elapsed, entered, heldFrames, replans, sinceReplan, latest, turn,
                 dispatched, infeasible, observed, raised>>

\* An exception outside step() ends it anywhere: only the command in force is failed.
CrashRun ==
  /\ RunGoesOn /\ Between
  /\ over' = "crashed" /\ Slow!Close
  /\ IF active # None THEN FailActive(None) ELSE UNCHANGED vars
  /\ UNCHANGED <<maneuverVars, latest, turn, dispatched, infeasible, observed, raised>>

LoopNext ==
  \/ \E d \in Driving : Submit(d) \/ Resolve(d) \/ StartPlan(d)
  \/ RecoverRoute \/ GiveUpRoute \/ ReleaseForScenario \/ FinishRoute
  \/ StepRuntime \/ ShowManeuver \/ EnterStep
  \/ AdvanceWorld \/ EndRun \/ CrashRun

LoopSpec == LoopInit /\ [][LoopNext]_loopVars
-----------------------------------------------------------------------------
(* Properties.                                                             *)

\* No command is told two ends, by the bridge, the poll, a newer plan, the maneuver FSM
\* and the end of the run between them.
OneTerminal == \A d \in Driving : Len(terminals[d]) <= 1

\* When a run has ended in order, every command submitted has been told how it ended:
\* pending, superseded, running or over.
EveryCommandTold ==
  over = "ended" => \A d \in Driving : slow[d] # "new" => terminals[d] # <<>>

\* The command in force belongs to the latest driving command, however late the answers
\* to older ones arrive.
LatestOwns == active # None => active.id \in {WaitOf[latest], StepOf[latest]}

\* While the answer to the latest command is outstanding no frame propels the vehicle on
\* the word of another command: no answer, failure or end of an older one, and no lapse of
\* the stop itself, asks for a speed.  Three things of the loop's own do, since nothing
\* tells them of the wait: the step of a running plan, into which the command was spoken;
\* a route found again, which gives back the speed it had; and the scenario's release of a
\* stop, but only once the wait is no longer in force.
Awaited == {d \in Driving : d = latest /\ slow[d] = "pending"}
AwaitedAtRest ==
  stage = "after" /\ drove => \A d \in Awaited :
    \/ raised = "step" /\ d \in Live
    \/ raised = "recovery"
    \/ raised = "release" /\ active = None

\* The bridge's description: every slow request first installs a deterministic STOP hold,
\* and only a validated, current result may replace it.
WaitHolds == stage = "after" /\ drove => Awaited = {}
=============================================================================
