# Verification of carla_driving

This directory holds TLA+ models of the driving stack, the TLC configurations that
check them on small instances, and theorems proved with TLAPS for every value of the
constants. Each definition that models code is translated from the source; the
correspondence, line by line, is in `PROJECT.json` under `map`.

## 1. The system

A frame of `python -m integration.carla_runner` runs this chain:

    microphone or scenario -> recognition, intent, slots      voice, nlu
      + RGB/LiDAR/radar -> detection, fusion, tracks          integration/carla_perception.py, perception
      -> slow path (Qwen plan, on a worker thread)            runtime/orchestrator.py
         or the direct Qwen bridge                            integration/qwen_async.py
      -> canonical bridge (hold, then the plan)               integration/second_group_runtime.py
      -> maneuver FSM (steps of the plan)                     car_control_A/maneuver_fsm.py
      -> command runtime (one command in force)               integration/runtime_loop.py, car_control_A/behavior_fsm.py
      -> route and lateral (B), longitudinal (C) control      integration/route_*.py, car_control_B, car_control_C
      -> safety arbitration (D), overrides of the runner      car_control_D/safety_supervisor.py
      -> one apply_control() on the vehicle
      -> evidence, scenario verdict                           integration/scenario_*.py

The slow path, the direct bridge, the decision service, the microphone and the sensor
callbacks have threads. Everything else runs on the frame loop's thread, so its hazards
are orders of calls, exceptions between them, and one fact recorded in two objects.

| Component | State it keeps | Operations | Talks to | Hard part | Correct when |
|---|---|---|---|---|---|
| Slow path orchestrator | job and result queue, active job, revoked requests, closed flag | submit, poll, worker, close | frame loop, Qwen client | three threads; full queues; timeout against late result | each accepted command is answered exactly once while open |
| Canonical bridge | pending wait per command, latest id | submit, poll, fail_all_pending | slow path, command runtime | answers out of order, stale targets | only the latest command's plan replaces its hold; each command is told one end |
| Command runtime, behaviour FSM, voice adapter | command in force, gate, requested speed, stop hold, alerts; terminal records | submit, confirm, complete, fail, step, resets | B, C, D | ownership in two objects; several ends in one frame | they agree; stops leave no speed; alerts brake until cleared |
| Maneuver FSM | plan, step, timers, replanning budget | start, update, request_replan, fail | frame loop | preemption, pauses, supersession | one terminal per plan, bounded replanning |
| Frame loop | deferred commands, alerts of the frame | one frame | everything | order within a frame, exceptions, end of run | section 5 |
| Planning | none | score, validate, compile | Qwen service, worker | a check made at one place for a scene of another | what runs was asked for and allowed |
| Direct Qwen bridge | newest request, latest result | submit, latest, close | frame loop, worker | newest wins, deadline against answer | verdicts are final, replies grounded |
| Decision service and client | slots, states and counters of requests | decide, cancel, shutdown | model adapter | deadline, hang-up, shutdown at once | slots and counters add up, nobody waits for ever |
| Watchdog, sensor frames, session | heartbeats; frame buffers, event ledger; actors and world settings | beat/check/pause; callbacks, acquire; spawn, exit | simulator | callbacks against the loop; failing calls in clean-up | alerts are honest, events reach the loop, nothing is left behind |
| Perception | lead memory, hold for pedestrians, tracks | one call per frame | sensors, control | drop-outs, phantoms, identity | the lead is real, the hold lasts, ids do not jump |
| Control | integrators, targets, latched yellow, last word on the pedals | one call per frame | runtime | windup, stale targets, overrides | SpeedSound, AuthoritySound, LateralSound |
| Routes | recovery state, plan search, progress, coverage | plan, recover, project, extend | map, runtime | retries, self-crossing routes, forks | RoutesSound |
| Scenario and evidence | timeline, hazards, faults, contracts, log | one call per frame, end of run | runner | order of phases, exceptions while recording | ScenarioSound |
| Speech | queues, noise estimate; rules | capture, process, transcribe | microphone, runner | mishearing, full queue, stop | VoiceSound |
| D's own runtime, tools, data sets, vendored code | - | - | - | - | not modelled |

`PROJECT.json` lists all 22 components with what is left out of each, and 40 hazards,
each at the line where it bites with the properties that cover it.

## 2. Modules

| Modules | Model | Composition |
|---|---|---|
| `RequestLifecycle` | abstract: what the slow path promises its caller | - |
| `SlowPath` | the orchestrator, thread by thread | implements `RequestLifecycle` |
| `CommandRuntime` | `ControlRuntime` and the `BehaviorFSM` it owns | - |
| `ManeuverFSM` | the executor of a compiled plan | - |
| `FrameLoop` | bridge and frame loop in planner_v2 mode | extends `CommandRuntime`, `ManeuverFSM`; slow path = `RequestLifecycle` |
| `CommandRouting`, `PlanContract`, `QwenPlanner`, `PlanPipeline` | score, plan schema, the planner backend, compiler, validators | in this order |
| `DirectDecision`, `AsyncQwenBridge` | the direct path's decision and grounding; its worker and clock | the second extends the first |
| `QwenServing` | decision service and its client | - |
| `Watchdog`, `SensorFrames`, `SimulatorSession` | what surrounds the simulator's tick | - |
| `LeadFusion`, `ObjectTracks` | what is remembered of what was seen | - |
| `SpeedControl`, `ControlAuthority`, `LateralProgress` | longitudinal state, who has the last word, place on the route | - |
| `RouteRecovery`, `RoutePlanning`, `RouteProgress`, `RouteCoverage` | leaving the route, search, projection, extension | - |
| `ScenarioRuntime`, `EvidenceLog`, `RunSession` | the scenario, its record, set-up and teardown of runs | - |
| `VoiceCommand`, `LiveVoice` | rules of language, threads of the microphone | - |
| `Absent` | the value for "none" that several of them share | - |
| `*Proofs` (eight) | the theorems | extend the modules they are about |
| `MC*` (eight) | instances for TLC | see section 4 |

FrameLoop is built on the abstract lifecycle, not on the threads: `slow_live` checks that
the threads implement it, so the two fit together. Components whose
state the code does not share are checked beside one another, one at a time, in one
run: `MCVehicle` (variable `part`), `MCQwenPaths` (`path`), `MCCommandSources`
(`source`), `MCSlowPath` (`pace`). A step of one leaves the others' initial state alone.

Operators whose names end in `Mutant` stand beside the definition they alter.
Each is a plausible bug; with it in place of the original, the property named
for it in `PROJECT.json` fails.

## 3. How state and actions correspond to the code

**SlowPath, `runtime/orchestrator.py`.** An action is one atomic step of the code: one
`queue.Queue` operation or one block under `self._lock`; `callerPc`, `workerPc` and
`closerPc` say where each thread is between two of them. `submit_command` with the
eviction of the oldest job and the OVERFLOW result for it is SubmitRefused to
SubmitReinsert; `poll_slow` reads the active job, revokes it when overdue, drains until
the queue is empty and judges each; the worker gets, claims, infers, finishes and
publishes; `close` is flag, drain, sentinel. `_put_latest` stays three queue operations,
because its races are what NothingDropped is about; `latest` remembers which command last
entered the job queue. Time is two facts per command: its
deadline has passed, its age exceeds the model timeout.

**CommandRuntime, `runtime_loop.py`, `behavior_fsm.py`, `adapter`.** One action per public
operation. `step()` is FrameTick (tick, watchdog, expiry), FrameLateral, FrameArbitrate
(C, D, completion) and FrameFails for its exception handler. `fsm` is the FSM's record,
`active` the runtime's; their agreement is the property. Lifetimes are frames left:
expiry is inclusive (`>=`), timeout strict (`>`). D's chain is the class of its first
reason that applies. `authority` is a history variable: whose speed is requested.
`Redelivers` says whether an id may be delivered twice; only ConfirmingIsGated asks that it is not.

**ManeuverFSM, `maneuver_fsm.py`.** `update` is one operator with a disjunct per branch in
the order of the code. The working states are one, EXECUTING: no branch tells them apart.

**FrameLoop, `second_group_runtime.py`, `carla_runner.py`.** A frame is AdvanceWorld, Submit
any number of times, Resolve for each answer one poll returns, StartPlan, the stages of
`step()`, ShowManeuver, EnterStep. EndRun is the orderly end, CrashRun the outer
exception handler. A driving command has three ids: its own, its wait's (`WaitOf`) and
its plan's first step's (`StepOf`). Scenario commands are deferred while a plan runs,
spoken ones are not (`Live`). What the loop itself writes into the runtime before it looks at
commands is composed too, in the order of the code (`turn`): RecoverRoute (the speed a found route
gives back, with the LATERAL alerts cleared), GiveUpRoute, ReleaseForScenario and FinishRoute; how
recovery gets there is RouteRecovery, when a release is due ScenarioRuntime. `raised` is a history variable:
which of them, or a plan's step, asked for a speed last. atomic_v1, which compiles no plan, is CommandRuntime with
SlowPath. D_RUNTIME_REJECTED cannot happen. confirm_voice and reset_safety_latch have no
caller outside the tests, and clear_safety_alerts one in the direct path only (carla_runner 5134): they are
checked in CommandRuntime and are no step of this loop.

**Planning.** Score and disposition (`CommandRouting`), the schema and the checks of service and
worker (`PlanContract`), what the planner backend makes of each token
(`QwenPlanner`), the expansion of every behaviour into gated steps with its refusals
(`PlanContract`). A command is its intent and slots, a scene what the checks
read of it. `PlanPipeline` carries one command through all stages: asked, planned by one of
three backends (the production one, the rules, free text that the schema admits), served,
accepted, compiled, handed over. The compiler's loop is a recursive function, `Compilation`:
`AddStep` is one turn of it, with the side a return would take and whether it raised. Of two objects
equally far the order of the scene stands for that of confidence and id (`Place`).

**Direct path.** `DirectDecision` is the adapter: candidates, rules of safety, token,
assembly, grounding of the target. `AsyncQwenBridge` is its worker, one action per lock
region, with the wall deadline; the runner's handling of each verdict is its caller.

**QwenServing.** Admission, slots, deadline, cancellation, completion, metrics and shutdown of
the service, with the client's waits; injected faults are the scenario's.

**Around the tick.** `Watchdog` counts active time between resume and pause, with the calls
where the runner makes them. `SensorFrames` splits each callback at its lock.
`SimulatorSession` is entry, spawning and exit; any simulator call may fail, except that
`apply_settings` on entry, if it raises, is taken to have had no effect.

**Perception and control.** One action per frame. `LeadFusion` compares ranges in the order
of the code's gates, `ObjectTracks` is the greedy assignment by cost. `SpeedControl` has whole-number
speeds, gains and rate limits, and what perception reports of lights and limits (`SceneOf`: the light the ego
is at, the upcoming stop waypoints of its lane, the map's limit and the scenario's); `ControlAuthority` orders braking strengths; the fuzzy
policy's memberships and steering geometry are inputs. `LateralProgress` is what
the controllers remember between frames: cached references and the place along each.

**Routes.** `RoutePlanning` is the search over edges with blocked lane changes and its
retries, and the refusals of what is put together, loops among them; `RouteProgress` projection with window and ratchet, `RouteCoverage` the
extension fork by fork, `RouteRecovery` the state machine of a route that was left.

**Scenario, evidence, run.** `ScenarioRuntime` has the timeline, triggers, hazards, faults,
stop recovery, phases and verdict, for runs from the start and for segments that resume one
(`Resumed`: which actors, hazards and phases are left of the contract); `EvidenceLog` the recorder and monitor with an
exception between any two writes, the early end of a route run and what a run must show by its
purpose, runtime health included; `RunSession` set-up and teardown of two runs in one
simulator. The pose a segment starts from and the argument parser are left out.

**Speech.** `VoiceCommand` applies the intent rules, compounds, slots and the second
recogniser to words that stand for the phrases of the patterns. `LiveVoice` has the
three threads of the microphone and their queues.

An ordered chain of conditions is written IF/ELSE, not CASE: the guards of a chain
overlap, and CASE would leave the choice between them open. The proofs need this.
`LeadFusion` and `DirectDecision` had such CASEs, and a lemma failed for it.

## 4. Runs

| Run | Question | Bounds |
|---|---|---|
| `slow_live` | Does an interleaving answer a command twice, lose it, drop its result, give the slot to the wrong job? Do the threads implement RequestLifecycle, answers included, even if an inference hangs? | `pace` calm: 2 commands, job queue 1 (the default), burst 2, all outcomes; flood: 5 commands in one burst, past both queue limits, all READY; commands are named in the order they come |
| `command_safety` | Do FSM and runtime agree, is each end told and told alike, do stops leave no speed, do alerts brake, does elapsed authority win, does a speed go with its command? | a speed and a planned stop, redelivered at will; speeds 0 to 2; timeout 3 frames |
| `command_sources` | Do confirming state and gate stay together, and does each command end? Are scenario, record and run sound? Does one mishearing drive? | two of three commands, two of which wait for a confirmation, delivered once; 4 scenarios, two of them also resumed with some, none or all of their commands done; 7 contracts of a run, of up to 4 frames and 2 commands, some with an early end; utterances of one or two words and some longer, one word lost or confused; a microphone with trigger 2, end silence 2, segments of 6 frames, 3 voiced, pre-roll 3, a queue of 1 (code: 4), 3 utterances; 2 runs after one another, 3 jobs |
| `command_unconfirmed` (violated) | Is success reported only after an approval? | 1 gated command |
| `stale_speed` (violated) | Does the speed of a failed command stay in force? | as `command_safety` |
| `frame_safety` | Is each command told one end, does the latest own the vehicle, does a waiting command wait at rest but for what the loop itself does? | a scenario's command to sit a hazard out and a spoken two-step lane change; speeds 0 and 1 |
| `frame_wait` (violated) | Does the stop of a waiting command hold? | the same two, both spoken |
| `decision_paths` | Is what a model answers refused, changed or executed as scene, safety and command demand, on each of three paths? | some thirty commands x scenes x roads; limits none and 2; every token; written plans of up to two steps; three direct requests, time to live 2; a service of one slot with two calls |
| `vehicle` | The vehicle side of a frame, twelve components | 2 modules; 2 sensors and a spare, 2 events; an ego, 2 sensors, an event sensor; 3 ranges; 2 detections over 3 frames; whole-number gains; 8 views of up to three junctions, with lights told in each way the code knows, with and without limits of map and scenario; routes of 7 points with a crossing; 2 recovery attempts; 6 edges, where a lane change costs more than the long way round; 5 roads |
| `red_carried` (violated) | Does a yellow permit only its own junction? | the views of `vehicle` |
| `events_lost` (violated) | Is every collision told? | 2 events, 1 frame |
| `route_stale_speed` (violated) | Does a new route drive a dead command's speed? | 2 attempts |

Why the bounds are enough:

- SlowPath: with a job queue of one, two commands put one in inference and one in the
  queue or in `_enqueue_slow_job`, where eviction, revocation and completion meet. The result
  queue holds 2 * QueueSize + 2 = 4, so overflow needs five commands.
- CommandRuntime: supersession, redelivery and stale ends relate two commands; a third
  adds only a second supersession. Lifetimes of 2 to 5 frames around a
  timeout of 3 (of 2 in `command_sources`) make expiry, timeout and the three-frame success counter meet.
- FrameLoop: the lane change has a first step that waits, with a replanning policy,
  and a second that moves; the other plan sits emergencies out and asks for a
  confirmation when its time is up. Either comes before, during or after the
  other's plan. `MCView` identifies states that differ only in *which* alerts are latched or
  in the feedback already told: the loop branches on neither.
- decision_paths: the checks read a scene field by field, so the family has each field
  good and bad with every behaviour, and two of them bad together. Two
  requests meet in the newest-wins slot, a third arrives while one is replaced. Requests of
  the service are interchangeable: of two ways to give them faults one is kept.
- command_sources: the contracts between them demand each thing a run may be asked to show; the
  scenarios have each trigger, hazards of both release modes, whose holds outlast a frame, a fault with a span and one without, and
  commands that overtake one waiting for its target.
- vehicle: thresholds are small, and each is passed from both sides; memories (buffers,
  caches, tracks) hold one entry less than can be asked of them.
- Deadlock is checked in `slow_live` and `command_safety`. The other runs
  end, because the run, the mission or the story does.

What the violated runs show (details under `findings`):

- `command_unconfirmed`: a KEEP_LANE command waiting for confirmation completes
  after three frames without an approval.
- `frame_wait`: a command spoken into a running plan gets its stop, but the next step of
  the older plan writes its own speed into the runtime and the vehicle is driven.
- `events_lost`: a collision callback between reading the ledger's set and its lock adds
  to a set that a drain has just replaced.
- `route_stale_speed`: a successful replan gives back the speed of an expired command.
- `stale_speed`: a command is delivered again after its end. `submit_voice` fails the command in
  force before the FSM refuses the old id, and the next frame drives, with nothing in force, at the failed
  command's speed.
- `red_carried`: a yellow too close to stop for commits the vehicle; the perception then reports the next
  junction's red line, and the commitment covers that one too. A light with a trigger volume gives a frame
  without a line when it is passed, which ends the commitment; one known by its stop waypoints only does not,
  nor do lights the ego is never "at".

`PROJECT.json` holds one mutant per property. Properties that join several claims were also tried against a mutant
of each part, and every one was caught:

- ScenarioSound: hold not waited out, queued command lost when a later one overtakes it; a run that ends early
  without its commands, health not asked, the runtime's own wait taken for the user's command, no verdict from
  the exception handler; route not planned again after the light moved the start, world not set free, a lead of a killed run
  left standing, light not given back.
- RoutesSound: search that takes any node, no run-up before a change; a jump counted as distance, finish near the end
  of a loop, window not refreshed; first branch of a fork always.
- SpeedSound: integral that always winds, crossfade of throttle and brake, posted limit forgotten, emergency that
  releases the brake.
- VoiceSound: trigger frames not in a row, an utterance both dropped and offered again.

### Properties worth a comment

- `Answering` joins AnsweredOnce, NothingLost, MarkersRetire and ActiveSlot. `LatestKept`
  exempts a worker that died of the second `put_nowait`'s Full, which a flood can cause.
- `AwaitedAtRest` is the part of the bridge's promise that does hold: while the latest command waits, no
  frame propels the vehicle on the word of another command, even after the wait has lapsed. What may
  is named, since nothing tells it of the wait: the next step of a plan the command was spoken into, a route found again,
  and, once the wait is no longer in force, the scenario's release of a stop. `WaitHolds` is the promise
  as the module states it.
- `NoStalePropulsion` is the comment in `step()` ("No stale voice command may retain propulsion
  authority after a terminal failure/expiry"); it allows the speed of a *succeeded* command to stay, and fails.
  `SpeedGoesWithItsCommand` says how far it does hold: whatever ends a command takes its speed away,
  or it succeeded, or it was displaced by a submission that sets no speed itself, one whose id had ended or one that waits for
  confirmation.
- `PassIsEarned` asks of a pass what each purpose of a run must show. A takeover contract asks no
  health: a watchdog alert alone earns it (carla_runner 2660-2681 asks it of the other purposes).
- `EndsAreReported` excepts the adapter's audit-only REJECTED records.
- `EveryCommandTold` is stated for runs that end in order; the exception handler fails the
  command in force only (hazard at `carla_runner.py:6663`).
- `RedNeverPermits` is the docstring's promise per junction, and fails. `SpeedSound` has what holds, PermissionsLapse:
  red is passed only while lights against the ego, each with its line, have followed one another without a gap since
  a yellow too close to stop for.
- `VoiceSound` speaks of one intent per utterance: which actions of a compound sentence are dropped is
  no part of it (section 7, Speech).
- `SensorsReachTheLoop` allows the loss that `events_lost` shows, and no other.

## 5. Fairness

- `SlowPath!LiveSpec` (in MCSlowPath's MCSpec): the caller goes on polling and never stays
  inside a call (the loop polls every frame, `carla_runner.py` 5291-5507), the worker
  thread is scheduled. `AnswersCome` says what follows: every accepted command is answered
  if inference returns, because its HTTP client has a timeout, and no flood comes; and
  if only the clock runs, at least the command in inference is, though inference hang for
  ever. Nothing is assumed of submissions or of `close`. The safety half, `Lifecycle`,
  needs no fairness.
- `CommandRuntime!LiveSpec` (in MCCommandSources's MCSpec): a frame follows every tick and a tick every frame.
  `CommandEnds` follows from expiry alone; no caller is fair.
- `AsyncQwenBridge!BridgeFairness`: the control loop comes round and wall time passes;
  nothing is assumed of worker or inference, the deadline answers for them.
- `QwenServing!ServeFairness`: handler threads run, their deadlines pass, and a queued job is
  started; nobody hangs up or shuts down by fairness. That slots return assumes, inside
  the property, that inference does.
- `RequestLifecycle!Spec` has weak fairness on answering while open.
- FrameLoop has no liveness property: a red light or a stop hold may pause a plan for ever.

## 6. Theorems

All hold for every value of the constants that satisfies the named assumptions of the
modules. Each property is also checked by a run, on a small instance.

| Module | Theorem | Property | Needs beyond the modules' assumptions |
|---|---|---|---|
| SlowPathProofs | TypeCorrect | TypeOK | - |
| | NothingDroppedCorrect, WorkerSurvivesCorrect | NothingDropped, WorkerSurvives | - (both speak of calm, as the property does) |
| | AnsweringCorrect | Answering | - |
| | LatestIsKept | LatestKept | - |
| | LifecycleCorrect | Lifecycle: refinement of RequestLifecycle | - |
| CommandRuntimeProofs | OwnerCorrect, TypeCorrect | the inductive invariant | - |
| | OneOwnerCorrect, EndedNeverReturnsCorrect, StopMeansZeroCorrect, LatchBrakesCorrect, ElapsedWinsCorrect | as named | - |
| | EndsAreReportedCorrect | EndsAreReported | - |
| | ConfirmingIsGatedCorrect | ConfirmingIsGated | ids come once (~Redelivers) |
| | SpeedGoesWithItsCommandCorrect | SpeedGoesWithItsCommand | - |
| FrameLoopProofs | LoopInvCorrect, LoopTypeCorrect | the inductive invariant | - |
| | OneTerminalCorrect, EveryCommandToldCorrect, LatestOwnsCorrect, AwaitedAtRestCorrect | as named | - |
| VehicleProofs | SpeedIsSound | SpeedSound | - |
| | LateralIsSound | LateralSound | - |
| | AuthorityIsSound | AuthoritySound | C asks for throttle or brake, not both (WantedApart) |
| | SessionRestores, WatchdogIsHonest, SensorsSound | NothingLeftBehind, AlertIsLostTime, SensorsReachTheLoop | - |
| | LeadSound, VruHoldCorrect, IdentityCorrect | LeadIsReal, VruHoldLasts, IdentityHolds | - |
| QwenProofs | NewestOwnsTheBridge, VerdictsAreFinal, RepliesStayGrounded | NewestOwnsBridge, VerdictsStand, RepliesAreGrounded | - |
| | ServiceAccountsCorrect | ServiceAccounts | - |
| PlanProofs | PipeInvCorrect | the inductive invariant | - |
| | StopsAreObeyedCorrect, LaneChangesAreGuardedCorrect, RefusedForTheSceneCorrect, IntentKeptCorrect | as named | - |
| RouteProofs | RecoveryIsSound, ProgressIsSound, CoverageIsSound, PlanIsSound | RecoverySound, ProgressSound, CoverageSound, PlanSound | - |
| | RoutesAreSound | RoutesSound, the four together | - |
| VoiceProofs | UnderstandingIsSound, MicrophoneIsSound | SpeechSound, LiveSound | - |
| | VoiceIsSound | VoiceSound, both together | - |

The assumptions say what values of the constants mean: `None` is no number, record or
command; queue sizes are positive; the three ids of a driving command differ (what
`submit` and `poll` construct); ids of a bridge come once. Some
deserve a word. `LateralAssumption` says that a loop of road has more points than are searched
when a route is taken up again (the runner searches 50, carla_runner 477-478): on a shorter
one the index found may be that of another pass. `BridgeAssumption` says that each track identity names one object, and that
a written decision (of a text backend) is only asked for where no rule of safety
applies: nothing in the code would hold it to one. RulesOverrideTheModel, a part of
RepliesAreGrounded, is therefore a theorem about the token backend. `ServeAssumption`
takes finitely many requests. WantedApart is what SpeedIsSound proves of C.
`SituationAssumption` gives a situation the types of its fields and says that
a lane that is not observed is not known to exist, which is how the runner fills the planner's view
(carla_runner 756-817); `PlanAssumption` says that a free plan has steps, each of a known
behaviour, which the plan schema demands before any check is made.
`PlanningAssumption` says that the map is finite, that a lane has two samples or more, that a place
where the marking permits a change lies beside a sample of the neighbour, and that the
estimate is consistent: going over a connection shortens it by no more than the
connection's length. A straight line's length is, where an edge begins where the one before it ends, as
in the simulator's topology: `length_m` does not count a gap between the two. `RoutesApart` says how far legs of a route lie
apart that pass near each other: without it the nearest point of the search window may be
another leg's, in the code as in the model. `PreRollAssumption` holds for the
default configuration of the microphone, which nothing in `__post_init__` demands of another.

How the arguments go:

**SlowPath.** TypeOK alone cannot show that the result queue never fills: what bounds it is
how much work can still *become* a result. `BacklogInv` counts results in the queue and bound for
it (Committed) and jobs queued or held (Prospective) against QueueSize + 1 + burst. A
poll resets `burst` only when it has seen the queue empty. `AnswerInv` adds: a command
is in at most one of five places, job queue, result queue, the poll's, the worker's and
the caller's hands (`Places`); a thread holds a job only inside the operation that
has it (`Hands`); a command in a place is accepted and unanswered, unless
revoked, and revoked work was answered TIMED_OUT and is past the job queue (`Ledger`);
in calm and while open nothing unanswered leaves (`Kept`, which rests on
NothingDropped); the active job is not revoked (`Slot`). A move of a job
takes it from one place and puts it into another, which keeps all of these. From AnswerInv
follow Answering and the refinement: six actions refuse, accept or answer, CloseBegin closes, and every
other step changes nothing the caller was told. `Newest` is what a flood cannot break: while
open the job queue ends in the latest command, and a worker that holds an older one still has it to come;
so once the latest command has become a result, the worker is idle and nothing follows
that result but the displaced job the caller is still reporting. A thread that discards the
oldest result therefore never discards that one (LatestIsKept, with Places).

**CommandRuntime.** `Owner` = TypeOK, OneOwner, EndedNeverReturns and OneHolder (the FSM has
at most one holder; without it ending the command in force could leave another). First
come facts on each FSM operation, then one lemma per action. LatchBrakes adds
AlertsCoverLatch (between tick and arbitration the frame's alerts stand for the latch);
SpeedGoesWithItsCommand rests on NoneDue; EndsAreReported adds `Telling`, what a frame in
progress still has to report; ConfirmingIsGated is inductive with Owner.

**FrameLoop.** Every step of the loop is a step of the runtime, or sets its speed from outside;
both keep `Owner`. `LoopInv` adds FrameOrder (a dispatched plan exists only between poll and
`step()` of one frame, and is the latest command's), LatestInv, and Open: a
command's list of ends is empty exactly while it is owed one. `WaitInv` adds that
while the latest command is pending, a speed is requested or the frame drives only if `raised` names a cause that
AwaitedAtRest admits.

**Control.** SpeedInv says that every memory of the controller is a number and that a
commitment stands only while a yellow of the same stretch of lights has asked for more than a comfortable stop; `SeenTyped`
types what perception makes of any view. For B, `LateralInv` says where the place on the mission is
remembered: as the last index while the mission is the active route, as the progress of its object
while it is not, and nowhere for a new mission, which is searched from its start; and that the cache
holds each route once under an object of its own, whatever was evicted. That two points of a
search are never a loop apart (`SameRemainder`) makes the nearest one the right one.
AuthoritySound follows the order of overrides, level by level.

**Simulator.** SessionInv: the registry holds every living actor once, the ego before what hangs on
it, and clean-up goes through it from the end. WatchInv relates each beat's age to the
time the watchdog was active, and says that between frames all beats are equally old. BufferInv and
EventInv place each frame and event: in a callback's hands, recorded, told, or lost where
the code allows it.

**Perception.** LeadInv: what the tracker remembers is a lead it saw, no longer silent than its
age and no older than the hold. The rest is one frame's fusion, gate by gate. `TrackInv`:
every id given is below the next one, the tracks alive have not been forgotten and keep the class
they were created for. A frame names any number of detections one after another, so `NamingDistinct`
proves by the least number that would fail that ids are new or still unclaimed.

**Qwen.** BridgeInv: an answer on its way or stored is the answer to the request it is numbered
with. GroundInv: every decision that leaves the adapter's checks is the one that was
made, normalised, perhaps with its target put in, and so is the command made of it.
ServeInv: a request's place decides what future, callback and release it can have, and
each step moves at most one request in or out of the sets that are counted. Sums
of counters are proved with one indicator per set.

**Planning.** `PipeInv` says of each stage that it holds what the stages before it compute from
the situation: the request is the one made of command, scene and road; the plan is an answer of
the backend in question; a served or accepted plan has no faults; the steps are the compilation's.
The four properties then follow from facts about operators. Plans may be of any length, so what the
compiler makes of them needs an induction: `CompiledPlan` proves it over the
turns of the loop, as `Compiling`, by taking the least turn that would fail. `Compiling` says
that every lane change so far waits for its gap, every return answers the avoidance last passed,
the return side is that of the last avoidance, a list in a set of behaviours that needs no lane change
stays in it, and a list whose steps keep to one side compiles to steps that do. For the production
backend, `OfferedIs` and `ChosenForIntent` go through what the model may be left with and
what is made of its token, `ExpandedSteps` through the plans built around it; the check of form
is then clause by clause that of one built step.

**Routing.** RecoveryInv says that time off the route counts from no earlier than the ego left it, and
that giving up is for good. ProgressInv keeps the place within two samples of the ego: the nearest
point of the window exists (`NearestPoint`, by three least numbers in turn), and RoutesApart
makes it one of the ego's own pass. CoverInv: of two branches of a fork that nothing
else leads into, neither is more than a pass ahead of the other.

For the search, `Searching` says what the frontier, the costs and the parents promise at any moment:
an edge that was reached either waits in the frontier at its cost, or is not the target and each
of its connections has been tried; and it has a parent it was reached from at that
cost at least. `SearchGoesOn` keeps that over one pop. When the target is taken,
`NoneCheaper` goes back along any way to it: of a way that undercuts the cost some edge would wait in
the frontier with a smaller promise, because the estimate is consistent. Costs fall along the
parents, so the path traced back repeats no edge and reaches the start within as many steps as there
are edges (`TraceFacts`), and what it costs is itself among the ways (`PathCostFacts`);
together, the least. When the frontier is empty nothing that was reached leads to the target
(`NoneLeft`). The reference that the cost is compared with, `Ways`, is defined by recursion; its
stages are proved by the least stage that would fail.

`Assembling` then says of the samples laid so far that each can be driven to from the one before, that
changes lie RunUp apart, and that the last one is where the path's next lane is entered. A
change begins where the marking lets it be completed (`ConnectorFacts`), at least RunUp after
the lane was entered (`UsableFacts`), so it is RunUp after the end of every change
before (`SpacedChange`). What is cut out begins at the first sample, since that is the start
itself, and differs from what was laid in its last sample only (`CutFacts`), which is why
RouteIsDrivable excepts the last step.

**Voice.** SoundInv relates what the segmenter counts to what was heard: the loud frames
in a row are the end of the pre-roll, which is new. `Ledger` places every utterance: reported, in
a queue, or in one thread's hands, in the order they were cut; a step of a thread moves
one utterance to the next place or reports it. SpeechInv: the command is what was
understood of what was heard, but for the confirmation it may need. `IntentIsARule` reads the rules
as the first that fits, so an intent says what no earlier rule found.

### Only model-checked

- Liveness (`CommandEnds`, `AnswersCome`, `AnswerOrAlert`, `NobodyWaitsForEver`): fairness
  is beyond the prover.
- `ScenarioSound`: its content is in the instance's scenarios and runs.
- The five properties that fail.

## 7. What the models show of the code beyond the runs

Seen while modelling. No run is spent on these: for most no document states the contrary; where a comment
quoted below does, either the words leave room for what the code does or the model abstracts the part it would be shown with.

*Speech.* Negation is honoured for stop, brake, faster and lane change only: 不要减速 is a
valid SLOW_DOWN, 不要左转 a TURN, 别绕开 an AVOID_OBSTACLE, 不要靠边 a PULL_OVER. "Stop" is in no compound
pair, nor speed with turn: 保持当前车道立即停车 is KEEP_LANE, 左转然后停车 TURN, 绕开行人停车
AVOID_OBSTACLE, although intent_classifier 66-72 says that no action is dropped; the full
text still goes to Qwen. 刹车 without "!" is UNKNOWN. 保持一点 and 速度调到一点 read 一 as the speed 1. A
number in a STOP text sends it to the verifier, and if that is unavailable gates the stop. The
death of parec ends the capture thread without telling anyone; noise above the threshold
is never learnt, so 7 s utterances repeat; the final flush drops silently when the queue is
full; a "queue full" error may precede results of earlier utterances.

*Slow path.* In a flood the worker may die of the second put_nowait's Full, and older
results are discarded unanswered. Staleness is judged when inference completed
(orchestrator 465), so a plan that waited in the result queue is dispatched after its deadline. Beyond
QueueSize + 1 submissions between polls a revocation marker may stay for the life of the process.

*Planning.* 直行 is parsed as a TURN with direction STRAIGHT (intent_classifier 602-609, parser
230 and 344), but the side filter of `_choice_codes` (qwen_service/service.py 678) knows LEFT and RIGHT
only: the production model may choose between a left and a right turn, and what it chooses is
dispatched, although the comment at 652-654 calls the intent "a semantic contract". The rules hold
instead. IntentKept is therefore stated for the two sides. allowed_behaviors is checked for the first compiled step only.
`_compile_avoid`'s default of 3.0 may exceed the scene's limit. START offers
SET_SPEED, which is refused without a speed. A lone RETURN_TO_LANE never compiles. A stop
plan for stale perception is rejected by the worker. EMERGENCY_STOP at LOW risk gets the
safe wait KEEP_LANE_LIMITED. A conflict with an incomplete command scores 3 and is
planned, a conflict alone scores 2 and is held.

*Qwen.* `_build_qwen_context` (carla_runner 2519-2527) writes `class_name` and no track_id while
`_explicit_target_candidates` (qwen_vl_adapter near 645) reads `class` and `track_id`, so a
described target is never found and becomes a STOP to confirm. A safety rule's STOP or SLOW_DOWN
with a target absent or ambiguous raises in `_ground_explicit_target`: QWEN_ERROR. A recommended
SLOW_DOWN overrides the model's STOP. An answer after the deadline but before the next
poll is accepted. START sets requested_speed before admission. DecisionService releases
the slot after the result is visible (spurious 429); submit after shutdown leaks a slot; the
injector's delay precedes the call, so the service answers EXPIRED, and `_call_index`
counts calls, not commands; `_timings` and `_captures` leak; the adapter's TimeoutError is
counted as the service's.

*Vehicle.* Both modules beat at frame end right before pause, and the check is right after
resume, so no slow stage raises RUNTIME_WATCHDOG_TIMEOUT, though watchdog.py:44-45 says that
control, perception and logging stay inside the active interval. A pedestrian class that
drops out for a frame lowers the emergency floor from 8 m to 5 m. Ties in track costs
depend on the order of a set. A scenario's raw control hides perception's brake
override. Fusion's ValueErrors are not caught as PerceptionAcquisitionError.

*Control.* While a
command awaits confirmation C is not stepped, so `_last_throttle` and `_previous_target` are stale
on approval. C's stop planning never reaches CREEP or HOLD at a red light, because D's
stop_line_guard is 8 m. raw_control_override replaces C's harder brake and steers 0.
LongitudinalController.reset is never called by the runner. D's COMMAND_NEEDS_CONFIRMATION
uses hold_brake below a TTC emergency, but the runtime passes no such command.

*Lateral.* The cache of adapted routes is FIFO of 32, and every hold frame of a recovery
builds a new reference, so the mission's may be evicted. Replan and refresh call reset()
without preserve_steer, so the steering may jump to 0.

*Routes.* The route is cut at the sample nearest to the destination, whichever lane it is on, so its last step
may cross a marking that permits no change (route_manager 1546); RouteIsDrivable excepts that step. Blocked connections are global, so a plan may be ROUTE_UNREACHABLE although the same
change is feasible elsewhere on the edge. A destination up to maximum_gap behind the start
yields a two-point route backwards, further behind ROUTE_DISCONTINUOUS although a loop
exists. Recovery attempts are never reset on success. With no previous progress ties pick
the later leg. `build_lane_change_route_reference` has no heading gate, although
`select_heading_compatible_waypoint` says "live actor routes always apply this direction gate".
`build_route_reference` consumes its direction at the first fork even without a matching
branch. A TURN as first step under the start-up topology route leaves the route
unchanged (carla_runner 5656-5660, 846-872). JUNCTION_EXITED takes a heading change of 25
degrees to either side. EnterStep may set a requested speed after a latched failure.

*Frame loop.* A route found again, and a scenario's release of a stop, set a speed whether or not a
command waits for its answer (AwaitedAtRest). When a step's route fails (carla_runner 6313-6331) the maneuver FSM is terminal
after the restoration block (6055-6147) of that frame, and later frames skip it
(5914-5917): the mission route is never restored, although the comment at 6055-6056
says "A finite maneuver route must never remain the active lateral reference after the
maneuver has terminated." A plan superseded by another loses it too (5650-5672). The alert for
such a step is appended to a list no later step() reads. A duplicate submission id overwrites
`_pending` (second_group_runtime 131). `complete_active` of a gated command leaves the
speed of an earlier, failed one requested.

*Scenario.* A perception outage leaves `_front_path_clear_since_s` standing. A deactivated
hazard actor has no distance, so in actor_distance mode its hold is never released. A
release for one hazard can end a stop held for another; each recovers once. A fault of duration 0
is never active. `_fault_active` never shrinks, so a late response is credited.
The internal wait's SUCCEEDED satisfies post_recovery_command_succeeds (runner 5898-5899). Resumed
segments keep absolute command times and re-fire progress-triggered faults.

*Evidence.* `complete` writes run_complete before the summary file. A non-finite value counts
the frame without writing it, and in the summary makes fail and close raise again, so that
the light is not restored. OSError in the handler replaces the original error. The monitor's
single_terminal ignores routed commands without a terminal; route_recovery_succeeded
stays true if the car strays again.

*Run.* Walkers, props and sensors do not get the `acceptance84:` prefix, so after a killed
run the next does not remove them, although the comment at carla_runner 3534-3537 says
"every other actor created by this runner". A light frozen by a killed run stays frozen. The
handler's emergency brake comes after the session destroyed the ego. Weather and map
are not restored. `live_voice.stop` may raise, and then orchestrator, recorder and
light are skipped. `_scenario_startup_maneuver` plans a single command's lane change into the initial
route, although its docstring says "Keep the mission lane until" it is commanded.

## 8. Not modelled

Detection, projections, steering geometry, braking curves and fuzzy membership are
arithmetic; their conclusions are inputs. So are the acoustic models and the tables for
homophones. Parsing of envelopes, HTTP and files is reduced to its result. placement
and mission_placement, the legacy Kalman tracker and D's own runtime have no caller
in the vehicle entry point. Tools, data sets and vendored code are not part of
the running system. `PROJECT.json` names the reason per component.

## 9. Next

1. Proofs: ScenarioSound, from an account of hazards, faults and their clearance; what
   RequestLifecycle itself guarantees, as theorems about every implementation.
2. Model: more of `route_manager.py` and `scenario_extensions.py`.

## 10. Running

    tlc -workers 2 -config slow_live.cfg MCSlowPath
    tlapm SlowPathProofs.tla

`command_sources` (0.6 million states), `vehicle` (0.4 million) and `decision_paths` (0.3 million, many
transitions) are the largest runs, up to four minutes each; the longest proofs are SlowPathProofs,
PlanProofs and RouteProofs, a few minutes each.
