------------------------------ MODULE RunSession ------------------------------
(* One process after another runs a scenario in the simulator they share:    *)
(* run() of carla_runner.py around its frames.  Every call it makes may raise *)
(* and the process may be killed at any moment; actors, the world's clock and *)
(* the scenario's traffic light outlive it.                                   *)
EXTENDS Integers, Sequences, FiniteSets, Absent
LOCAL INSTANCE SequencesExt

CONSTANTS Jobs,     \* what runs are asked: [town, clean, plan, light, cast, late, uses, log]
          MaxRuns   \* bounds the runs

VARIABLES job, runs,
          at,       \* where run() is; "idle" between two runs
          how,      \* "running", "returned" (so far), "raised", "aborted" or "killed"
          standing, \* actors in the world, [kind, run]
          clock,    \* the world's settings: "free" or "stepped"
          signal,   \* the traffic light: "cycling", "frozen" (by somebody) or "held" (by a run)
          town,     \* the map loaded
          found,    \* what the run found and has to put back, [clock, signal]
          tracked,  \* the session's actors, in the order they were tracked
          waiting,  \* kinds of actor that appear during the frames
          helpers,  \* what the process holds open
          record,   \* the run's log: None, "open", "completed" or "failed"
          anchor, route, \* where the ego starts, and where the planned route does
          braked,   \* the ego was told to brake after a failure
          failures  \* calls of the cleaning up that did not do what they should
sessionVars == <<job, runs, at, how, standing, clock, signal, town, found, tracked, waiting,
                 helpers, record, anchor, route, braked, failures>>
simulator == <<standing, clock, signal, town>>
process == <<found, tracked, waiting, helpers, record, anchor, route, braked, failures>>

Actor(kind) == [kind |-> kind, run |-> runs]
\* Actors named with the runner's prefix; walkers, props and sensors have no such name.
Owned == {"ego", "vehicle", "lead"}
Inside == {"stepping", "driven", "cast", "ready"}

RunInit ==
  /\ job \in Jobs /\ runs = 0 /\ at = "idle" /\ how = "killed"
  /\ standing = {} /\ clock = "free" /\ signal \in {"cycling", "frozen"} /\ town = "north"
  /\ found = [clock |-> None, signal |-> None] /\ tracked = <<>> /\ waiting = {} /\ helpers = {}
  /\ record = None /\ anchor = None /\ route = None /\ braked = FALSE /\ failures = {}

Goes(step) == at' = step /\ UNCHANGED how
\* Before the try block an exception simply ends the process; in it, it reaches the handler,
\* through the session when that has been entered.
Aborts == at' = "idle" /\ how' = "aborted"
Raises == at' = (IF at \in Inside THEN "leaving" ELSE "failing") /\ how' = "raised"

------------------------------------------------------------------------------
(* Before the simulator is touched.                                           *)
Begin ==
  /\ at = "idle" /\ runs < MaxRuns /\ runs' = runs + 1
  /\ job' \in Jobs /\ at' = "asked" /\ how' = "running"
  /\ found' = [clock |-> None, signal |-> None] /\ tracked' = <<>> /\ waiting' = {} /\ helpers' = {}
  /\ record' = None /\ anchor' = None /\ route' = None /\ braked' = FALSE /\ failures' = {}
  /\ UNCHANGED simulator

\* The scenario, its contradictions with the arguments, the detector.
Prepare ==
  /\ at = "asked" /\ (Goes("prepared") \/ Aborts)
  /\ UNCHANGED <<job, runs, simulator, process>>

\* The log is opened before the try block: what raises between the two leaves it open.
OpenRecord ==
  /\ at = "prepared"
  /\ \/ record' = (IF job.log THEN "open" ELSE None) /\ (Goes("try") \/ Aborts)
     \/ Aborts /\ UNCHANGED record
  /\ UNCHANGED <<job, runs, simulator, found, tracked, waiting, helpers, anchor, route, braked, failures>>

\* The remote model's backend and bridge, and the microphone's recogniser, in this order.
OpenHelpers ==
  /\ at = "try"
  /\ \/ Goes("helped") /\ helpers' = job.uses \ {"orchestrator"}
     \/ Raises /\ helpers' \in {job.uses \cap h : h \in {{}, {"backend"}, {"backend", "bridge"},
                                                         {"backend", "bridge", "voice"}}}
  /\ UNCHANGED <<job, runs, simulator, found, tracked, waiting, record, anchor, route, braked, failures>>

\* The map is loaded when it is another one, or the scenario wants a clean world; that
\* empties the world and resets its settings.
Connect ==
  /\ at = "helped"
  /\ \/ /\ job.town # town \/ job.clean
        /\ town' = job.town /\ standing' = {} /\ clock' = "free" /\ signal' = "cycling"
        /\ (Goes("connected") \/ Raises)
     \/ job.town = town /\ ~job.clean /\ Goes("connected") /\ UNCHANGED simulator
     \/ Raises /\ UNCHANGED simulator
  /\ UNCHANGED <<job, runs, process>>

\* _cleanup_stale_scenario_actors: one after the other, until one cannot be destroyed.
Stale == {a \in standing : a.kind \in Owned}
CleanUp ==
  /\ at = "connected"
  /\ \/ standing' = standing \ Stale /\ Goes("cleaned")
     \/ \E gone \in SUBSET Stale : standing' = standing \ gone /\ gone # Stale /\ Raises
  /\ UNCHANGED <<job, runs, clock, signal, town, process>>

\* Blueprints, the control runtime, the Qwen client and the orchestrator.
Build ==
  /\ at = "cleaned"
  /\ \/ Goes("built") /\ helpers' = job.uses
     \/ Raises /\ helpers' \in {helpers, job.uses}
  /\ UNCHANGED <<job, runs, simulator, found, tracked, waiting, record, anchor, route, braked, failures>>

Managed == job.plan \in {"destination", "coverage"}
\* Where the ego starts: a road is sought that fits the scenario's manoeuvre and its actors'
\* lanes, or it is the spawn point asked for.
Start == IF job.plan = "fitted" THEN "sought" ELSE "asked"
\* From there a route is planned, or (later) the scenario's own line is laid.
PlannedFrom(place) == IF job.plan = "drawn" THEN None ELSE place
Plan ==
  /\ at = "built"
  /\ \/ Raises /\ UNCHANGED <<anchor, route>>
     \/ Goes("planned") /\ anchor' = Start /\ route' = PlannedFrom(Start)
  /\ UNCHANGED <<job, runs, simulator, found, tracked, waiting, helpers, record, braked, failures>>

\* Behind the stop line of a real light of the map.
LightAnchor == "light"
\* A scenario with a traffic light starts before a real one, which is set and frozen; its
\* route is planned again from there.
Reroute == route' = (IF Managed THEN anchor' ELSE route)
BindLight ==
  /\ at = "planned"
  /\ \/ ~job.light /\ Goes("bound") /\ UNCHANGED <<signal, found, anchor, route>>
     \/ job.light /\ Raises /\ UNCHANGED <<signal, found, anchor, route>>
     \/ /\ job.light /\ Raises /\ anchor' = LightAnchor
        /\ \/ found' = [found EXCEPT !.signal = "unread"] /\ UNCHANGED signal
           \/ found' = [found EXCEPT !.signal = signal] /\ signal' \in {signal, "held"}
        /\ UNCHANGED route
     \/ /\ job.light /\ Goes("bound") /\ anchor' = LightAnchor
        /\ found' = [found EXCEPT !.signal = signal] /\ signal' = "held" /\ Reroute
  /\ UNCHANGED <<job, runs, standing, clock, town, tracked, waiting, helpers, record, braked, failures>>

\* _warm_up_loaded_map: a world left in synchronous mode is set free first.
WarmUp ==
  /\ at = "bound"
  /\ \/ clock' = "free" /\ (Goes("warm") \/ Raises)
     \/ clock = "stepped" /\ Raises /\ UNCHANGED clock
  /\ UNCHANGED <<job, runs, standing, signal, town, process>>

------------------------------------------------------------------------------
(* The session.                                                               *)
Enter ==
  /\ at = "warm"
  /\ \/ clock' = "stepped" /\ found' = [found EXCEPT !.clock = clock] /\ Goes("stepping")
     \/ Raises /\ UNCHANGED <<clock, found>>
  /\ UNCHANGED <<job, runs, standing, signal, town, tracked, waiting, helpers, record, anchor, route,
                 braked, failures>>

\* An actor is tracked as soon as it stands; what is done with it next may raise.
Stands(kind) == standing' = standing \cup {Actor(kind)} /\ tracked' = Append(tracked, kind)
NoneStands == UNCHANGED <<standing, tracked>>

SpawnEgo ==
  /\ at = "stepping"
  /\ \/ Raises /\ NoneStands /\ UNCHANGED route
     \/ Raises /\ Stands("ego") /\ UNCHANGED route
     \/ Goes("driven") /\ Stands("ego") /\ route' = (IF route = None THEN anchor ELSE route)
  /\ UNCHANGED <<job, runs, clock, signal, town, found, waiting, helpers, record, anchor, braked, failures>>

CastOrder == <<"vehicle", "walker", "prop", "lead", "sensor">>
Missing == SelectSeq(CastOrder, LAMBDA k : k \in job.cast \ (ToSet(tracked) \cup waiting))

\* The first of the candidate places that is free is taken, or none is.
Placed(kind) == Stands(kind) /\ (Raises \/ UNCHANGED <<at, how>>)
Unplaced == NoneStands /\ Raises
PlaceVehicle == Placed("vehicle") \/ Unplaced
\* A walker whose goal cannot be computed stands already.
PlaceWalker == Placed("walker") \/ Unplaced
PlaceProp == Placed("prop") \/ Unplaced
PlaceLead == Placed("lead") \/ Unplaced
AttachSensors == Placed("sensor") \/ Unplaced
Place(kind) ==
  CASE kind = "vehicle" -> PlaceVehicle [] kind = "walker" -> PlaceWalker [] kind = "prop" -> PlaceProp
    [] kind = "lead" -> PlaceLead [] kind = "sensor" -> AttachSensors
SpawnCast ==
  /\ at = "driven" /\ Missing # <<>>
  /\ IF Head(Missing) \in job.late
     THEN waiting' = waiting \cup {Head(Missing)} /\ NoneStands /\ UNCHANGED <<at, how>>
     ELSE Place(Head(Missing)) /\ UNCHANGED waiting
  /\ UNCHANGED <<job, runs, clock, signal, town, found, helpers, record, anchor, route, braked, failures>>

\* The sensors warm up, the microphone starts, the first command is taken.
WarmSensors ==
  /\ at = "driven" /\ Missing = <<>> /\ (Goes("ready") \/ Raises)
  /\ UNCHANGED <<job, runs, simulator, process>>

Appear ==
  /\ at = "ready"
  /\ \E k \in waiting : waiting' = waiting \ {k} /\ Place(k)
  /\ UNCHANGED <<job, runs, clock, signal, town, found, helpers, record, anchor, route, braked, failures>>

\* _release_scenario_actor_if_due: the actor is forgotten whether or not it could be destroyed.
Disappear ==
  /\ at = "ready"
  /\ \E k \in job.late \cap ToSet(tracked) :
       /\ tracked' = Remove(tracked, k)
       /\ \/ standing' = standing \ {Actor(k)} /\ UNCHANGED failures
          \/ failures' = failures \cup {"actor"} /\ UNCHANGED standing
  /\ UNCHANGED <<job, runs, at, how, clock, signal, town, found, waiting, helpers, record, anchor, route, braked>>

FramesEnd == at = "ready" /\ at' = "leaving" /\ how' = "returned" /\ UNCHANGED <<job, runs, simulator, process>>
FrameRaises == at = "ready" /\ Raises /\ UNCHANGED <<job, runs, simulator, process>>

\* CarlaSession.__exit__: what cannot be destroyed is passed over, and a clock that cannot be
\* restored is an error of its own only if there is no other.
LeaveSession ==
  /\ at = "leaving"
  /\ \E stuck \in SUBSET {Actor(k) : k \in ToSet(tracked)}, kept \in BOOLEAN :
       /\ standing' = (standing \ {Actor(k) : k \in ToSet(tracked)}) \cup stuck
       /\ clock' = (IF kept THEN clock ELSE found.clock)
       /\ failures' = failures \cup {x \in {"actor", "clock"} : IF x = "actor" THEN stuck # {} ELSE kept}
       /\ IF how = "raised" \/ kept THEN at' = "failing" /\ how' = "raised" ELSE Goes("judging")
  /\ tracked' = <<>>
  /\ UNCHANGED <<job, runs, signal, town, found, waiting, helpers, record, anchor, route, braked>>

------------------------------------------------------------------------------
(* The end.                                                                   *)
Conclude ==
  /\ at = "judging"
  /\ \/ Goes("closing") /\ record' = (IF record = "open" THEN "completed" ELSE record)
     \/ Raises /\ UNCHANGED record
  /\ UNCHANGED <<job, runs, simulator, found, tracked, waiting, helpers, anchor, route, braked, failures>>

\* The handler of the whole run: an ego that is still there is braked, if it obeys.
HandleFailure ==
  /\ at = "failing" /\ Goes("closing")
  /\ braked' \in (IF Actor("ego") \in standing THEN BOOLEAN ELSE {FALSE})
  /\ record' \in (IF record = "open" THEN {"open", "failed"} ELSE {record})
  /\ failures' = failures \cup {x \in {"brake", "record"} :
       IF x = "brake" THEN Actor("ego") \in standing /\ ~braked' ELSE record' = "open"}
  /\ UNCHANGED <<job, runs, simulator, found, tracked, waiting, helpers, anchor, route>>

Closers == <<"bridge", "backend", "voice", "orchestrator", "record">>
\* The finally block: whatever raises keeps the rest from being closed.  Restoring the light
\* comes last and never raises.
Close ==
  /\ at = "closing" /\ at' = "idle"
  /\ \E n \in 1..Len(Closers) + 1 :
       /\ n <= Len(Closers) => Closers[n] \in helpers \cup {x \in {"record"} : record = "open"}
       /\ how' = IF n <= Len(Closers) THEN "raised" ELSE how
       /\ helpers' = helpers \ {Closers[i] : i \in 1..n - 1}
       /\ record' = (IF record = "open" /\ n > Len(Closers) THEN "failed" ELSE record)
       /\ \/ /\ signal' = (IF n <= Len(Closers) \/ found.signal = None THEN signal
                           ELSE IF found.signal = "unread" THEN "cycling" ELSE found.signal)
             /\ failures' = failures \cup {Closers[i] : i \in {n} \cap DOMAIN Closers}
          \/ /\ n > Len(Closers) /\ found.signal # None
             /\ failures' = failures \cup {"light"} /\ UNCHANGED signal
  /\ UNCHANGED <<job, runs, standing, clock, town, found, tracked, waiting, anchor, route, braked>>

\* The process is killed; what it kept in the simulator stays there.
Kill ==
  /\ at # "idle" /\ at' = "idle" /\ how' = "killed" /\ helpers' = {}
  /\ UNCHANGED <<job, runs, simulator, found, tracked, waiting, record, anchor, route, braked, failures>>

RunNext ==
  \/ Begin \/ Prepare \/ OpenRecord \/ OpenHelpers \/ Connect \/ CleanUp \/ Build \/ Plan
  \/ BindLight \/ WarmUp \/ Enter \/ SpawnEgo \/ SpawnCast \/ WarmSensors \/ Appear \/ Disappear
  \/ FramesEnd \/ FrameRaises \/ LeaveSession \/ Conclude \/ HandleFailure \/ Close \/ Kill

------------------------------------------------------------------------------
RunOver == at = "idle" /\ how \in {"returned", "raised"}

(* A run that ends by itself, wherever it broke off, leaves the simulator as  *)
(* it found it and nothing open, unless a call of its cleaning up failed; the *)
(* world is asynchronous even if an earlier run was killed inside its session *)
(* (run 3946-6712, _warm_up_loaded_map).                                      *)
LeavesNothing ==
  RunOver /\ failures = {} =>
    /\ \A a \in standing : a.run # runs
    /\ found.clock # None => clock = "free"
    /\ found.signal \notin {None, "unread"} => signal = found.signal
    /\ helpers = {}

(* An ego never starts among the vehicles of a run that was killed: they bear *)
(* the runner's name and are removed first (carla_runner.py:3534-3539).       *)
NoOwnOrphans ==
  at \in Inside \cup {"cleaned", "built", "planned", "bound", "warm"} =>
    \A a \in standing : a.kind \in Owned => a.run = runs

(* The planned route starts where the ego does, also when a traffic light     *)
(* moved its start after the planning (carla_runner.py:3890-3895).            *)
RouteFromEgo == at \in {"driven", "ready"} /\ (Managed \/ ~job.light) => route = anchor

(* A failure inside run() ends in its log, and an ego that could not be       *)
(* destroyed does not drive on (carla_runner.py:6663-6687).                   *)
FailureHandled ==
  RunOver =>
    /\ record = "open" => "record" \in failures
    /\ how = "raised" /\ failures \cap ToSet(Closers) = {} /\ Actor("ego") \in standing
         => braked \/ "brake" \in failures

RunSound == [](LeavesNothing /\ NoOwnOrphans /\ RouteFromEgo /\ FailureHandled)
==============================================================================
