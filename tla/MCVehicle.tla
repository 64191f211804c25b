------------------------------ MODULE MCVehicle ------------------------------
(* The vehicle side of a frame, one component at a time: the components     *)
(* share no state in these runs, and `part` says which one is running.      *)
EXTENDS Watchdog, SensorFrames, SimulatorSession, LeadFusion, ObjectTracks,
        SpeedControl, ControlAuthority, LateralProgress,
        RouteCoverage, MCRoutePlanning

VARIABLE part
vehicleVars == <<part, watchVars, sensorVars, sessionVars, leadVars, trackVars, speedVars, authorityVars,
                 lateralVars, recoveryVars, planVars, progressVars, coverVars>>

MCReturns == {[gap |-> 60, rate |-> -5]}
\* One junction after another; lights told by stop waypoints, by a trigger volume, not yet
\* active, or passed; waypoints of another lane, and behind.
Waypoint(light, away, junction) == [light |-> light, line |-> away, ours |-> TRUE, junction |-> junction]
TheirWaypoint(light, away, junction) == [light |-> light, line |-> away, ours |-> FALSE, junction |-> junction]
At(light, away, alone) == [light |-> light, line |-> away, alone |-> alone, junction |-> 1]
Outlook(light, around, posted, contract) ==
  [light |-> light, around |-> around, posted |-> posted, contract |-> contract]
SpeedContract(limit, overrides) == [limit |-> limit, overrides |-> overrides]
MCViews ==
  {Outlook(None, {}, 2, SpeedContract(4, FALSE)),
   Outlook(None, {Waypoint("GREEN", 6, 1), Waypoint("RED", -2, 3)}, None, None),
   Outlook(None, {Waypoint("YELLOW", 6, 1), Waypoint("RED", 9, 2)}, 4, SpeedContract(2, FALSE)),
   Outlook(At("YELLOW", 2, FALSE), {Waypoint("YELLOW", 2, 1), Waypoint("RED", 6, 2)}, None, None),
   Outlook(At("RED", None, FALSE), {Waypoint("RED", 6, 2)}, None, SpeedContract(2, FALSE)),
   Outlook(At("RED", 0, FALSE), {Waypoint("RED", 0, 1), TheirWaypoint("GREEN", 0, 2)}, None, None),
   Outlook(At("RED", 6, TRUE), {}, 2, SpeedContract(4, TRUE)),
   Outlook(At("RED", None, TRUE), {Waypoint("RED", 6, 2)}, None, None)}
MCLeads == {None, [gap |-> 6, speed |-> 0]}
MCWanted == {[throttle |-> 40, brake |-> 0], [throttle |-> 0, brake |-> 90]}

\* A route that crosses itself, and one that comes back beside itself.
Crossing == [i \in 1..6 |-> <<i - 1, 0>>]
            \o <<<<5, 1>>, <<5, 2>>, <<5, 3>>, <<4, 3>>, <<3, 3>>, <<2, 3>>, <<2, 2>>, <<2, 1>>, <<2, 0>>,
                 <<2, -1>>, <<2, -2>>, <<2, -3>>, <<1, -3>>, <<0, -3>>>>
Returning == [i \in 1..9 |-> <<i - 1, 0>>] \o <<<<8, 1>>, <<8, 2>>, <<8, 3>>>> \o [i \in 1..8 |-> <<8 - i, 3>>]
MCRoutes == {Crossing, Returning}

\* Five roads with forks and a loop, and stretches that must not be driven.
MCCells == <<3, 2, 4, 3, 2>>
MCOnward == {<<1, 2>>, <<1, 3>>, <<2, 4>>, <<3, 4>>, <<4, 1>>, <<4, 5>>, <<5, 1>>}
MCStarts == <<<<1, 0>>, <<4, 1>>, <<2, 0>>>>
MCTolerated ==
  {{}, {[from |-> 3, to |-> 6, cells |-> ({3} \X (0..3)) \cup ({4} \X (0..2))]},
   {[from |-> 1, to |-> 2, cells |-> ({4} \X (0..2)) \cup ({5} \X (0..2))]},
   {[from |-> 1, to |-> 2, cells |-> {}]}}

Parts == {"watchdog", "sensors", "session", "lead", "tracks", "speed", "authority", "lateral",
          "recovery", "planning", "progress", "coverage"}
\* What the parts that do not run start from.
Idle ==
  /\ IF part = "session" THEN TRUE ELSE sticks = {} /\ hasManager = TRUE
  /\ IF part = "lead" THEN TRUE ELSE detector = TRUE
  /\ IF part = "recovery" THEN TRUE ELSE requested = 0
  /\ IF part = "planning" THEN TRUE
     ELSE /\ open = (CHOOSE m \in MCMarkings : TRUE) /\ estimate = (CHOOSE e \in MCEstimates : TRUE)
          /\ start = [edge |-> 1, at |-> 0] /\ goal = [edge |-> 5, at |-> 1]
  /\ IF part = "progress" THEN TRUE ELSE line = Returning /\ coverage = FALSE
  /\ IF part = "coverage" THEN TRUE ELSE needs = {}
MCInit ==
  /\ part \in Parts /\ Idle
  /\ WatchInit /\ SensorInit /\ SessionInit /\ LeadInit /\ TrackInit /\ SpeedInit /\ AuthorityInit /\ LateralInit
  /\ RecoveryInit /\ PlanInit /\ ProgressInit /\ CoverInit

\* A step of one component leaves the others' state alone.
Only(p) ==
  /\ part = p
  /\ p # "watchdog" => UNCHANGED watchVars
  /\ p # "sensors" => UNCHANGED sensorVars
  /\ p # "session" => UNCHANGED sessionVars
  /\ p # "lead" => UNCHANGED leadVars
  /\ p # "tracks" => UNCHANGED trackVars
  /\ p # "speed" => UNCHANGED speedVars
  /\ p # "authority" => UNCHANGED authorityVars
  /\ p # "lateral" => UNCHANGED lateralVars
  /\ p # "recovery" => UNCHANGED recoveryVars
  /\ p # "planning" => UNCHANGED planVars
  /\ p # "progress" => UNCHANGED progressVars
  /\ p # "coverage" => UNCHANGED coverVars

MCNext ==
  /\ UNCHANGED part
  /\ \/ Only("watchdog") /\ WatchNext
     \/ Only("sensors") /\ SensorNext
     \/ Only("session") /\ SessionNext
     \/ Only("lead") /\ LeadNext
     \/ Only("tracks") /\ TrackNext
     \/ Only("speed") /\ SpeedNext
     \/ Only("authority") /\ AuthorityNext
     \/ Only("lateral") /\ LateralNext
     \/ Only("recovery") /\ RecoveryNext
     \/ Only("planning") /\ PlanNext
     \/ Only("progress") /\ ProgressNext
     \/ Only("coverage") /\ CoverNext

MCSpec == MCInit /\ [][MCNext]_vehicleVars

\* The longitudinal controller alone.
MCSpeedSpec == MCInit /\ part = "speed" /\ [][MCNext]_vehicleVars
=============================================================================
