-------------------------- MODULE LateralProgress ---------------------------
(* B, the pure-pursuit controller (car_control_B): where on a route it        *)
(* believes the ego is, across manoeuvres that put another route in its place *)
(* and give the old one back (integration/carla_runner.py 6063-6147), and the *)
(* steering it may ask for.  The mission goes round a loop of Loop places and *)
(* passes every place again; a route is known by the object that holds its    *)
(* points, adapted objects are numbered.                                      *)
EXTENDS Integers, Sequences, SequencesExt, FiniteSets, Absent

CONSTANTS Loop, Points,        \* places round the loop, points of a mission route
          Window, Reacquire,   \* nearest_search_window, route_reacquire_search_window
          CacheSize,           \* entries of _adapted_route_cache: 32
          Lookahead,           \* in points
          Steers, MaxDelta,    \* what pursuit may want, and the rate limit
          MaxDetour, MaxSources

\* The loop is longer than the stretch searched when a route is taken up again (50
\* points in the runner, 2 from frame to frame: carla_runner.py 477-478).
ASSUME LateralAssumption ==
  /\ {Loop, Points, Window, Reacquire, CacheSize, Lookahead, MaxDetour, MaxSources} \subseteq Nat \ {0}
  /\ Window <= Reacquire /\ Reacquire + 1 < Loop /\ Steers \subseteq Int /\ MaxDelta \in Nat \ {0}
ASSUME LateralNone ==
  None \notin Int \cup [source : Int, driven : Int]
              \cup [nearest : Int, target : Int, status : {"OK", "INVALID"}]

VARIABLES sources,   \* number of point containers made so far; the newest mission is `mission`
          mission,   \* [source, start]: the mission route and the place it starts at
          detour,    \* None, or [source, driven]: a temporary route and how far it went
          cache,     \* _adapted_route_cache: sequence of [source, object]
          objects,   \* adapted containers made so far
          progress,  \* _route_progress: object -> index
          active,    \* _active_route_points
          nearest,   \* _last_nearest_index
          steer,     \* _last_steer
          truth,     \* ghost: the point of the mission the ego is at
          output     \* the last LateralOutput on the mission: [nearest, target, status]; None on a detour
lateralVars == <<sources, mission, detour, cache, objects, progress, active, nearest, steer, truth, output>>

-----------------------------------------------------------------------------
\* find_nearest_index on the mission: the first of the closest points in range.
RoutePlace(i) == (mission.start + i) % Loop
Away(i, place) ==
  LET d == (RoutePlace(i) - place + Loop) % Loop IN IF d > Loop - d THEN Loop - d ELSE d
Clamp(i) == IF i < 0 THEN 0 ELSE IF i > Points - 1 THEN Points - 1 ELSE i
NearestIn(range, place) ==
  CHOOSE i \in range : \A j \in range : Away(i, place) < Away(j, place) \/ (Away(i, place) = Away(j, place) /\ i <= j)
Around(i, width) == Clamp(i - width)..Clamp(i + width)

\* _adapt_reference_any: the cached object, else a new one; the oldest of too many goes.
Cached(source) == \E k \in DOMAIN cache : cache[k].source = source
ObjectOf(source) ==
  IF Cached(source) THEN (CHOOSE e \in Range(cache) : e.source = source).object ELSE objects
Trimmed(entries) == IF Len(entries) > CacheSize THEN Tail(entries) ELSE entries
Adapt(source) ==
  IF Cached(source) THEN UNCHANGED <<cache, objects>>
  ELSE cache' = Trimmed(Append(cache, [source |-> source, object |-> objects])) /\ objects' = objects + 1

Remember(object, index) == [o \in DOMAIN progress \cup {object} |-> IF o = object THEN index ELSE progress[o]]

\* PurePursuitController.step, the part that finds the ego on the route.
StartIndex(object, place) ==
  IF active = object THEN nearest
  ELSE IF object \notin DOMAIN progress THEN NearestIn(0..Points - 1, place)
  ELSE NearestIn(Around(progress[object], Reacquire), place)
Found(object, place) == NearestIn(Around(StartIndex(object, place), Window), place)

\* The steering wanted, within the rate limit of the last.
Toward(want) ==
  IF want > steer + MaxDelta THEN steer + MaxDelta ELSE IF want < steer - MaxDelta THEN steer - MaxDelta ELSE want

-----------------------------------------------------------------------------
LateralInit ==
  /\ sources = 1 /\ mission = [source |-> 0, start |-> 0] /\ detour = None
  /\ cache = <<>> /\ objects = 0 /\ progress = << >> /\ active = None /\ nearest = 0 /\ steer = 0
  /\ truth = 0 /\ output = None

\* A frame on the mission: the ego has moved on by at most one point.
FollowMission(want, moved) ==
  LET object == ObjectOf(mission.source)
      place == RoutePlace(truth + moved)
      found == Found(object, place) IN
  /\ detour = None /\ truth + moved < Points
  /\ truth' = truth + moved
  /\ Adapt(mission.source)
  /\ progress' = Remember(object, found)
  /\ active' = object /\ nearest' = found
  /\ steer' = Toward(IF truth' = Points - 1 THEN 0 ELSE want)
  /\ output' = [nearest |-> found, target |-> Clamp(found + Lookahead),
                status |-> IF truth' = Points - 1 THEN "INVALID" ELSE "OK"]
  /\ UNCHANGED <<sources, mission, detour>>

\* A manoeuvre puts a route of its own in the mission's place; the ego moves
\* along the mission's road all the while.  Temporary routes are short: their
\* own progress is their first point.
StartDetour ==
  /\ detour = None /\ output # None /\ sources < MaxSources
  /\ detour' = [source |-> sources, driven |-> 0] /\ sources' = sources + 1 /\ output' = None
  /\ UNCHANGED <<mission, cache, objects, progress, active, nearest, steer, truth>>

FollowDetour(want, moved) ==
  LET object == ObjectOf(detour.source) IN
  /\ detour # None /\ detour.driven + moved <= MaxDetour /\ truth + moved < Points - 1
  /\ truth' = truth + moved /\ detour' = [detour EXCEPT !.driven = @ + moved]
  /\ Adapt(detour.source)
  /\ progress' = Remember(object, 0) /\ active' = object /\ nearest' = 0
  /\ steer' = Toward(want)
  /\ UNCHANGED <<sources, mission, output>>

\* The manoeuvre ends and the mission is restored: synchronize_route_progress
\* with what the mission's own tracker says.
SynchronizedMutant(object) == progress
Synchronized(object) == Remember(object, truth)
RestoreMission ==
  LET object == ObjectOf(mission.source) IN
  /\ detour # None /\ detour' = None
  /\ Adapt(mission.source)
  /\ progress' = Synchronized(object)
  /\ nearest' = IF active = object THEN truth ELSE nearest
  /\ UNCHANGED <<sources, mission, active, steer, truth, output>>

\* A route planned anew from where the ego is: reset(), which keeps the
\* steering only when the manoeuvre goes on (preserve_steer).
Reset(kept) ==
  /\ progress' = << >> /\ active' = None /\ nearest' = 0 /\ steer' = IF kept THEN steer ELSE 0
ReplanMission(kept) ==
  /\ sources < MaxSources /\ (kept <=> detour # None)
  /\ mission' = [source |-> sources, start |-> RoutePlace(truth)] /\ sources' = sources + 1
  /\ truth' = 0 /\ detour' = None /\ output' = None
  /\ Reset(kept)
  /\ UNCHANGED <<cache, objects>>

LateralNext ==
  \/ \E want \in Steers, moved \in 0..1 : FollowMission(want, moved) \/ FollowDetour(want, moved)
  \/ StartDetour
  \/ RestoreMission
  \/ \E kept \in BOOLEAN : ReplanMission(kept)

-----------------------------------------------------------------------------
\* B never loses its place: on the mission the index it found is the point the
\* ego is at, not another pass of the same road, whatever manoeuvres took the
\* route away and gave it back (pure_pursuit.py 197-201, 102-109).
PlaceKept == output # None => output.nearest = truth /\ output.target \in truth..truth + Lookahead

\* The steering moves by no more than the rate limit from one frame to the
\* next, over route changes too; only a reset that keeps nothing centres it.
SteerGradual == steer' - steer \in (-MaxDelta)..MaxDelta \/ (steer' = 0 /\ active' = None)

\* The mission's adapted object is remembered once: two entries of the cache
\* never stand for one container, nor is an index kept for an unknown object.
OneObject ==
  /\ \A j, k \in DOMAIN cache : cache[j].source = cache[k].source => j = k
  /\ Len(cache) <= CacheSize /\ DOMAIN progress \subseteq 0..objects - 1

LateralSound == [](PlaceKept /\ OneObject) /\ [][SteerGradual]_lateralVars
=============================================================================
