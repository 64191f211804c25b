--------------------------- MODULE RouteRecovery ---------------------------
(* Leaving the route and getting a new one: RouteRecoveryTracker.observe     *)
(* (integration/route_manager.py) turns deviation into decisions, carla_runner *)
(* (4291-4465) plans anew, moves the origin of the mission's distance and     *)
(* gives the speed back, and ControlRuntime.step ends commands and latches    *)
(* alerts in between.  A frame is one unit of time; what the search for a     *)
(* route does is RoutePlanning, how far along it the ego is RouteProgress.    *)
EXTENDS Integers, Absent

CONSTANTS Confirmation, Cooldown, MaxAttempts, \* RouteRecoveryPolicy
          Orders,                              \* speeds a command may ask for, 0 is STOP
          LastTime, Mission                    \* bounds: frames, and the distance driven

ASSUME RecoveryAssumption ==
  /\ {Confirmation, Cooldown, LastTime, Mission} \subseteq Nat /\ MaxAttempts \in Nat \ {0} /\ Orders \subseteq Nat

VARIABLES time,        \* sim_time_s
          turn,        \* "route" before the decision of the frame, "runtime" after it
          manoeuvre,   \* a plan of the manoeuvre FSM is under way
          offSince,    \* _off_route_since_s, None on the route
          lastAttempt, \* _last_attempt_s, None before the first
          attempts,
          recovery,    \* the decision's status
          held,        \* route_recovery_hold: the frame is driven with a speed cap of 0
          order,       \* None, or the speed of the command in force
          requested,   \* runtime.requested_speed_mps
          routeSpeed,  \* route.target_speed_mps
          latched,     \* families of latched alerts
          origin,      \* global_route_progress_offset_m
          along,       \* global_route_state.route_s
          astray,      \* ghost: since when the ego has been off the route with no manoeuvre, None on it
          gaveUp,      \* ghost: the last attempt failed and no command came since
          stale        \* ghost: the last command ended without success and nothing was ordered since
recoveryVars == <<time, turn, manoeuvre, offSince, lastAttempt, attempts, recovery, held, order, requested,
                  routeSpeed, latched, origin, along, astray, gaveUp, stale>>

Progress == origin + along

-----------------------------------------------------------------------------
\* RouteRecoveryTracker.observe
Confirming == time - (IF offSince = None THEN time ELSE offSince) < Confirmation
Cooling == lastAttempt # None /\ time - lastAttempt < Cooldown

DecisionMutant(place) ==
  CASE place = "there" -> "DESTINATION_REACHED"
    [] place = "on" -> "ON_ROUTE"
    [] place = "off" -> IF Confirming THEN "OFF_ROUTE_CONFIRMING" ELSE IF attempts >= MaxAttempts THEN "RECOVERY_EXHAUSTED"
                        ELSE IF Cooling THEN "REPLAN_COOLDOWN" ELSE "REPLANNING"
Decision(place) ==
  CASE place = "there" -> "DESTINATION_REACHED"
    [] place = "on" -> "ON_ROUTE"
    [] place = "off" /\ manoeuvre -> "RECOVERY_SUPPRESSED"
    [] place = "off" /\ ~manoeuvre /\ Confirming -> "OFF_ROUTE_CONFIRMING"
    [] place = "off" /\ ~manoeuvre /\ ~Confirming /\ attempts >= MaxAttempts -> "RECOVERY_EXHAUSTED"
    [] place = "off" /\ ~manoeuvre /\ ~Confirming /\ attempts < MaxAttempts /\ Cooling -> "REPLAN_COOLDOWN"
    [] OTHER -> "REPLANNING"

HoldStatus == {"OFF_ROUTE_CONFIRMING", "REPLANNING", "REPLAN_COOLDOWN", "RECOVERY_EXHAUSTED"}

Track(status) ==
  /\ recovery' = status
  /\ offSince' = CASE status \in {"OFF_ROUTE_CONFIRMING", "REPLAN_COOLDOWN", "RECOVERY_EXHAUSTED"} ->
                        IF offSince = None THEN time ELSE offSince
                   [] OTHER -> None
  /\ attempts' = IF status = "REPLANNING" THEN attempts + 1 ELSE attempts
  /\ lastAttempt' = IF status = "REPLANNING" THEN time ELSE lastAttempt

Faster(a, b) == IF a > b THEN a ELSE b

\* A new route starts where the ego is; the speed is given back and the
\* lateral alerts go.
Replanned(s) ==
  /\ held' = FALSE
  /\ origin' = origin + s /\ along' = 0
  /\ requested' = Faster(requested, routeSpeed) /\ routeSpeed' = Faster(requested, routeSpeed)
  /\ latched' = latched \ {"LATERAL"}
  /\ UNCHANGED gaveUp

\* No route could be planned; after the last attempt the ego stays where it is.
ReplanFailed(s) ==
  LET last == attempts + 1 >= MaxAttempts IN
  /\ held' = TRUE
  /\ along' = s
  /\ requested' = IF last THEN 0 ELSE requested
  /\ routeSpeed' = IF last THEN 0 ELSE routeSpeed
  /\ gaveUp' = (gaveUp \/ last)
  /\ UNCHANGED <<latched, origin>>

\* The routing part of a frame.  project_route_progress_m never goes back.
RouteFrame(place, moved, planned) ==
  LET status == Decision(place)
      s == along + moved IN
  /\ turn = "route" /\ turn' = "runtime" /\ origin + s <= Mission
  /\ Track(status)
  /\ astray' = IF place = "off" /\ ~manoeuvre THEN (IF astray = None THEN time ELSE astray) ELSE None
  /\ IF status = "REPLANNING" THEN IF planned THEN Replanned(s) ELSE ReplanFailed(s)
     ELSE /\ held' = (status \in HoldStatus) /\ along' = s
          /\ UNCHANGED <<origin, requested, routeSpeed, latched, gaveUp>>
  /\ UNCHANGED <<time, manoeuvre, order, stale>>

-----------------------------------------------------------------------------
\* A command is admitted: the route takes over the runtime's speed.  A plan
\* makes it a manoeuvre.
Admit(speed, plan) ==
  /\ order' = speed /\ requested' = speed /\ routeSpeed' = speed /\ manoeuvre' = plan
  /\ gaveUp' = FALSE /\ stale' = FALSE /\ UNCHANGED latched

\* The command in force reaches its goal; a manoeuvre ends with it.
Complete ==
  /\ order # None /\ order' = None /\ manoeuvre' = FALSE
  /\ UNCHANGED <<requested, routeSpeed, latched, gaveUp, stale>>

\* It expires, times out or fails: no propulsion is left to it.
End ==
  /\ order # None /\ order' = None /\ manoeuvre' = FALSE /\ requested' = 0 /\ stale' = TRUE
  /\ UNCHANGED <<routeSpeed, latched, gaveUp>>

\* An alert is latched and ends the command in force.
Latch(family) ==
  /\ latched' = latched \cup {family} /\ requested' = 0
  /\ stale' = (stale \/ order # None) /\ order' = None /\ manoeuvre' = FALSE
  /\ UNCHANGED <<routeSpeed, gaveUp>>

Quiet == UNCHANGED <<order, requested, routeSpeed, manoeuvre, latched, gaveUp, stale>>

RuntimeFrame ==
  /\ turn = "runtime" /\ turn' = "route" /\ time < LastTime /\ time' = time + 1
  /\ \/ \E speed \in Orders, plan \in BOOLEAN : Admit(speed, plan)
     \/ Complete \/ End
     \/ \E family \in {"LATERAL", "OTHER"} : Latch(family)
     \/ Quiet
  /\ UNCHANGED <<offSince, lastAttempt, attempts, recovery, held, origin, along, astray>>

RecoveryInit ==
  /\ time = 0 /\ turn = "route" /\ manoeuvre = FALSE
  /\ offSince = None /\ lastAttempt = None /\ attempts = 0 /\ recovery = "ON_ROUTE" /\ held = FALSE
  /\ order = None /\ requested \in Orders /\ routeSpeed = requested /\ latched = {}
  /\ origin = 0 /\ along = 0 /\ astray = None /\ gaveUp = FALSE /\ stale = FALSE

RecoveryNext ==
  \/ \E place \in {"on", "off", "there"}, moved \in 0..1, planned \in BOOLEAN : RouteFrame(place, moved, planned)
  \/ RuntimeFrame

RecoverySpec == RecoveryInit /\ [][RecoveryNext]_recoveryVars

-----------------------------------------------------------------------------
\* A route is planned anew only for a deviation that lasted the confirmation
\* time with no manoeuvre under way, never sooner after another attempt than
\* the cooldown, and not more often than allowed (route_manager.py 313-351).
ReplansAreEarned ==
  attempts' # attempts =>
    /\ astray' # None /\ time - astray' >= Confirmation
    /\ lastAttempt # None => time - lastAttempt >= Cooldown
    /\ attempts' <= MaxAttempts

\* The mission's distance never goes back, over new routes and new origins:
\* an event placed at a mission distance is met once (carla_runner.py 4291-4316,
\* 4412-4445).
DistanceKept == Progress' >= Progress

\* A new route forgives lateral faults only; any other alert stays latched.
OthersStay == "OTHER" \in latched => "OTHER" \in latched'

\* While the ego is off the route and no manoeuvre took it there, it is held;
\* once the last attempt failed it asks for no speed until it is told to.
StrayIsHeld ==
  /\ turn = "runtime" /\ astray # None /\ recovery # "REPLANNING" => held
  /\ gaveUp => requested = 0

RecoverySound == []StrayIsHeld /\ [][ReplansAreEarned /\ DistanceKept /\ OthersStay]_recoveryVars

\* No speed of a command that expired, timed out or failed drives the vehicle
\* again (the comment at runtime_loop.py 281-283); a new route gives it back.
NoStaleSpeed == stale => requested = 0
=============================================================================
