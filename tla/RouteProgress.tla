--------------------------- MODULE RouteProgress ---------------------------
(* How far along its mission the ego is: RouteManager.state and               *)
(* project_route_progress_m on a route that crosses itself or runs beside     *)
(* itself, the distance DistanceCoverageTracker counts, the window of the     *)
(* route the lateral controller is shown, and the end of the route as         *)
(* carla_runner recognises it.  A route is a sequence of points one meter     *)
(* apart; the projection is to points.                                        *)
EXTENDS Integers, Sequences, Absent

CONSTANTS Routes,                \* the routes, sequences of <<x, y>>
          Backward, Forward,     \* backward_tolerance_m, forward_window_m
          Behind, Before, RefreshMargin,\* lookbehind_m, lookahead_m, refresh_margin_m
          FinishRadius,
          JumpGate,              \* a step longer than this is a teleport
          Contract               \* the distance a coverage mission asks for

ASSUME ProgressAssumption ==
  /\ {Backward, Forward, Behind, Before, RefreshMargin, FinishRadius, JumpGate, Contract} \subseteq Nat
  /\ RefreshMargin < Before /\ \A r \in Routes : r \in Seq(Int \X Int) /\ Len(r) > 1
  /\ 2 <= JumpGate /\ 2 <= Backward /\ 4 <= Forward
  /\ None \notin [from : Int, to : Int]

VARIABLES line,      \* the route driven
          coverage,  \* topology coverage: the distance is what counts
          at,        \* the point of the route the ego has come to
          routeS,    \* global_route_state.route_s
          window,    \* global_local_reference
          covered,   \* the tracker's progress_m
          driven,    \* ghost: what the ego drove, teleports left out
          finished   \* _route_finish_reached
progressVars == <<line, coverage, at, routeS, window, covered, driven, finished>>

Length == Len(line) - 1
Gap(p, q) == (p[1] - q[1]) * (p[1] - q[1]) + (p[2] - q[2]) * (p[2] - q[2])
Off(a, b) == IF a > b THEN a - b ELSE b - a

\* A route does not bend back upon itself at once: two of its points within the
\* window of the projection are a lane's half apart, and two that are close a
\* lane, unless they are next to each other.  Further along it may meet itself.
ASSUME RoutesApart ==
  \A r \in Routes : \A i, j \in DOMAIN r :
    /\ Off(i, j) <= 8 /\ Gap(r[i], r[j]) <= 4 => Off(i, j) <= 2
    /\ Off(i, j) <= Forward + Backward /\ Gap(r[i], r[j]) <= 1 => Off(i, j) <= 2

-----------------------------------------------------------------------------
\* project_route_progress_m: the nearest point within the window around the
\* progress made; of two as near, the one nearer to that progress, then the
\* later one.
Nearer(p, previous, i, j) ==
  LET gi == Gap(p, line[i + 1])
      gj == Gap(p, line[j + 1])
      di == Off(i, previous)
      dj == Off(j, previous) IN
  gi < gj \/ (gi = gj /\ (di < dj \/ (di = dj /\ i >= j)))

Projected(p, previous) ==
  LET near == {i \in 0..Length : i >= previous - Backward /\ i <= previous + Forward}
      s == CHOOSE i \in near : \A j \in near : Nearer(p, previous, i, j) IN
  IF s > previous THEN s ELSE previous

\* _route_finish_reached; in destination mode the remainder is the route's, in
\* coverage mode the contract's.
Remaining(s, distance) ==
  IF coverage THEN IF distance > Contract THEN 0 ELSE Contract - distance ELSE Length - s
Reached(left, p) ==
  \/ left <= FinishRadius
  \/ /\ Gap(p, line[Length + 1]) <= FinishRadius * FinishRadius
     /\ left <= FinishRadius + (IF FinishRadius > 3 THEN FinishRadius ELSE 3)

\* local_reference, _route_local_reference_needs_refresh
NeedsRefresh(s) ==
  window = None \/ s < window.from \/ (window.to < Length /\ s >= window.to - RefreshMargin)
View(s) ==
  [from |-> IF s < Behind THEN 0 ELSE s - Behind, to |-> IF s + Before > Length THEN Length ELSE s + Before]

-----------------------------------------------------------------------------
\* A frame: the ego is at p, step away from where it was.
ProjectFrame(p, step) ==
  LET s == Projected(p, routeS)
      sum == IF step <= JumpGate THEN covered + step ELSE covered IN
  /\ routeS' = s /\ covered' = sum
  /\ window' = IF NeedsRefresh(s) THEN View(s) ELSE window
  /\ finished' = Reached(Remaining(s, sum), p)
  /\ UNCHANGED <<line, coverage>>

\* The ego goes on along the route, at most a lane's half away from it.
Drive(v, dx, dy) ==
  /\ ~finished /\ at + v <= Length /\ (coverage => dx = 0 /\ dy = 0)
  /\ at' = at + v /\ driven' = driven + v
  /\ ProjectFrame(<<line[at + v + 1][1] + dx, line[at + v + 1][2] + dy>>, v)

\* The simulator puts it somewhere else.
Teleport(to) ==
  /\ coverage /\ ~finished /\ Off(to, at) > JumpGate
  /\ at' = to /\ UNCHANGED driven
  /\ ProjectFrame(line[to + 1], Off(to, at))

ProgressInit ==
  /\ line \in Routes /\ coverage \in BOOLEAN /\ at = 0 /\ routeS = 0
  /\ window = None /\ covered = 0 /\ driven = 0 /\ finished = FALSE

ProgressNext ==
  \/ \E v \in 0..2, d \in {<<0, 0>>, <<1, 0>>, <<-1, 0>>, <<0, 1>>, <<0, -1>>} : Drive(v, d[1], d[2])
  \/ \E to \in {0, Length} : Teleport(to)

ProgressSpec == ProgressInit /\ [][ProgressNext]_progressVars

-----------------------------------------------------------------------------
\* The progress follows the ego, on its own pass over a crossing and its own
\* leg of two beside each other, give or take the way it is off the line
\* (route_geometry.py 160-184).
ProgressIsTrue == ~coverage => Off(routeS, at) <= 2

\* A looping route does not finish because it passes close to its end early
\* (the docstring at carla_runner.py 2858-2864).
FinishIsEarned ==
  finished => IF coverage THEN driven + 2 * FinishRadius >= Contract \/ driven + 3 + FinishRadius >= Contract
              ELSE at + 2 * FinishRadius + 2 >= Length \/ at + FinishRadius + 5 >= Length

\* A teleport adds nothing to the distance.
NothingForJumps == covered = driven

\* The window shown to the controller holds the ego and the margin ahead of it.
WindowHolds ==
  ~coverage /\ window # None => /\ window.from <= routeS /\ routeS <= window.to
                                /\ window.to = Length \/ window.to - routeS > RefreshMargin

ProgressSound == [](ProgressIsTrue /\ FinishIsEarned /\ NothingForJumps /\ WindowHolds)
=============================================================================
