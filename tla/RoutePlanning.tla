--------------------------- MODULE RoutePlanning ---------------------------
(* RouteManager.plan (integration/route_manager.py): a best-first search over *)
(* the edges of the map's topology, then the samples of the edges and the     *)
(* connectors of the lane changes are put together.  A change that has no     *)
(* room blocks its connection and the search starts again.                    *)
(*                                                                           *)
(* A sample is one step long and edge e's sample i lies i * Dir[e] from       *)
(* <<First[e], Row[e]>>; lanes beside each other are sampled alike.  The estimate of  *)
(* what is left is consistent, as a straight line's length is.                *)
EXTENDS Integers, Sequences, FiniteSets, Absent

CONSTANTS Edges, Size, First, Dir, Row, Follows,
          Markings,        \* sets of <<e, f, i>>: at sample i of e the marking permits a change to f
          Endpoints,       \* samples a plan starts or ends at
          RunUp,           \* samples kept before a change: max(2, 8 m)
          Change,          \* samples a connector takes: 18 m
          Penalty,         \* what a change costs: 25 m
          MaxGap,          \* maximum_gap_m
          Expansions,      \* maximum_expansions
          Estimates        \* straight-line distances between edges' ends

ASSUME PlanningAssumption ==
  /\ IsFiniteSet(Edges) /\ None \notin Edges \cup Int \cup {"ROUTE_UNREACHABLE"}
  /\ Size \in [Edges -> Nat \ {0, 1}] /\ {First, Dir, Row} \subseteq [Edges -> Int] /\ Follows \subseteq Edges \X Edges
  /\ {RunUp, Penalty, MaxGap, Expansions} \subseteq Nat /\ Change \in Nat \ {0}
  /\ \A p \in Endpoints : p \in [edge : Edges, at : Nat] /\ p.at < Size[p.edge]
  /\ \A m \in UNION Markings : m \in Edges \X Edges \X Nat /\ m[3] < Size[m[2]]
  /\ \A h \in Estimates : h \in [Edges \X Edges -> Nat]
  /\ \A h \in Estimates, g \in Edges : \A ef \in Follows \cup {<<m[1], m[2]>> : m \in UNION Markings} :
       h[<<ef[1], g>>] <= Size[ef[2]] - 1 + h[<<ef[2], g>>]

VARIABLES open,        \* the marking of the map
          transitions, \* _lane_change_transitions: the samples each change can begin at
          start, goal,
          estimate,    \* straight-line distance of an edge's end from the destination
          blocked,     \* blocked_connections
          frontier, costs, parents, left,
          phase,       \* "search", "assemble", "done" or "failed"
          path, leg, entering, assembled, route, reason
planVars == <<open, transitions, start, goal, estimate, blocked, frontier, costs, parents, left, phase, path, leg, entering, assembled,
              route, reason>>

-----------------------------------------------------------------------------
\* _connect_edges, _build_lane_change_connector

\* Samples at which a change from e to f can begin: the lane, its neighbour and
\* the marking go on until it is complete.
Candidates(marks) == [ef \in Edges \X Edges |->
  {i \in 0..(Size[ef[1]] - 1) : \A k \in i..(i + Change) : k < Size[ef[1]] /\ <<ef[1], ef[2], k>> \in marks}]
IsChange(e, f) == transitions[<<e, f>>] # {}
Successors(e) == {f \in Edges : <<e, f>> \in Follows \/ IsChange(e, f)}
CostOf(e, f) == Size[f] - 1 + (IF IsChange(e, f) THEN Penalty ELSE 0)

LeastOf(S) == CHOOSE n \in S : \A m \in S : n <= m

\* <<e, m>>: the target can be reached from edge e, over n connections at most,
\* with m meters to drive; the reference the search is compared with.
OneMore(ways, barred) ==
  {<<x[1], CostOf(x[1], x[2][1]) + x[2][2]>> : x \in {x \in Edges \X ways :
     x[2][1] \in Successors(x[1]) /\ <<x[1], x[2][1]>> \notin barred}}
WaysWithin(target, barred) ==
  LET Over[n \in 0..Cardinality(Edges)] ==
        {<<target, 0>>} \cup (IF n = 0 THEN {} ELSE OneMore(Over[n - 1], barred))
  IN Over
Ways(target, barred) == WaysWithin(target, barred)[Cardinality(Edges)]

-----------------------------------------------------------------------------
\* _search

SearchAgain(barred) ==
  /\ phase' = "search" /\ blocked' = barred
  /\ frontier' = {[edge |-> start.edge, cost |-> 0]}
  /\ costs' = [e \in Edges |-> IF e = start.edge THEN 0 ELSE None]
  /\ parents' = [e \in Edges |-> None] /\ left' = Expansions
  /\ path' = <<>> /\ leg' = 0 /\ entering' = 0 /\ assembled' = <<>>

\* From edge e back to the one without a parent.
Longer(parent, sofar) == IF parent[Head(sofar)] = None THEN sofar ELSE <<parent[Head(sofar)]>> \o sofar
TraceBack(parent, e) ==
  LET Back[n \in 0..Cardinality(Edges)] == IF n = 0 THEN <<e>> ELSE Longer(parent, Back[n - 1]) IN Back
Trace(parent, e) == TraceBack(parent, e)[Cardinality(Edges)]

Give(why) ==
  /\ phase' = "failed" /\ reason' = why
  /\ UNCHANGED <<open, transitions, start, goal, estimate, blocked, frontier, costs, parents, left, path, leg, entering, assembled, route>>

Unreachable == phase = "search" /\ (frontier = {} \/ left = 0) /\ Give("ROUTE_UNREACHABLE")

Better(node) == {f \in Successors(node.edge) :
  /\ <<node.edge, f>> \notin blocked
  /\ costs[f] = None \/ node.cost + CostOf(node.edge, f) < costs[f]}

Pop ==
  LET first == {n \in frontier : \A m \in frontier :
                 n.cost + estimate[<<n.edge, goal.edge>>] <= m.cost + estimate[<<m.edge, goal.edge>>]} IN
  /\ phase = "search" /\ frontier # {} /\ left > 0 /\ left' = left - 1
  /\ \E node \in first :
       LET better == IF node.cost > costs[node.edge] THEN {} ELSE Better(node) IN
       IF node.cost <= costs[node.edge] /\ node.edge = goal.edge
       THEN /\ phase' = "assemble" /\ path' = Trace(parents, goal.edge) /\ leg' = 1 /\ entering' = start.at
            /\ UNCHANGED <<frontier, costs, parents>>
       ELSE /\ costs' = [f \in Edges |-> IF f \in better THEN node.cost + CostOf(node.edge, f) ELSE costs[f]]
            /\ parents' = [f \in Edges |-> IF f \in better THEN node.edge ELSE parents[f]]
            /\ frontier' = (frontier \ {node})
                             \cup {[edge |-> f, cost |-> node.cost + CostOf(node.edge, f)] : f \in better}
            /\ UNCHANGED <<phase, path, leg, entering>>
  /\ UNCHANGED <<open, transitions, start, goal, estimate, blocked, assembled, route, reason>>

-----------------------------------------------------------------------------
\* _assemble_waypoints

\* A sample of lane e, or part of the way across to the lane f.
OnLane(e, i) == [lane |-> e, to |-> e, at |-> i, part |-> 0]
Across(e, f, i, k) == IF k = Change THEN OnLane(f, i) ELSE [lane |-> e, to |-> f, at |-> i, part |-> k]

X(p) == Change * (First[p.lane] + Dir[p.lane] * p.at)
Y(p) == (Change - p.part) * Row[p.lane] + p.part * Row[p.to]
Between(p, q) == (X(p) - X(q)) * (X(p) - X(q)) + (Y(p) - Y(q)) * (Y(p) - Y(q))

ClosestIndex(points, from, p) ==
  LET near == {i \in from..Len(points) : \A j \in from..Len(points) : Between(p, points[i]) <= Between(p, points[j])} IN
  LeastOf(near)

Samples(e, from, to) == [n \in 1..(to - from + 1) |-> OnLane(e, from + n - 1)]
Connector(e, f, i) == [k \in 1..Change |-> Across(e, f, i + k, k)]
Joined(points, more) ==
  points \o (IF points # <<>> /\ more[1] = points[Len(points)] THEN Tail(more) ELSE more)

Usable(e, f) ==
  LET earliest == LeastOf({Size[e] - 1, entering + RunUp}) IN
  {i \in transitions[<<e, f>>] : i >= earliest}

\* No candidate leaves room: the connection is blocked, and the search starts
\* again.
NoRoom ==
  /\ phase = "assemble" /\ leg < Len(path)
  /\ IsChange(path[leg], path[leg + 1]) /\ Usable(path[leg], path[leg + 1]) = {}
  /\ IF <<path[leg], path[leg + 1]>> \in blocked THEN Give("ROUTE_LANE_CHANGE_UNAVAILABLE")
     ELSE SearchAgain(blocked \cup {<<path[leg], path[leg + 1]>>}) /\ UNCHANGED <<open, transitions, start, goal, estimate, route, reason>>

Lay ==
  LET e == path[leg]
      f == IF leg < Len(path) THEN path[leg + 1] ELSE None
      changes == leg < Len(path) /\ IsChange(e, f)
      i == IF changes THEN LeastOf(Usable(e, f)) ELSE Size[e] - 1 IN
  /\ phase = "assemble" /\ leg \in 1..Len(path)
  /\ changes => Usable(e, f) # {}
  /\ assembled' = Joined(assembled, Samples(e, entering, i)) \o (IF changes THEN Connector(e, f, i) ELSE <<>>)
  /\ entering' = IF changes THEN i + Change ELSE 0
  /\ leg' = leg + 1
  /\ UNCHANGED <<open, transitions, start, goal, estimate, blocked, frontier, costs, parents, left, phase, path, route, reason>>

\* The assembled samples from the one next to the start to the one next to the
\* destination, whichever lane that is on.
CutOut(here, there) ==
  LET s == ClosestIndex(assembled, 1, here)
      t == ClosestIndex(assembled, s, there) IN
  <<here>> \o SubSeq(assembled, s + 1, t - 1) \o <<there>>

\* _build_global_route
TooWide(points) == \E i \in 1..(Len(points) - 1) : Between(points[i], points[i + 1]) > MaxGap * MaxGap * Change * Change

\* _visit_key: a sample on the way across counts as the nearer lane's.
VisitKey(p) == <<IF 2 * p.part >= Change THEN p.to ELSE p.lane, p.at>>
Repeats(points) == \E i, j \in 1..Len(points) : i # j /\ VisitKey(points[i]) = VisitKey(points[j])

Finish ==
  LET here == OnLane(start.edge, start.at)
      there == OnLane(goal.edge, goal.at)
      points == CutOut(here, there) IN
  /\ phase = "assemble" /\ leg > Len(path)
  /\ IF here = there THEN Give("ROUTE_ENDED_EARLY")
     ELSE IF TooWide(points) THEN Give("ROUTE_DISCONTINUOUS")
     ELSE IF Repeats(points) THEN Give("ROUTE_LOOP_DETECTED")
     ELSE /\ phase' = "done" /\ route' = points
          /\ UNCHANGED <<open, transitions, start, goal, estimate, blocked, frontier, costs, parents, left, path, leg, entering,
                         assembled, reason>>

PlanInit ==
  /\ open \in Markings /\ transitions = Candidates(open) /\ start \in Endpoints /\ goal \in Endpoints /\ estimate \in Estimates
  /\ phase = "search" /\ blocked = {} /\ frontier = {[edge |-> start.edge, cost |-> 0]}
  /\ costs = [e \in Edges |-> IF e = start.edge THEN 0 ELSE None] /\ parents = [e \in Edges |-> None]
  /\ left = Expansions /\ path = <<>> /\ leg = 0 /\ entering = 0 /\ assembled = <<>> /\ route = <<>>
  /\ reason = None

PlanNext == Pop \/ Unreachable \/ NoRoom \/ Lay \/ Finish
PlanSpec == PlanInit /\ [][PlanNext]_planVars

-----------------------------------------------------------------------------
CostTo ==
  LET Sum[n \in 0..(Len(path) - 1)] == IF n = 0 THEN 0 ELSE Sum[n - 1] + CostOf(path[n], path[n + 1]) IN Sum
PathCost == CostTo[Len(path) - 1]

\* The path is the cheapest that avoids the blocked connections, and the
\* destination is unreachable only when no such path is left, or the search
\* was cut short.
SearchIsExact ==
  LET found == phase = "assemble" /\ leg = 1
      costs0 == {w[2] : w \in {v \in Ways(goal.edge, blocked) : v[1] = start.edge}} IN
  /\ found => PathCost = LeastOf(costs0)
  /\ reason = "ROUTE_UNREACHABLE" => costs0 = {} \/ left = 0

\* One sample after another: along a lane, on to an edge that follows, or
\* across to a lane where the marking lets one change.
Ahead(p, q) ==
  \/ p.lane = q.lane /\ p.to = q.to /\ p.part = 0 /\ q.at = p.at + 1
  \/ /\ q.part = (p.part + 1) % Change /\ q.at = p.at + 1
     /\ <<p.lane, IF p.part > 0 THEN p.to ELSE IF q.part > 0 THEN q.to ELSE q.lane, q.at>> \in open
  \/ <<p.lane, q.lane>> \in Follows /\ p.part = 0 /\ q.part = 0 /\ p.at = Size[p.lane] - 1 /\ q.at = 0

\* Every step of a route but the last is one a vehicle can drive, and a change
\* does not begin right after the one before (route_manager.py 1493-1549).
RouteIsDrivable ==
  phase = "done" =>
    /\ \A i \in 1..(Len(route) - 2) : Ahead(route[i], route[i + 1])
    /\ \A i, j \in 2..(Len(route) - 1) :
         i <= j /\ route[i - 1].part > 0 /\ route[i].part = 0 /\ route[j].part = 0 /\ route[j + 1].part > 0
         => j - i >= RunUp

\* A search that starts again has one connection less to try.
RetriesAdvance ==
  /\ blocked \subseteq blocked'
  /\ phase = "assemble" /\ phase' = "search" => blocked # blocked'

PlanSound == [](SearchIsExact /\ RouteIsDrivable) /\ [][RetriesAdvance]_planVars
=============================================================================
