--------------------------- MODULE RouteCoverage ---------------------------
(* RouteManager.plan_distance and plan_distance_compatible: a route of a      *)
(* requested length that follows the topology, at each fork the way visited   *)
(* less, and the first of several starts whose route has what the scene       *)
(* needs: a lane beside it over a stretch, no junction there, no bend too     *)
(* sharp for a speed.  A cell is a sample, one meter long.  The last of the       *)
(* routing modules: what they promise together is stated at its end.          *)
EXTENDS RoutePlanning, RouteProgress, RouteRecovery

CONSTANTS Roads, Cells,        \* the roads and the cells of each
          Onward,              \* <<r, q>>: q is entered from the end of r
          Starts,              \* the candidate starts, in order
          AskedDistance,               \* the distance asked for
          Foresight,           \* depth of the novelty search
          Tolerated            \* what the lane and speed needs may be

ASSUME CoverageAssumption ==
  /\ Cells \in [Roads -> Nat \ {0}] /\ Onward \subseteq Roads \X Roads
  /\ AskedDistance \in Nat \ {0} /\ Foresight \in Nat /\ Len(Starts) > 0

VARIABLES needs, candidate, way, visits, coverVerdict
coverVars == <<needs, candidate, way, visits, coverVerdict>>

Cell == UNION {{r} \X (0..(Cells[r] - 1)) : r \in Roads}
After(c) == IF c[2] < Cells[c[1]] - 1 THEN {<<c[1], c[2] + 1>>}
            ELSE {<<q, 0>> : q \in {q \in Roads : <<c[1], q>> \in Onward}}

ASSUME StartsAssumption == Starts \in Seq(Cell)

\* _future_novel_capacity
Novelty(c) ==
  LET New[depth \in 0..Foresight, d \in Cell, seen \in SUBSET Cell] ==
        IF depth = 0 \/ d \in seen THEN 0
        ELSE LET more == {New[depth - 1, e, seen \cup {d}] : e \in After(d)} IN
             (IF visits[d] = 0 THEN 1 ELSE 0) + (IF more = {} THEN 0 ELSE CHOOSE n \in more : \A m \in more : m <= n)
  IN New[Foresight, c, {}]

\* The way on: visited least, then with most that is new ahead; between equals
\* the sharper turn and the names decide.
Preferred(c) ==
  LET next == After(c)
      least == {d \in next : \A e \in next : visits[d] <= visits[e]} IN
  IF Cardinality(least) < 2 THEN least
  ELSE {d \in least : \A e \in least : Novelty(e) <= Novelty(d)}

Begin(n) ==
  /\ candidate' = n /\ way' = <<Starts[n]>>
  /\ visits' = [c \in Cell |-> IF c = Starts[n] THEN 1 ELSE 0]

Covered == Len(way) - 1 >= AskedDistance
Extend ==
  /\ coverVerdict = None /\ ~Covered
  /\ \E c \in Preferred(way[Len(way)]) : way' = Append(way, c) /\ visits' = [visits EXCEPT ![c] = @ + 1]
  /\ UNCHANGED <<needs, candidate, coverVerdict>>

\* validate_compatibility
Compatible(laid) ==
  \A n \in needs : n.to < Len(laid) /\ \A i \in n.from..n.to : laid[i + 1] \in n.cells

\* A start whose route ends early or does not do is dropped for the next one.
Drop ==
  /\ coverVerdict = None
  /\ IF Covered THEN ~Compatible(way) ELSE After(way[Len(way)]) = {}
  /\ IF candidate < Len(Starts) THEN Begin(candidate + 1) /\ UNCHANGED coverVerdict
     ELSE coverVerdict' = "ROUTE_NO_COMPATIBLE_ANCHOR" /\ UNCHANGED <<candidate, way, visits>>
  /\ UNCHANGED needs

Accept ==
  /\ coverVerdict = None /\ Covered /\ Compatible(way)
  /\ coverVerdict' = "ready" /\ UNCHANGED <<needs, candidate, way, visits>>

CoverInit ==
  /\ needs \in Tolerated /\ candidate = 1 /\ way = <<Starts[1]>>
  /\ visits = [c \in Cell |-> IF c = Starts[1] THEN 1 ELSE 0] /\ coverVerdict = None

CoverNext == Extend \/ Drop \/ Accept
CoverSpec == CoverInit /\ [][CoverNext]_coverVars

-----------------------------------------------------------------------------
\* Two branches of a fork that nothing else leads into.
Siblings(p, q) ==
  \E r \in Roads : {s \in Roads : <<s, p>> \in Onward \/ <<s, q>> \in Onward} = {r}
                  /\ {<<r, p>>, <<r, q>>} \subseteq Onward

\* Such branches are taken in turn: one is never more than a pass ahead of the
\* other, unless the way began on one of them (route_manager.py 659-672).
ForksTakeTurns ==
  LET taken == way[Len(way)][1]
      times(road) == visits[<<road, 0>>] IN
  times(taken) > 1 =>
    \A other \in Roads : Siblings(taken, other) /\ way[1][1] \notin {taken, other} => times(taken) <= times(other) + 1

CoverageSound == []ForksTakeTurns

\* What routing promises: a route planned, long enough, followed, left and found again.
RoutesSound == RecoverySound /\ PlanSound /\ ProgressSound /\ CoverageSound
=============================================================================
