-------------------------- MODULE MCRoutePlanning --------------------------
(* A road network for RoutePlanning: three lanes side by side, two of which *)
(* lead to further lanes, and a long way round from one of those back.      *)
EXTENDS RoutePlanning

MCSize == <<8, 8, 8, 3, 3, 11>>
MCFirst == <<0, 0, 0, 8, 8, 10>>
MCDir == <<1, 1, 1, 1, 1, -1>>
MCRow == <<0, 2, 5, 0, 2, -1>>
MCFollows == {<<1, 4>>, <<2, 5>>, <<4, 6>>, <<6, 1>>, <<6, 2>>}
Beside == {<<1, 2>>, <<2, 1>>, <<2, 3>>, <<3, 2>>}

\* No estimate at all, and one of how many joints are left.
MCEstimates ==
  {[eg \in (1..6) \X (1..6) |-> 0],
   [eg \in (1..6) \X (1..6) |-> IF eg[1] = eg[2] THEN 0 ELSE IF eg \in MCFollows \cup Beside THEN 2 ELSE 4]}

\* Where the markings permit a change: everywhere one way, in part both ways,
\* and in places too short for one; a change costs more than the long way round.
MCMarkings ==
  {({1} \X {2} \X (0..7)) \cup ({2} \X {3} \X (0..7)) \cup ({3} \X {2} \X (0..7)) \cup ({2} \X {1} \X (0..7)),
   ({1} \X {2} \X (3..7)) \cup ({2} \X {1} \X (2..6)) \cup ({2} \X {3} \X (0..5)),
   ({1} \X {2} \X (1..4)) \cup ({2} \X {3} \X (2..5)) \cup ({3} \X {2} \X (3..7))}
MCEndpoints == [edge : {1, 2, 3}, at : {0, 2, 6}] \cup [edge : {5}, at : {1}]
=============================================================================
