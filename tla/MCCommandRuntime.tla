-------------------------- MODULE MCCommandRuntime --------------------------
(* Small instances of CommandRuntime: what each command id asks for.       *)
EXTENDS CommandRuntime, FiniteSets
CONSTANTS c1, c2, c3

MCOf(action, gated, plan, target, life) ==
  [action |-> action, gated |-> gated, plan |-> plan, target |-> target, life |-> life]

\* A speed, a planned stop, lane keeping.
MCDriving == [c \in Command |->
  CASE c = c1 -> MCOf("SET_SPEED", FALSE, FALSE, 2, 3)
    [] c = c2 -> MCOf("STOP", FALSE, TRUE, 0, 5)
    [] c = c3 -> MCOf("KEEP_LANE", FALSE, FALSE, 0, 4)]

\* Commands that want a confirmation, and one that does not.
MCGated == [c \in Command |->
  CASE c = c1 -> MCOf("SET_SPEED", TRUE, FALSE, 1, 3)
    [] c = c2 -> MCOf("MULTIMODAL_DECISION", TRUE, FALSE, 0, 2)
    [] c = c3 -> MCOf("KEEP_LANE", FALSE, FALSE, 0, 2)]

\* No more than two commands take the vehicle.
MCTwo == Cardinality(Ids(fsm.holders) \cup {c \in Command : fsm.terminal[c] # "NONE"}) <= 2

\* A lane-keeping command heard with too little confidence.
MCHesitant == [c \in Command |-> MCOf("KEEP_LANE", TRUE, FALSE, 0, 5)]
=============================================================================
