---------------------------- MODULE MCQwenPaths ----------------------------
(* A command reaches a model as a request for a plan or as one for a        *)
(* decision, directly or through a service: one instance of each path.      *)
EXTENDS MCPlanPipeline, AsyncQwenBridge, QwenServing

CONSTANTS near, far, r1, r2, r3

VARIABLE path
pathVars == <<path, pipeVars, bridgeVars, serveVars>>

Sight(track, class, distance, relation, sure) ==
  [track |-> track, class |-> class, distance |-> distance, relation |-> relation, sure |-> sure]
Sights ==
  {{}, {Sight(near, "vehicle", 100, "ahead", TRUE)}, {Sight(near, "vehicle", 100, "ahead", FALSE)},
   {Sight(near, "vehicle", 100, "ahead", TRUE), Sight(far, "pedestrian", 101, "left", TRUE)},
   {Sight(near, "vehicle", 100, "ahead", FALSE), Sight(far, "vehicle", 400, "left", TRUE)},
   {Sight(near, "vehicle", 100, "ahead", TRUE), Sight(far, "vehicle", 102, "left", TRUE)},
   {Sight(None, None, 100, None, TRUE)}}    \* as the runner describes its objects
Described == {[class |-> "vehicle", how |-> h, metres |-> 100] : h \in {"nearest", "left", "distance"}}

Calm == [recommended |-> "NONE", danger |-> FALSE, red |-> FALSE, missing |-> FALSE,
         visual |-> "valid", names |-> None, pace |-> None, manner |-> "none", objects |-> {}]
RuledContexts ==
  {[Calm EXCEPT !.recommended = r, !.danger = d, !.red = l, !.missing = m, !.names = n, !.objects = o] :
     r \in {"NONE", "SLOW_DOWN", "STOP", "EMERGENCY_STOP"}, d, l, m \in BOOLEAN,
     n \in {None} \cup {w \in Described : w.how = "nearest"},
     o \in {{}, {Sight(near, "vehicle", 100, "ahead", TRUE)}}}
Pointed == {[Calm EXCEPT !.names = n, !.objects = o, !.visual = v, !.pace = 50] :
                 n \in Described, o \in Sights, v \in {"valid"}}
           \cup {[Calm EXCEPT !.names = n, !.visual = "invalid"] : n \in Described}
Spoken == {[Calm EXCEPT !.pace = p, !.manner = m] : p \in {None, 50, 900}, m \in {"set", "reduce", "none"}}

Picked(confidences) == [action : Moving \cup Stopping, confidence : confidences]
WrittenReplies == [action : {"SET_SPEED", "STOP", "TURN"}, confidence : {95}, confirm : BOOLEAN,
            source : {"QWEN_VL"}, speed : {None, 0, 30}, target : {None, near}]

MCAsked ==
  [context : RuledContexts, choice : Picked({95})]
  \cup [context : Pointed, choice : Picked({50, 95})]
  \cup [context : Spoken, choice : Picked({50, 70, 95})]
MCComposed ==
  [context : {d \in Pointed : d.visual = "valid" /\ d.names.how = "nearest"}, written : WrittenReplies]
MCLibraryReplies ==
  {[context |-> None, decision |-> d] : d \in {None, Decision("START", 95, FALSE, "QWEN_VL_CHOICE")}}

\* Two requests are interchangeable: of two ways to assign the faults that differ only in
\* which request is which, one is enough.
MCFaults == <<"NONE", "DELAY", "DISCONNECT", "TOKEN", "FIELD">>
InOrder == \E i, k \in 1..5 : i <= k /\ fault[r1] = MCFaults[i] /\ fault[r2] = MCFaults[k]

\* What the two other paths start from while one runs.
Commonplace == CHOOSE s \in MCSituations : s.backend = "rules" /\ s.command = Plain
MCInit ==
  \/ /\ path = "planned" /\ PipeInit
     /\ caller = "library" /\ BridgeInit
     /\ service = "decision" /\ fault = [r \in Request |-> "NONE"] /\ ServeInit
  \/ /\ path = "direct" /\ given = Commonplace /\ PipeInit
     /\ BridgeInit
     /\ service = "decision" /\ fault = [r \in Request |-> "NONE"] /\ ServeInit
  \/ /\ path = "served" /\ given = Commonplace /\ PipeInit
     /\ caller = "library" /\ BridgeInit /\ ServeInit /\ InOrder
MCNext ==
  /\ UNCHANGED path
  /\ \/ path = "planned" /\ PipeNext /\ UNCHANGED <<bridgeVars, serveVars>>
     \/ path = "direct" /\ BridgeNext /\ UNCHANGED <<pipeVars, serveVars>>
     \/ path = "served" /\ ServeNext /\ UNCHANGED <<pipeVars, bridgeVars>>
MCSpec == MCInit /\ [][MCNext]_pathVars /\ BridgeFairness /\ ServeFairness
=============================================================================
