--------------------------- MODULE ScenarioRuntime ---------------------------
(* The scenario that plays around the vehicle while the loop drives it: the *)
(* commands that fall due, the actors that enter, act and leave, the faults *)
(* that start and lapse, the release of an emergency stop whose hazard is   *)
(* gone, and the evidence from which the run is judged.  A frame is three   *)
(* steps: what the scenario does before the sensors are read (Stage), what  *)
(* the sensors add (Watch) and what the applied control shows (Judge).      *)
(* Distances are 0 (inside the trigger's reach) or 1 (clear of it), times   *)
(* are frames.                                                              *)
EXTENDS Integers, Sequences, FiniteSets, Absent
LOCAL INSTANCE Functions

CONSTANT Stories   \* scenario files, as records; `frames` is the budget of the run, `resumes`
                   \* are the places a run of it may be resumed at, [progress, completed], and
                   \* `responses` and `troubled` bound what its controls may show

VARIABLES story, instant, beat, over,
          travelled,        \* route progress
          presence,     \* of each actor: "waiting", "present" or "gone"
          apart,        \* this frame's distance of each present actor
          known,        \* the phases that had ended when the frame began
          issued, queue, underway, ended, marked,
          onset, faulting, lapsed, answered, settled,   \* of the faults
          cue, cueAt,   \* of the actors' events
          danger, noticed, reacted, effect, freed,    \* of the hazards
          clearSince, blockedAt, holding, alerted, won

storyVars == <<story, instant, beat, over, travelled, presence, apart, known>>
scriptVars == <<issued, queue, underway, ended, marked, won>>
faultVars == <<onset, faulting, lapsed, answered, settled>>
hazardVars == <<cue, cueAt, danger, noticed, reacted, effect, freed>>
pathVars == <<clearSince, blockedAt, holding, alerted>>
scenarioVars == <<storyVars, scriptVars, faultVars, hazardVars, pathVars>>

Cast == DOMAIN story.cast
FaultIds == DOMAIN story.faults
Script == story.script
Noted(at, who) == [a \in DOMAIN at |-> IF a \in who /\ at[a] = None THEN instant ELSE at[a]]

------------------------------------------------------------------------------
(* scenario_trigger_satisfied: `c` is the context the caller hands over.    *)
Simple(t, c) ==
  \/ t.on = "start"
  \/ t.on = "time" /\ instant >= t.at
  \/ t.on = "progress" /\ c.travelled >= t.at
  \/ t.on = "near" /\ t.actor \in DOMAIN c.apart /\ c.apart[t.actor] = 0
  \/ t.on = "seen" /\ t.actor \in c.seen
  \/ t.on = "ended" /\ t.phase \in c.ended
  \/ t.on = "since" /\ c.last # None /\ instant - c.last >= t.at
Fires(t, c) == IF t.on = "all" THEN t.of # {} /\ \A u \in t.of : Simple(u, c) ELSE Simple(t, c)

\* CommandTimeline.due: commands leave in order, and the first that is not due
\* keeps back those behind it.
DueNow(k, c) == Script[k].time <= instant /\ (Script[k].when = None \/ Fires(Script[k].when, c))
Reach(c) == CHOOSE n \in issued..Len(Script) :
              /\ \A k \in issued + 1..n : DueNow(k, c)
              /\ n = Len(Script) \/ ~DueNow(n + 1, c)
Emit(c) == /\ issued' = Reach(c)
           /\ queue' = queue \o [i \in 1..Reach(c) - issued |-> issued + i]

------------------------------------------------------------------------------
(* Actors.                                                                  *)
Leaves(a, p) == presence[a] = "present" /\ story.cast[a].leaves # None /\ p >= story.cast[a].leaves
Enters(a, p) == presence[a] = "waiting" /\ p >= story.cast[a].enters
Presence(p) == [a \in Cast |-> IF Leaves(a, p) THEN "gone"
                               ELSE IF Enters(a, p) THEN "present" ELSE presence[a]]

\* actor_state: an actor plays at most one event of its list in a frame; a
\* walker has one trigger, asked again in every frame, and the hazard it starts
\* is that of the actor the trigger names.
Acting(c) == {a \in Cast : /\ presence'[a] = "present"
                           /\ cue[a] < Len(story.cast[a].cues)
                           /\ Fires(story.cast[a].cues[cue[a] + 1].when, [c EXCEPT !.last = cueAt[a]])}
NextCue(a) == story.cast[a].cues[cue[a] + 1]
Hazard(a) == IF story.cast[a].walker /\ NextCue(a).when.on = "near" THEN NextCue(a).when.actor ELSE a
Moved(c) ==
  LET played == {a \in Acting(c) : ~story.cast[a].walker} IN
  /\ cue' = [a \in Cast |-> IF a \in played THEN cue[a] + 1 ELSE cue[a]]
  /\ cueAt' = [a \in Cast |-> IF a \in played THEN instant ELSE cueAt[a]]
  /\ danger' = Noted(danger, {Hazard(a) : a \in Acting(c)})
  /\ marked' = marked \cup ({NextCue(a).phase : a \in Acting(c)} \ {None})

------------------------------------------------------------------------------
(* Faults: update_frame.                                                    *)
Onset(c) == [f \in FaultIds |-> IF onset[f] = None /\ Fires(story.faults[f].when, c) THEN instant ELSE onset[f]]
Faulting(f) == onset'[f] # None /\ instant < onset'[f] + story.faults[f].span
Faulty(c) ==
  /\ onset' = Onset(c)
  /\ faulting' = faulting \cup {f \in FaultIds : Faulting(f)}
  /\ lapsed' = Noted(lapsed, {f \in faulting : ~Faulting(f)})

------------------------------------------------------------------------------
(* The release of an emergency stop.                                        *)
HazardClear(a) ==
  LET p == story.policy[a] IN
  IF p.mode = "distance" THEN p.clear = 0 \/ (apart'[a] # None /\ apart'[a] >= p.clear)
  ELSE clearSince # None /\ instant >= clearSince + p.clear
Releasable(a) == /\ freed[a] = None /\ effect[a] # None
            /\ HazardClear(a)
            /\ instant >= effect[a] + story.policy[a].hold
FirstReleasable == CHOOSE i \in DOMAIN story.order :
                Releasable(story.order[i]) /\ \A j \in 1..i - 1 : ~Releasable(story.order[j])
Freed == IF holding /\ underway = {} /\ ~alerted /\ \E i \in DOMAIN story.order : Releasable(story.order[i])
         THEN {story.order[FirstReleasable]} ELSE {}
Recover == freed' = Noted(freed, Freed) /\ holding' = (holding /\ Freed = {})

Stage ==
  /\ beat = "stage" /\ over = None
  /\ \E p \in {travelled, travelled + 1} :
       /\ travelled' = p /\ (holding => p = travelled)
       /\ p <= story.length
       /\ presence' = Presence(p)
       /\ apart' \in [Cast -> {0, 1, None}]
       /\ \A a \in Cast : apart'[a] = None <=> presence'[a] # "present"
       /\ known' = ended
       /\ LET c == [travelled |-> p, apart |-> apart', seen |-> {}, ended |-> ended, last |-> None] IN
          Faulty(c) /\ Recover /\ Moved(c) /\ Emit(c)
  /\ beat' = "watch"
  /\ UNCHANGED <<story, instant, over, underway, ended, won, answered, settled, noticed, reacted, effect,
                 clearSince, blockedAt, alerted>>

\* A declared actor that cannot be placed ends the run.
SpawnFails ==
  /\ beat = "stage" /\ over = None
  /\ \E a \in Cast, p \in {travelled, travelled + 1} : (holding => p = travelled) /\ p <= story.length /\ Enters(a, p)
  /\ over' = "failed"
  /\ UNCHANGED <<story, instant, beat, travelled, presence, apart, known, scriptVars, faultVars, hazardVars, pathVars>>

------------------------------------------------------------------------------
(* What the sensors add.  A frame whose perception failed says nothing of   *)
(* the path ahead.                                                          *)
NotePathMutant(path) ==
  /\ clearSince' = IF path = "clear" /\ clearSince = None THEN instant ELSE clearSince
  /\ blockedAt' = IF path = "blocked" THEN instant ELSE blockedAt
NotePath(path) ==
  /\ clearSince' = CASE path = "clear" -> IF clearSince = None THEN instant ELSE clearSince
                     [] path = "blocked" -> None
                     [] path = "unseen" -> clearSince
  /\ blockedAt' = IF path = "blocked" THEN instant ELSE blockedAt

\* _select_deferred_commands: one scenario command a frame, none while a plan
\* runs, and one that needs a target waits until something is seen.
Grounded(k, seen) == Script[k].target => seen # {}
Submittable(q, seen) == {i \in DOMAIN q : Grounded(q[i], seen) /\ \A j \in 1..i - 1 : ~Grounded(q[j], seen)}
Without(q, i) == SubSeq(q, 1, i - 1) \o SubSeq(q, i + 1, Len(q))

Watch ==
  /\ beat = "watch"
  /\ \E path \in {"clear", "blocked", "unseen"} :
     \E seen \in {{}, IF path = "blocked" THEN {a \in Cast : apart[a] = 0} ELSE {}} :
       /\ NotePath(path)
       /\ noticed' = Noted(noticed, {a \in seen : danger[a] # None})
       /\ LET c == [travelled |-> travelled, apart |-> apart, seen |-> seen, ended |-> known, last |-> None]
              n == Reach(c)
              q == queue \o [i \in 1..n - issued |-> issued + i] IN
          /\ issued' = n
          /\ \/ queue' = q /\ UNCHANGED underway
             \/ \E i \in Submittable(q, seen) : queue' = Without(q, i) /\ underway' = underway \cup {q[i]}
  /\ beat' = "judge"
  /\ UNCHANGED <<story, instant, over, travelled, presence, apart, known, ended, marked, won, faultVars,
                 cue, cueAt, danger, reacted, effect, freed, holding, alerted>>

------------------------------------------------------------------------------
(* What the applied control shows: note_control_observation.  Any response  *)
(* is credited to every hazard that has begun.                              *)
Respond(response) ==
  LET all == IF response = {} THEN {} ELSE {a \in Cast : danger[a] # None} IN
  /\ reacted' = Noted(reacted, all)
  /\ effect' = Noted(effect, IF "brake" \in response THEN all ELSE {})
  /\ answered' = Noted(answered, IF response = {} THEN {} ELSE faulting)
Settle(response, onRoute) ==
  settled' = Noted(settled, IF "override" \notin response /\ onRoute THEN {f \in FaultIds : lapsed[f] # None} ELSE {})

\* A command in force ends; its phase is terminal from then on.  A STOP that
\* completes, and any failure, leaves the vehicle stopped.
ScriptEnds(k, outcome) ==
  /\ underway' = underway \ {k}
  /\ ended' = ended \cup {Script[k].phase} /\ marked' = marked \cup {Script[k].phase}
  /\ holding' = (Script[k].stop \/ outcome = "failed")
  /\ won' = IF outcome = "done" THEN instant ELSE won
\* The internal STOP that waits for a slow answer succeeds under its own id.
WaitDone == won' = instant /\ UNCHANGED <<underway, ended, marked, holding>>

\* ScenarioExtensionRuntime.evaluate: the contracts a scenario may declare.
Accounted(a) == /\ danger[a] # None /\ noticed[a] # None /\ reacted'[a] # None /\ effect'[a] # None
                /\ noticed[a] <= reacted'[a] /\ reacted'[a] <= effect'[a]
AllTerminal == underway' = {}
PhasesDone ==
  LET plan == {Script[k].phase : k \in story.restored + 1..Len(Script)} IN plan # {} /\ plan \subseteq marked'
FaultsRecovered ==
  LET begun == {f \in FaultIds : onset[f] # None}
  IN  begun # {} /\ \A f \in begun : lapsed[f] # None /\ settled'[f] # None
EventsAccounted == \A a \in DOMAIN story.policy : Accounted(a)
StopsReleased == \A a \in DOMAIN story.policy : freed[a] # None
SucceedsAfterRecovery == /\ \E f \in FaultIds : lapsed[f] # None
                         /\ won' # None /\ \A f \in FaultIds : (lapsed[f] # None => won' >= lapsed[f])
Met(contract) == /\ "terminal" \in contract => AllTerminal
                 /\ "phases" \in contract => PhasesDone
                 /\ "recover" \in contract => FaultsRecovered
                 /\ "events" \in contract => EventsAccounted
                 /\ "freed" \in contract => StopsReleased
                 /\ "after" \in contract => SucceedsAfterRecovery

\* _route_run_can_end_early.
MayEnd == /\ issued = Len(Script) /\ queue = <<>> /\ underway' = {}
          /\ ~alerted' /\ Met(story.contract)
Over == over' \in {None} \cup (IF MayEnd THEN {"early"} ELSE {})

Judge ==
  /\ beat = "judge"
  /\ \E response \in story.responses, onRoute, trouble \in BOOLEAN :
       /\ onRoute \/ \E f \in FaultIds : lapsed[f] # None /\ settled[f] = None
       /\ trouble = alerted \/ (trouble /\ story.troubled)
       /\ Respond(response) /\ Settle(response, onRoute)
       /\ alerted' = trouble
  /\ \/ UNCHANGED <<underway, ended, marked, holding, won>>
     \/ \E k \in underway, outcome \in {"done", "failed"} : ScriptEnds(k, outcome)
     \/ (\E k \in underway : Script[k].slow) /\ WaitDone
  /\ IF instant = story.frames THEN over' = "full" ELSE Over
  /\ instant' = IF over' = None THEN instant + 1 ELSE instant
  /\ beat' = IF over' = None THEN "stage" ELSE "done"
  /\ UNCHANGED <<story, travelled, presence, apart, known, issued, queue, onset, faulting, lapsed,
                 cue, cueAt, danger, noticed, freed, clearSince, blockedAt>>

------------------------------------------------------------------------------
\* _build_resume_segment_spec: a run that goes on from an earlier one has its progress and
\* the phases it completed, without the actors whose time is over there (nothing is asked of
\* their hazards), and no phases to complete if no command is left.
Resumed(file, at) ==
  IF at.progress = 0 THEN file
  ELSE LET cast == {a \in DOMAIN file.cast : file.cast[a].leaves = None \/ at.progress < file.cast[a].leaves} IN
       [file EXCEPT !.restored = at.completed, !.begins = at.progress,
          !.cast = Restrict(@, cast), !.policy = Restrict(@, cast \cap DOMAIN @),
          !.order = SelectSeq(@, LAMBDA a : a \in cast),
          !.contract = IF at.completed = Len(file.script) THEN @ \ {"phases"} ELSE @]

ScenarioInit ==
  /\ \E file \in Stories : \E at \in file.resumes : story = Resumed(file, at)
  /\ instant = 0 /\ beat = "stage" /\ over = None /\ travelled = story.begins
  /\ presence = [a \in Cast |-> IF story.cast[a].enters = None THEN "present" ELSE "waiting"]
  /\ apart = [a \in Cast |-> None]
  /\ issued = story.restored /\ queue = <<>> /\ underway = {}
  /\ ended = {Script[k].phase : k \in 1..story.restored}
  /\ marked = ended /\ known = ended /\ won = None
  /\ onset = [f \in FaultIds |-> None] /\ lapsed = onset /\ answered = onset /\ settled = onset /\ faulting = {}
  /\ cue = [a \in Cast |-> 0] /\ cueAt = apart
  /\ danger = apart /\ noticed = apart /\ reacted = apart /\ effect = apart /\ freed = apart
  /\ clearSince = None /\ blockedAt = None /\ holding = FALSE /\ alerted = FALSE
ScenarioNext == Stage \/ SpawnFails \/ Watch \/ Judge

\* The evidence of a hazard is in the order its acceptance asks for: nothing is
\* credited to a hazard before it begins, and a release follows the brake by
\* the time the stop must hold.
EvidenceInOrder ==
  \A a \in Cast :
    /\ noticed[a] # None => (danger[a] # None /\ danger[a] <= noticed[a])
    /\ reacted[a] # None => (danger[a] # None /\ danger[a] <= reacted[a])
    /\ effect[a] # None => (reacted[a] # None /\ reacted[a] <= effect[a])
    /\ freed[a] # None => (effect[a] # None /\ effect[a] + story.policy[a].hold <= freed[a])
\* A fault reported as running has begun, is reported as over in the first frame
\* after its span, and nothing is called its recovery before that.
FaultsReported ==
  \A f \in FaultIds :
    /\ f \in faulting => onset[f] # None
    /\ lapsed[f] # None => (f \in faulting /\ onset[f] + story.faults[f].span <= lapsed[f])
    /\ (f \in faulting /\ lapsed[f] = None /\ beat \in {"watch", "judge"}) => instant < onset[f] + story.faults[f].span
    /\ answered[f] # None => f \in faulting
    /\ settled[f] # None => (lapsed[f] # None /\ lapsed[f] <= settled[f])
\* No command that fell due is forgotten, and one that waits for the end of a
\* phase does not leave before it.
NothingForgotten ==
  LET left == story.restored + 1..issued IN
  /\ \A k \in left : \/ \E i \in DOMAIN queue : queue[i] = k
                     \/ k \in underway \/ Script[k].phase \in ended
  /\ \A k \in left : (Script[k].when # None /\ Script[k].when.on = "ended") => Script[k].when.phase \in ended
\* The scenario moves a stopped vehicle only for one hazard, which has braked
\* it and is clear now: far enough, or not seen ahead for as long as its policy
\* asks; never while a command or an alert holds it.
ReleasedForCause ==
  (beat = "stage" /\ holding /\ ~holding') =>
    /\ underway = {} /\ ~alerted
    /\ \E a \in DOMAIN story.policy :
         /\ {b \in Cast : freed'[b] # freed[b]} = {a} /\ freed'[a] = instant
         /\ IF story.policy[a].mode = "distance" THEN apart'[a] # None /\ apart'[a] >= story.policy[a].clear
            ELSE clearSince # None /\ (blockedAt = None \/ blockedAt < instant - story.policy[a].clear)
\* The scenario's commands, faults and hazards are told and released as played.
ScenarioPlayed == /\ [](EvidenceInOrder /\ FaultsReported /\ NothingForgotten)
                 /\ [][ReleasedForCause]_scenarioVars

ScenarioSpec == ScenarioInit /\ [][ScenarioNext]_scenarioVars
=============================================================================
