-------------------------- MODULE MCCommandSources --------------------------
(* The command in force, and what surrounds it: the voice and the scenario  *)
(* it comes from, the record a run leaves, and the run itself.  They share  *)
(* no state here; `source` says which one is running.                       *)
EXTENDS MCCommandRuntime, ScenarioRuntime, EvidenceLog, LiveVoice, RunSession

------------------------------------------------------------------------------
(* Scenarios: two hazards that stop the ego, one that must release it, a     *)
(* sensor fault with a contract on its recovery, and a convoy whose lead     *)
(* acts twice; the last two also resumed, with some commands done, with none *)
(* and with all.                                                             *)
Near(a) == [on |-> "near", actor |-> a]
NearAndSeen(a) == [on |-> "all", of |-> {Near(a), [on |-> "seen", actor |-> a]}]
Resumption(progress, completed) == [progress |-> progress, completed |-> completed]
Ordered(time, when, phase, stop, target) ==
  [time |-> time, when |-> when, phase |-> phase, stop |-> stop, target |-> target, slow |-> ~stop]

TwoHazards ==
  [script |-> <<Ordered(0, Near("ped"), "p1", TRUE, FALSE)>>,
   cast |-> [ped |-> [walker |-> TRUE, enters |-> None, leaves |-> None,
                      cues |-> <<[when |-> Near("ped"), phase |-> "e"]>>],
             car |-> [walker |-> FALSE, enters |-> 1, leaves |-> None,
                      cues |-> <<[when |-> Near("car"), phase |-> None]>>]],
   policy |-> [ped |-> [mode |-> "path", hold |-> 1, clear |-> 1],
               car |-> [mode |-> "distance", hold |-> 2, clear |-> 1]],
   order |-> <<"ped", "car">>, faults |-> <<>>, contract |-> {"events", "terminal"},
   responses |-> {{}, {"brake"}}, resumes |-> {Resumption(0, 0)}, restored |-> 0, begins |-> 0, length |-> 1, frames |-> 2, troubled |-> TRUE]
OneHazard ==
  [TwoHazards EXCEPT !.script = <<Ordered(0, Near("car"), "p1", TRUE, FALSE)>>,
     !.cast = [car |-> [@.car EXCEPT !.enters = None]], !.policy = [car |-> @.car], !.order = <<"car">>,
     !.contract = {"events", "freed", "terminal"}, !.frames = 3, !.troubled = FALSE]
Lapses ==
  [script |-> <<Ordered(0, [on |-> "start"], "p1", FALSE, FALSE),
                Ordered(1, [on |-> "ended", phase |-> "p1"], "p2", TRUE, FALSE)>>,
   cast |-> <<>>, policy |-> <<>>, order |-> <<>>,
   faults |-> [blackout |-> [when |-> [on |-> "time", at |-> 1], span |-> 2]],
   contract |-> {"recover", "after", "phases", "terminal"},
   responses |-> {{}, {"override"}, {"brake"}}, resumes |-> {Resumption(0, 0), Resumption(1, 1)},
   restored |-> 0, begins |-> 0, length |-> 1, frames |-> 4, troubled |-> FALSE]
Convoy ==
  [script |-> <<Ordered(0, NearAndSeen("bus"), "p1", FALSE, TRUE), Ordered(0, None, "p2", FALSE, FALSE)>>,
   cast |-> [bus |-> [walker |-> FALSE, enters |-> None, leaves |-> 1,
                      cues |-> <<[when |-> [on |-> "start"], phase |-> "e1"],
                                 [when |-> [on |-> "since", at |-> 1], phase |-> "e2"]>>]],
   policy |-> <<>>, order |-> <<>>,
   faults |-> [bias |-> [when |-> [on |-> "progress", at |-> 1], span |-> 0]],
   contract |-> {"phases", "terminal"}, responses |-> {{}, {"override"}},
   resumes |-> {Resumption(0, 0), Resumption(1, 0), Resumption(1, 1), Resumption(1, 2)},
   restored |-> 0, begins |-> 0, length |-> 1, frames |-> 3, troubled |-> FALSE]
MCStories == {TwoHazards, OneHazard, Lapses, Convoy}

------------------------------------------------------------------------------
(* Runs that must show that commands end well and in order, that the end of  *)
(* the route is reached, sooner than planned if need be, that a driver       *)
(* took over once, that a route left was found again, and that a stop        *)
(* stopped the vehicle while the model asked for confirmation.               *)
Quiet == [hit |-> FALSE, taken |-> FALSE, sick |-> FALSE, still |-> FALSE, there |-> FALSE]
Rest == [Quiet EXCEPT !.still = TRUE]
There == [Rest EXCEPT !.there = TRUE]
Braked == [Quiet EXCEPT !.taken = TRUE]
Alert == [Braked EXCEPT !.sick = TRUE]
Bumped(f) == [f EXCEPT !.hit = TRUE]

Drive == [commands |-> 2, frames |-> 1, least |-> None, purpose |-> "drive", terminal |-> "SUCCEEDED",
          expected |-> {"order"}, shows |-> {Quiet}, strays |-> 0]
Errand == [commands |-> 1, frames |-> 2, least |-> 1, purpose |-> "drive", terminal |-> "SUCCEEDED", expected |-> {},
           shows |-> {Rest, There, [There EXCEPT !.taken = TRUE, !.sick = TRUE]}, strays |-> 0]
Stroll == [commands |-> 1, frames |-> 2, least |-> 1, purpose |-> "drive", terminal |-> None, expected |-> {},
           shows |-> {Rest, There}, strays |-> 0]
Takeover == [commands |-> 0, frames |-> 4, least |-> None, purpose |-> "takeover", terminal |-> None, expected |-> {},
             shows |-> {Quiet, Bumped(Quiet), Braked, Bumped(Braked)}, strays |-> 0]
Tolerant == [commands |-> 0, frames |-> 2, least |-> None, purpose |-> "tolerant", terminal |-> None, expected |-> {},
             shows |-> {Quiet, Bumped(Quiet), Braked, Alert}, strays |-> 0]
Stray == [commands |-> 0, frames |-> 1, least |-> None, purpose |-> "drive", terminal |-> None,
          expected |-> {"recover"}, shows |-> {Quiet}, strays |-> 4]
Probe == [commands |-> 1, frames |-> 2, least |-> None, purpose |-> "probe", terminal |-> "CONFIRMING",
          expected |-> {"stop"}, shows |-> {Quiet, Rest}, strays |-> 0]
MCContracts == {Drive, Errand, Stroll, Takeover, Tolerant, Stray, Probe}

------------------------------------------------------------------------------
(* Every utterance of one or two words and some longer ones, and a           *)
(* microphone with short utterances and a queue of one.                      *)
Vocabulary ==
  {"not", "stop", "brake", "now", "side", "left", "right", "ahead", "keep", "lane", "to", "30",
   "90", "change", "turnleft", "turnright", "faster", "slower", "abit", "avoid", "back"}

MCSayings ==
  {[words |-> <<w>>, shout |-> s] : w \in Vocabulary, s \in BOOLEAN}
    \cup {[words |-> <<v, w>>, shout |-> FALSE] : v, w \in Vocabulary}
    \cup {[words |-> u, shout |-> FALSE] : u \in
           {<<"cannot", "avoid", "now", "stop">>, <<"not", "now", "stop">>,
            <<"left", "turnright", "wait">>, <<"to", "30", "walker", "then">>,
            <<"keep", "lane", "to", "30">>, <<"avoid", "left", "then", "keep", "lane">>,
            <<"left", "change", "right">>, <<"faster", "to", "90">>, <<"slower", "abit", "30">>,
            <<"not", "left", "change">>, <<"wait", "turnleft">>}}

MCConfused ==
  {<<"left", "right">>, <<"turnleft", "turnright">>, <<"30", "90">>, <<"90", "30">>,
   <<"slower", "faster">>, <<"change", "stop">>, <<"stop", "side">>}

------------------------------------------------------------------------------
(* Runs after one another: with a light and actors that come and go, with    *)
(* the remote model, and on another map with a microphone.                   *)
Job(theTown, plan, lit, cast, late, uses) ==
  [town |-> theTown, clean |-> FALSE, plan |-> plan, light |-> lit, cast |-> cast, late |-> late,
   uses |-> uses, log |-> TRUE]
Signalled == Job("north", "coverage", TRUE, {"vehicle", "walker"}, {"walker"}, {"orchestrator"})
Remote == Job("north", "fitted", FALSE, {"lead", "sensor"}, {}, {"backend", "bridge"})
Chatty == [Job("south", "drawn", FALSE, {"prop"}, {}, {"voice"}) EXCEPT !.log = FALSE]
MCJobs == {Signalled, Remote, Chatty}

------------------------------------------------------------------------------
\* What a scenario plays and what its run leaves behind.
ScenarioSound == ScenarioPlayed /\ EvidenceSound /\ RunSound

VARIABLE source
sourceVars == <<source, vars, scenarioVars, logVars, speechVars, voiceVars, sessionVars>>

MCInit ==
  /\ source \in {"runtime", "scenario", "evidence", "speech", "microphone", "run"}
  /\ IF source = "scenario" THEN TRUE ELSE story = Convoy
  /\ IF source = "evidence" THEN TRUE ELSE contract = Probe /\ disk = "good"
  /\ IF source = "speech" THEN TRUE ELSE said = [words |-> <<"stop">>, shout |-> FALSE]
  /\ IF source = "run" THEN TRUE ELSE job = Chatty /\ signal = "cycling"
  /\ Init /\ ScenarioInit /\ LogInit /\ SpeechInit /\ LiveInit /\ RunInit
MCNext ==
  /\ UNCHANGED source
  /\ \/ /\ source = "runtime" /\ Next /\ MCTwo'
        /\ UNCHANGED <<scenarioVars, logVars, speechVars, voiceVars, sessionVars>>
     \/ /\ source = "scenario" /\ ScenarioNext
        /\ UNCHANGED <<vars, logVars, speechVars, voiceVars, sessionVars>>
     \/ /\ source = "evidence" /\ LogNext
        /\ UNCHANGED <<vars, scenarioVars, speechVars, voiceVars, sessionVars>>
     \/ /\ source = "speech" /\ SpeechNext
        /\ UNCHANGED <<vars, scenarioVars, logVars, voiceVars, sessionVars>>
     \/ /\ source = "microphone" /\ LiveNext
        /\ UNCHANGED <<vars, scenarioVars, logVars, speechVars, sessionVars>>
     \/ /\ source = "run" /\ RunNext
        /\ UNCHANGED <<vars, scenarioVars, logVars, speechVars, voiceVars>>

\* Frames follow ticks and ticks frames, as in CommandRuntime's LiveSpec.
Alone == source = "runtime" /\ UNCHANGED <<source, scenarioVars, logVars, speechVars, voiceVars, sessionVars>>
MCSpec ==
  MCInit /\ [][MCNext]_sourceVars /\ WF_sourceVars(Alone /\ Frame) /\ WF_sourceVars(Alone /\ AdvanceClock)
=============================================================================
