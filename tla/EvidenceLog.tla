------------------------------ MODULE EvidenceLog ------------------------------
(* What a run leaves behind: ScenarioEvidenceRecorder writes a record of each *)
(* command, frame and end and keeps the totals of its summary beside them;    *)
(* QwenScenarioMonitor hears the ends of the commands that were routed; the   *)
(* end of run() makes one verdict of both and gives back what it holds, also  *)
(* when something raises.  With every routed command <<"user", k>> comes a    *)
(* command of the runtime's own, <<"own", k>>, which stops the vehicle until  *)
(* there is an answer, or executes it.                                        *)
EXTENDS Integers, Sequences, FiniteSets, Absent
LOCAL INSTANCE SequencesExt

CONSTANT Contracts   \* what runs must show, [commands, frames, least, purpose, terminal, expected], and what
                     \* bounds them: the kinds of frame they have (shows) and their recovery events (strays);
                     \* least is None, or the frames after which a run may end that must finish its route

VARIABLES contract, log, totals, verdict,
          place,     \* of run(): "frames", "ending", "done", "raising", "leaving" or "left"
          sent,      \* commands submitted so far
          open,      \* routed commands that have not ended
          inForce,   \* of which command the runtime executes its own one, or None
          ends,      \* what the monitor heard of each routed command
          light,     \* the scenario's traffic light: "held" or "restored"
          disk       \* "good", "summary" (no summary file can be written) or "full"

logVars == <<contract, log, totals, verdict, place, sent, open, inForce, ends, light, disk>>

User(k) == <<"user", k>>
Own(k) == <<"own", k>>
Entry(kind, id, what) == [kind |-> kind, id |-> id, what |-> what]
Ending(id, what) == Entry("end", id, what)
\* record_command, for a command and for the one that waits for its answer.
Commanded(k) == <<Entry("command", User(k), None), Entry("command", Own(k), None)>>

------------------------------------------------------------------------------
(* The recorder's totals.                                                     *)

\* record_feedback: a status of a command is recorded once, and the newest one
\* recorded stands for it.
Told(t, reports) ==
  LET Tell(s, r) == IF <<r.id, r.what>> \in s.told THEN s
                    ELSE [s EXCEPT !.told = @ \cup {<<r.id, r.what>>}, !.status[r.id] = r.what] IN
  FoldLeft(Tell, t, reports)
News(reports) == SelectSeq(reports, LAMBDA r : <<r.id, r.what>> \notin totals.told)

\* record_frame: collisions and takeovers are counted where they begin, and a stop
\* that was sent has stopped the vehicle in the first frame at rest after it.
Framed(t, f) ==
  [t EXCEPT !.frames = @ + 1, !.last = f, !.sick = @ \/ f.sick,
     !.hits = IF f.hit /\ ~t.last.hit THEN @ + 1 ELSE @,
     !.takeovers = IF f.taken /\ ~t.last.taken THEN @ + 1 ELSE @,
     !.stopped = [k \in DOMAIN @ |-> IF f.still /\ k <= sent /\ @[k] = None THEN t.frames + 1 ELSE @[k]]]

\* _route_recovery_succeeded.
Recovered(states) ==
  \E i, j \in DOMAIN states : i < j /\ states[i] = "REPLANNED" /\ states[j] = "ON_ROUTE"

\* fail writes the last record, then the summary file; only after both the recorder is
\* closed, and a write that fails raises.
Fail(entries) ==
  IF disk = "full" THEN UNCHANGED <<log, verdict>>
  ELSE /\ log' = log \o entries \o <<Entry("run_failed", None, "FAILED")>>
       /\ verdict' = IF disk = "good" THEN "FAILED" ELSE verdict

------------------------------------------------------------------------------
(* The monitor.  Ends of commands that were not routed are not its own.       *)
Terminal == {"SUCCEEDED", "FAILED", "REJECTED", "EXPIRED", "TIMED_OUT", "SAFETY_OVERRIDE", "CONFIRMING"}
Heard(reports) ==
  ends' = [k \in DOMAIN ends |->
             IF k > sent' THEN ends[k]
             ELSE ends[k] \o SelectSeq(reports, LAMBDA r : r.id = User(k) /\ r.what \in Terminal)]
Passed ==
  LET ended == {k \in DOMAIN ends : ends[k] # <<>>} IN
  /\ sent > 0
  /\ \E k \in ended : \E i \in DOMAIN ends[k] : ends[k][i].what = contract.terminal
  /\ \A k \in ended : Len(ends[k]) = 1

------------------------------------------------------------------------------
(* The frames of a run.                                                       *)

\* A command is rejected or expired at once, or waits for its answer; the vehicle stops
\* for it either way.
Submit ==
  /\ place = "frames" /\ sent < contract.commands
  /\ sent' = sent + 1 /\ inForce' = sent + 1
  /\ \E reports \in {<<>>} \cup {<<Ending(User(sent + 1), s)>> : s \in {"REJECTED", "EXPIRED"}} :
       /\ open' = IF reports = <<>> THEN open \cup {sent + 1} ELSE open
       /\ totals' = Told(totals, reports) /\ Heard(reports)
       /\ log' = log \o Commanded(sent + 1) \o reports
  /\ UNCHANGED <<contract, verdict, place, light, disk>>

\* A frame is recorded, and then what ended in it in the runtime.
Recorded ==
  /\ place = "frames" /\ totals.frames < contract.frames
  /\ \E f \in contract.shows,
       reports \in {<<>>} \cup (IF inForce = None THEN {} ELSE {<<Ending(Own(inForce), s)>> : s \in {"SUCCEEDED", "TIMED_OUT"}}) :
       /\ inForce' = IF reports = <<>> THEN inForce ELSE None
       /\ totals' = Told(Framed(totals, f), reports) /\ log' = Append(log, Entry("frame", None, f)) \o News(reports)
       /\ UNCHANGED sent /\ Heard(reports)
  /\ UNCHANGED <<contract, verdict, place, open, light, disk>>

\* A frame whose record holds a number that is not finite is counted and not written.
Unwritten ==
  /\ place = "frames" /\ totals.frames < contract.frames
  /\ \E f \in contract.shows : totals' = Framed(totals, f)
  /\ place' = "raising"
  /\ UNCHANGED <<contract, log, verdict, sent, open, inForce, ends, light, disk>>

\* The answer, or the plan made of it, ends a command.  An answer that is refused,
\* or too late, fails what the runtime does for it.  The recorder is not told of a plan that
\* asks for confirmation, and nobody of one that a newer plan replaced.
Refusals == {"FAILED", "REJECTED", "EXPIRED"}
EndCommand ==
  /\ place = "frames"
  /\ \E k \in open, how \in Refusals \cup {"SUCCEEDED", "SAFETY_OVERRIDE", "CONFIRMING", "SUPERSEDED"} :
       LET failing == inForce = k /\ how \in Refusals
           reports == (IF how \in {"CONFIRMING", "SUPERSEDED"} THEN <<>> ELSE <<Ending(User(k), how)>>)
                      \o (IF failing THEN <<Ending(Own(k), "FAILED")>> ELSE <<>>) IN
       /\ open' = open \ {k} /\ inForce' = IF failing THEN None ELSE inForce
       /\ totals' = Told(totals, reports) /\ log' = log \o News(reports)
       /\ UNCHANGED sent /\ Heard(<<Ending(User(k), how)>>)
  /\ UNCHANGED <<contract, verdict, place, light, disk>>

\* record_route_recovery_event: leaving the route, replanning, coming back.
Recovery ==
  /\ place = "frames" /\ Len(totals.recovery) < contract.strays
  /\ \E what \in {"OFF_ROUTE", "REPLANNED", "ON_ROUTE"} :
       /\ totals' = [totals EXCEPT !.recovery = Append(@, what)]
       /\ log' = Append(log, Entry("recovery", None, what))
  /\ UNCHANGED <<contract, verdict, place, sent, open, inForce, ends, light, disk>>

------------------------------------------------------------------------------
(* The end of a run in order.                                                 *)

\* _runtime_health_completed: no frame's reason was a fail-safe of the runtime.
Healthy == ~totals.sick

\* _route_run_can_end_early: the vehicle stands at the end of its route, and nothing of
\* what the run is to do is left.
EndsEarly ==
  /\ contract.least # None /\ totals.frames >= contract.least
  /\ totals.last.there /\ totals.last.still /\ totals.hits = 0 /\ Healthy
  /\ sent = contract.commands /\ open = {} /\ inForce = None
  /\ contract.terminal # None => Passed

\* All frames were driven, or the last one ends a route.
RunOut ==
  /\ place = "frames" /\ (totals.frames = contract.frames \/ EndsEarly) /\ place' = "ending"
  /\ UNCHANGED <<contract, log, totals, verdict, sent, open, inForce, ends, light, disk>>

\* fail_all_pending and the RUNTIME_ENDED of the plan.
EndPending ==
  /\ place = "ending"
  /\ \E k \in open :
       LET reports == <<Ending(User(k), "FAILED")>> \o (IF inForce = k THEN <<Ending(Own(k), "FAILED")>> ELSE <<>>) IN
       /\ open' = open \ {k} /\ inForce' = IF inForce = k THEN None ELSE inForce
       /\ totals' = Told(totals, reports) /\ log' = log \o News(reports)
       /\ UNCHANGED sent /\ Heard(reports)
  /\ UNCHANGED <<contract, verdict, place, light, disk>>

\* fail_active ends what is in force, in the recorder only.
Leftover == IF inForce = None THEN <<>> ELSE <<Ending(Own(inForce), "FAILED")>>

\* What the run shows by its purpose: a drive that its last command was carried out, a
\* takeover that there was one (_expected_safety_completed, whatever its reason), a tolerant
\* run nothing but health, a probe of the model's failures that the vehicle stayed slow
\* (here: at rest), for all its frames.
Unhurt == (totals.frames = contract.frames \/ EndsEarly) /\ totals.hits = 0
Declared == Unhurt /\ inForce = None /\ Healthy
ExpectedSafety == Unhurt /\ (contract.purpose = "takeover" => totals.takeovers > 0)
                         /\ (contract.purpose = "tolerant" => Healthy)
FailedClosed == totals.frames = contract.frames /\ totals.hits = 0 /\ totals.last.still
RouteFinished == contract.least # None => totals.last.there
Completion ==
  /\ CASE contract.purpose = "probe" -> FailedClosed
       [] contract.purpose \in {"takeover", "tolerant"} -> ExpectedSafety
       [] contract.purpose = "drive" -> Declared
  /\ RouteFinished
  /\ contract.terminal # None => Passed

\* evaluate_expected, for the keys a contract declares.
InOrder == sent = contract.commands
           /\ \A k \in 1..sent : totals.status[User(k)] \in {"SUCCEEDED", "SAFETY_OVERRIDE"}
Expected == /\ "order" \in contract.expected => InOrder
            /\ "recover" \in contract.expected => Recovered(totals.recovery)
            /\ "stop" \in contract.expected => \E k \in DOMAIN totals.stopped : totals.stopped[k] # None

Complete ==
  /\ place = "ending" /\ open = {}
  /\ totals' = Told(totals, Leftover) /\ inForce' = None
  /\ LET status == IF Completion /\ Expected THEN "SUCCEEDED" ELSE "FAILED" IN
     IF disk = "full" THEN UNCHANGED <<log, verdict>>
     ELSE /\ log' = log \o News(Leftover) \o <<Entry("run_complete", None, status)>>
          /\ verdict' = IF disk = "good" THEN status ELSE verdict
  /\ place' = IF disk = "good" THEN "done" ELSE "raising"
  /\ UNCHANGED <<contract, sent, open, ends, light, disk>>

------------------------------------------------------------------------------
(* The end of a run that raises, and what is done in any case.                *)

\* Anything may raise, a write to a full disk among it.
Raise ==
  /\ place \in {"frames", "ending", "done"} /\ place' = "raising"
  /\ disk' \in {disk, "full"}
  /\ UNCHANGED <<contract, log, totals, verdict, sent, open, inForce, ends, light>>

\* The command in force fails and the recorder is told both, unless it is closed
\* already: its RuntimeError is caught, that of the disk is not.
Handle ==
  /\ place = "raising" /\ place' = "leaving" /\ inForce' = None
  /\ IF verdict # None \/ disk = "full" THEN UNCHANGED <<log, totals, verdict>>
     ELSE totals' = Told(totals, Leftover) /\ Fail(News(Leftover))
  /\ UNCHANGED <<contract, sent, open, ends, light, disk>>

\* finally: bridge, backend, voice and orchestrator are closed, then the recorder,
\* which fails the run if it has no verdict, then the light is given back.  What
\* raises on the way ends it.
Leave ==
  /\ place \in {"done", "leaving"} /\ place' = "left"
  /\ \/ verdict # None /\ light' = "restored" /\ UNCHANGED <<log, verdict>>
     \/ verdict = None /\ Fail(<<>>) /\ light' = IF disk = "good" THEN "restored" ELSE light
  /\ UNCHANGED <<contract, totals, sent, open, inForce, ends, disk>>
LeaveBadly ==
  /\ place \in {"done", "leaving"} /\ place' = "left"
  /\ UNCHANGED <<contract, log, totals, verdict, sent, open, inForce, ends, light, disk>>

LogInit ==
  /\ contract \in Contracts /\ disk \in {"good", "summary"}
  /\ log = <<Entry("run_start", None, None)>> /\ verdict = None /\ place = "frames"
  /\ sent = 0 /\ open = {} /\ inForce = None /\ light = "held"
  /\ ends = [k \in 1..contract.commands |-> <<>>]
  /\ totals = [frames |-> 0, sick |-> FALSE,
               last |-> [hit |-> FALSE, taken |-> FALSE, sick |-> FALSE, still |-> FALSE, there |-> FALSE],
               hits |-> 0, takeovers |-> 0, recovery |-> <<>>, told |-> {},
               stopped |-> [k \in 1..contract.commands |-> None],
               status |-> [id \in {"user", "own"} \X (1..contract.commands) |-> None]]
LogNext == \/ Submit \/ Recorded \/ Unwritten \/ EndCommand \/ Recovery
           \/ RunOut \/ EndPending \/ Complete
           \/ Raise \/ Handle \/ Leave \/ LeaveBadly

------------------------------------------------------------------------------
Frames == SelectSeq(log, LAMBDA e : e.kind = "frame")
Begins(field) == Cardinality({i \in DOMAIN Frames : Frames[i].what[field]
                                                    /\ (i = 1 \/ ~Frames[i - 1].what[field])})
At(kind, id) == {i \in DOMAIN log : log[i].kind = kind /\ log[i].id = id}
CountedFrames ==
  /\ totals.hits = Begins("hit") /\ totals.takeovers = Begins("taken")
  /\ \A k \in DOMAIN totals.stopped :
       LET rests == {i \in At("frame", None) : log[i].what.still /\ \E j \in At("command", Own(k)) : j < i} IN
       totals.stopped[k] = None <=> rests = {}

\* The summary says what the log says: everything counted beside the records could be
\* counted again from them (scenario_evidence.py, "the complete causal chain"), but for
\* one frame, counted and never written, in a run that failed.
SummaryIsOfTheLog ==
  /\ totals.frames - Len(Frames) \in (IF place \in {"raising", "leaving", "left"} /\ verdict # "SUCCEEDED"
                                     THEN {0, 1} ELSE {0})
  /\ totals.frames = Len(Frames) => CountedFrames
  /\ \A id \in DOMAIN totals.status :
       LET at == At("end", id) IN
       IF at = {} THEN totals.status[id] = None
       ELSE \E i \in at : (\A j \in at : j <= i) /\ totals.status[id] = log[i].what

\* A run has one verdict, told by the last record of its log, with two exceptions:
\* a disk that takes nothing more, and a summary that cannot be written, which makes
\* a failure of what was complete.
Finals == {i \in DOMAIN log : log[i].kind \in {"run_complete", "run_failed"}}
OneVerdict ==
  /\ verdict # None => (Finals # {} /\ log[Len(log)] = Entry(log[Len(log)].kind, None, verdict))
  /\ \A i \in Finals : i < Len(log) => (disk # "good" /\ log[i + 1].kind = "run_failed")
  /\ light = "restored" => verdict # None

\* A run that passes was driven to its end without a collision, all its frames or, with all
\* its commands given, those to the end of its route (carla_runner.py, "once its real
\* completion contracts are terminal"); what it was to show of its commands was shown by
\* them, not by those of the runtime's own; the monitor and the recorder tell the same end
\* of each; and no fail-safe of the runtime kept it out of harm, unless it was to show a
\* takeover or a failure of the model ("merely because a watchdog-latched vehicle stayed
\* still and avoided impact", carla_runner.py 2660-2681).
PassIsEarned ==
  verdict = "SUCCEEDED" =>
    /\ \A i \in DOMAIN Frames : ~Frames[i].what.hit
    /\ contract.purpose \in {"drive", "tolerant"} => \A i \in DOMAIN Frames : ~Frames[i].what.sick
    /\ contract.purpose = "takeover" => \E i \in DOMAIN Frames : Frames[i].what.taken
    /\ Len(Frames) # contract.frames =>
         contract.least # None /\ Len(Frames) >= contract.least /\ sent = contract.commands
    /\ contract.least # None => Frames # <<>> /\ Frames[Len(Frames)].what.there
    /\ contract.terminal # None =>
         /\ \E k \in 1..sent : ends[k] = <<Ending(User(k), contract.terminal)>>
         /\ \A k \in 1..sent : totals.status[User(k)] # None => ends[k] = <<Ending(User(k), totals.status[User(k)])>>
EvidenceSound == [](SummaryIsOfTheLog /\ OneVerdict /\ PassIsEarned)
LogSpec == LogInit /\ [][LogNext]_logVars
=============================================================================
