--------------------------- MODULE CommandRuntime ---------------------------
(***************************************************************************)
(* integration/runtime_loop.py, ControlRuntime, with the BehaviorFSM of    *)
(* car_control_A it owns.  Both keep a record of the command in force: the *)
(* FSM its lifecycle (who holds the vehicle, until when, how it ended), the *)
(* runtime what that command asks of the controllers (requested speed,     *)
(* stop hold, confirmation gate).  Every operation of the runtime has to   *)
(* keep the two in step.                                                   *)
(*                                                                         *)
(* A frame is: the world ticks (AdvanceClock), the frame loop delivers     *)
(* commands, confirmations, failures and releases, and step() runs once:   *)
(* lifecycle and watchdog (FrameTick), lateral control (FrameLateral), then *)
(* longitudinal control, D's arbitration and completion (FrameArbitrate).  *)
(* Everything runs on one thread, so each operation is one action; step()  *)
(* is three, because each stage reads inputs of its own.                   *)
(*                                                                         *)
(* Abstracted: a speed is a small number; control output is one fact, that *)
(* the frame's final control may propel the vehicle (drove); a lifetime is *)
(* counted in frames, as what is left of it.                               *)
(***************************************************************************)
EXTENDS Integers, Absent

CONSTANTS
  Command,      \* command ids; an id delivered again carries the same envelope
  Envelope,     \* what the adapter makes of each: [action, gated, plan, target, life]
  Speeds,       \* the speeds told apart, 0 standing
  Default,      \* default_speed_mps
  Timeout,      \* command_timeout_s, in frames
  Redelivers    \* whether a command id may be delivered more than once

Actions == {"SET_SPEED", "STOP", "EMERGENCY_BRAKE", "KEEP_LANE", "MULTIMODAL_DECISION"}

\* A command in force: its id, whether its confirmation gate is shut, what is left of it.
Order == [id : Command, gated : BOOLEAN, left : Nat]

ASSUME SpeedAssumption == Speeds \subseteq Nat /\ 0 \in Speeds /\ Default \in Speeds
ASSUME TimeoutAssumption == Timeout \in Nat \ {0}
ASSUME NoneAssumption == None \notin Command \cup Speeds \cup Order
ASSUME EnvelopeAssumption ==
  Envelope \in [Command -> [action : Actions, gated : BOOLEAN, plan : BOOLEAN,
                            target : Speeds, life : Nat \ {0}]]
ASSUME MultimodalIsGated ==
  \A c \in Command : Envelope[c].action = "MULTIMODAL_DECISION" => Envelope[c].gated
ASSUME RedeliveryAssumption == Redelivers \in BOOLEAN

VARIABLES
  fsm,           \* BehaviorFSM: holders (_active), terminal (_terminal), behaviour (_state)
  active,        \* _active_command (None when _active_command_id is), with its voice envelope
  requested,     \* requested_speed_mps
  stopHold,      \* _stop_hold
  approach,      \* _traffic_stop_approach_speed_mps
  successFrames, \* _success_frames
  latched,       \* _latched_alerts
  pending,       \* _pending_feedback
  reported,      \* feedback that has left the runtime, in a frame result or as a return value
  stage,         \* where the frame is
  alerts,        \* expired_alerts of the frame in progress is not empty
  drove,         \* the last frame's final control may propel the vehicle
  authority      \* the command whose speed is requested, None for the default or zero

commandVars == <<active, approach, successFrames>>
speedVars   == <<requested, authority>>
vars == <<fsm, commandVars, speedVars, stopHold, latched, pending, reported, stage, alerts, drove>>

Ended   == {"SUCCEEDED", "FAILED", "REJECTED", "EXPIRED", "TIMED_OUT", "SAFETY_OVERRIDE"}
Alerts  == {"WATCHDOG", "LATERAL", "INTEGRATION_FAILURE"}
Holder  == [id : Command, left : Nat, age : 0 .. Timeout + 1]
Behaviours == {"IDLE", "LANE_FOLLOW", "APPROACH_STOP", "STOPPED", "CONFIRMING",
               "EMERGENCY_BRAKE", "RECOVERING"}

Fsm == [holders   : SUBSET Holder,
        terminal  : [Command -> Ended \cup {"NONE"}],
        behaviour : Behaviours]

\* Every variable has its type; a success counter that reaches three is reset.
TypeOK ==
  /\ fsm \in Fsm
  /\ active \in Order \cup {None}
  /\ requested \in Speeds
  /\ stopHold \in BOOLEAN
  /\ approach \in Speeds \cup {None}
  /\ successFrames \in 0 .. 2
  /\ latched \in SUBSET Alerts
  /\ pending \in SUBSET (Command \X Ended)
  /\ reported \in SUBSET (Command \X Ended)
  /\ stage \in {"commands", "lateral", "arbitrate", "after"}
  /\ alerts \in BOOLEAN
  /\ drove \in BOOLEAN
  /\ authority \in Command \cup {None}

Init ==
  /\ fsm = [holders |-> {}, terminal |-> [c \in Command |-> "NONE"], behaviour |-> "IDLE"]
  /\ active = None /\ approach = None /\ successFrames = 0
  /\ requested = Default /\ authority = None
  /\ stopHold = FALSE /\ latched = {} /\ pending = {} /\ reported = {}
  /\ stage = "commands" /\ alerts = FALSE /\ drove = FALSE
-----------------------------------------------------------------------------
(* BehaviorFSM.                                                            *)

StateFor(action) ==
  CASE action = "STOP"                        -> "APPROACH_STOP"
    [] action = "EMERGENCY_BRAKE"             -> "EMERGENCY_BRAKE"
    [] action \in {"KEEP_LANE", "SET_SPEED"}  -> "LANE_FOLLOW"
    [] action = "MULTIMODAL_DECISION"         -> "RECOVERING"

Ids(holders) == {h.id : h \in holders}

\* Expiry is inclusive, the execution timeout is not.
Due(h) == IF h.left = 0 THEN "EXPIRED" ELSE IF h.age > Timeout THEN "TIMED_OUT" ELSE "NONE"

\* The status an operation leaves a holder with: authority that has already
\* elapsed wins over what the caller reports.
VerdictMutant(h, status) == status
Verdict(h, status) == IF Due(h) # "NONE" THEN Due(h) ELSE status

\* _finish of the holders in gone, each with its status.
Finish(f, gone, status) ==
  [holders   |-> f.holders \ gone,
   terminal  |-> [c \in Command |-> IF c \in Ids(gone) /\ f.terminal[c] = "NONE"
                                    THEN status[CHOOSE h \in gone : h.id = c]
                                    ELSE f.terminal[c]],
   behaviour |-> IF gone = {} THEN f.behaviour
                 ELSE IF \E h \in gone : status[h] = "SUCCEEDED" THEN "STOPPED"
                 ELSE "RECOVERING"]

\* complete, fail, safety_override, and a declined confirm.
End(f, c, outcome) ==
  LET gone == {h \in f.holders : h.id = c}
  IN  Finish(f, gone, [h \in gone |-> Verdict(h, outcome)])

\* tick.
ExpireMutant(f) ==
  LET gone == {h \in f.holders : Due(h) # "NONE" /\ f.behaviour # "CONFIRMING"}
  IN  Finish(f, gone, [h \in gone |-> Due(h)])
Expire(f) ==
  LET gone == {h \in f.holders : Due(h) # "NONE"}
  IN  Finish(f, gone, [h \in gone |-> Due(h)])

\* submit of a command with no terminal record: it supersedes every other holder.
AdmitMutant(f, c) ==
  [f EXCEPT !.holders = {[id |-> c, left |-> Envelope[c].life, age |-> 0]},
            !.behaviour = StateFor(Envelope[c].action)]
Admit(f, c) ==
  LET g == Finish(f, f.holders, [h \in f.holders |-> "FAILED"])
  IN  IF c \in Ids(f.holders) THEN f
      ELSE [g EXCEPT !.holders = {[id |-> c, left |-> Envelope[c].life, age |-> 0]},
                     !.behaviour = IF Envelope[c].gated THEN "CONFIRMING"
                                   ELSE StateFor(Envelope[c].action)]

Feedback(f, c) == IF f.terminal[c] = "NONE" THEN {} ELSE {<<c, f.terminal[c]>>}
-----------------------------------------------------------------------------
(* The runtime's operations between frames.                                *)

Between == stage \in {"commands", "after"}

\* _clear_active_command.
ClearActive == active' = None /\ approach' = None /\ successFrames' = 0

\* submit_voice of an envelope the adapter accepts.
Replaces(c) == active # None /\ active.id # c

AlreadyEndedMutant(f, c) == f.terminal[c] = "SUCCEEDED"
AlreadyEnded(f, c) == f.terminal[c] # "NONE"

\* The feedback of the command c supersedes, as f left it.
SupersededFeedbackMutant(f, c) == {}
SupersededFeedback(f, c) == IF Replaces(c) THEN Feedback(f, active.id) ELSE {}

\* KEEP_LANE goes on at the speed requested, now in its own name.
Adopt(c) == authority' = (IF requested = 0 THEN None ELSE c) /\ UNCHANGED requested

SubmitVoice(c) ==
  LET old == IF Replaces(c) THEN End(fsm, active.id, "FAILED") ELSE fsm
      e   == Envelope[c]
  IN
  /\ stage = "commands"
  /\ Redelivers \/ (fsm.terminal[c] = "NONE" /\ c \notin Ids(fsm.holders))
  /\ IF AlreadyEnded(old, c)
     THEN /\ fsm' = old
          /\ pending' = pending \cup SupersededFeedback(old, c) \cup Feedback(old, c)
          /\ IF Replaces(c) THEN ClearActive ELSE UNCHANGED commandVars
          /\ UNCHANGED <<speedVars, stopHold>>
     ELSE /\ fsm' = Admit(old, c)
          /\ pending' = pending \cup SupersededFeedback(old, c)
          /\ active' = [id |-> c, gated |-> e.gated, left |-> e.life]
          /\ successFrames' = 0
          /\ approach' = IF e.action = "STOP" /\ e.plan THEN requested ELSE None
          /\ \/ /\ e.action = "SET_SPEED" /\ ~e.gated
                /\ requested' = e.target /\ authority' = c /\ stopHold' = FALSE
             \/ /\ e.action = "KEEP_LANE" /\ ~e.gated
                /\ stopHold' = FALSE /\ Adopt(c)
             \/ /\ e.action \in {"STOP", "EMERGENCY_BRAKE"}
                /\ requested' = 0 /\ authority' = None /\ UNCHANGED stopHold
             \/ /\ e.gated /\ e.action \in {"SET_SPEED", "KEEP_LANE", "MULTIMODAL_DECISION"}
                /\ UNCHANGED <<speedVars, stopHold>>
  /\ UNCHANGED <<latched, reported, stage, alerts, drove>>

\* submit_voice of an envelope the adapter rejects: feedback for the audit, nothing else,
\* even when it carries the id of the command in force (ids delivered once are well formed).
SubmitRejected(c) ==
  /\ stage = "commands" /\ Redelivers
  /\ pending' = pending \cup {<<c, "REJECTED">>}
  /\ UNCHANGED <<fsm, commandVars, speedVars, stopHold, latched, reported, stage, alerts, drove>>

\* The vehicle is told to stand and stay standing.
Stand == requested' = 0 /\ authority' = None /\ stopHold' = TRUE

\* confirm_voice.
ConfirmVoice(c, approved) ==
  LET holder == {h \in fsm.holders : h.id = c}
      ends   == \E h \in holder : Due(h) # "NONE" \/ ~approved
      after  == IF ends THEN End(fsm, c, "REJECTED") ELSE fsm
      mine   == active # None /\ active.id = c
      e      == Envelope[c]
  IN
  /\ stage = "commands"
  /\ IF after.terminal[c] # "NONE"
     THEN /\ fsm' = after
          /\ pending' = pending \cup Feedback(after, c)
          /\ reported' = reported \cup Feedback(after, c)
          /\ IF mine THEN ClearActive /\ Stand
                     ELSE UNCHANGED <<commandVars, speedVars, stopHold>>
     ELSE LET confirmed == IF holder = {} THEN fsm
                           ELSE [fsm EXCEPT !.behaviour = StateFor(e.action)]
              failed    == End(confirmed, c, "FAILED")
          IN  IF mine /\ e.action = "MULTIMODAL_DECISION"
              THEN /\ fsm' = failed
                   /\ pending' = pending \cup Feedback(failed, c)
                   /\ reported' = reported \cup Feedback(failed, c)
                   /\ ClearActive /\ Stand
              ELSE /\ fsm' = confirmed
                   /\ IF mine THEN active' = [active EXCEPT !.gated = FALSE] ELSE UNCHANGED active
                   /\ \/ /\ mine /\ e.action = "SET_SPEED"
                         /\ requested' = e.target /\ authority' = c /\ stopHold' = FALSE
                      \/ /\ mine /\ e.action = "KEEP_LANE"
                         /\ stopHold' = FALSE /\ Adopt(c)
                      \/ /\ mine /\ e.action \in {"STOP", "EMERGENCY_BRAKE"}
                         /\ requested' = 0 /\ authority' = None /\ UNCHANGED stopHold
                      \/ ~mine /\ UNCHANGED <<speedVars, stopHold>>
                   /\ UNCHANGED <<approach, successFrames, pending, reported>>
  /\ UNCHANGED <<latched, stage, alerts, drove>>

\* fail_active; resume # None is the bounded speed of a caller-owned hold.
FailActive(resume) ==
  /\ Between /\ active # None
  /\ fsm' = End(fsm, active.id, "FAILED")
  /\ reported' = reported \cup Feedback(fsm', active.id)
  /\ authority' = None
  /\ requested' = IF resume = None THEN 0 ELSE resume
  /\ stopHold' = (resume = None \/ resume = 0)
  /\ ClearActive
  /\ UNCHANGED <<latched, pending, stage, alerts, drove>>

\* complete_active: the outer maneuver contract succeeded.  The frame loop calls it
\* after step() with the timestamp of that step.
CompleteActive ==
  /\ stage = "after" /\ active # None
  /\ fsm' = End(fsm, active.id, "SUCCEEDED")
  /\ reported' = reported \cup Feedback(fsm', active.id)
  /\ ClearActive
  /\ UNCHANGED <<speedVars, stopHold, latched, pending, stage, alerts, drove>>

\* reset_safety_latch, clear_safety_alerts, clear_safety_alert_prefix.
ClearAlerts(recovered) ==
  /\ Between /\ recovered # {} /\ recovered \subseteq latched
  /\ latched' = latched \ recovered
  /\ UNCHANGED <<fsm, commandVars, speedVars, stopHold, pending, reported, stage, alerts, drove>>

\* release_scenario_stop_hold.
ReleaseBlockedMutant == ~stopHold
ReleaseBlocked == active # None \/ latched # {} \/ ~stopHold

ReleaseStopHold(speed) ==
  /\ stage = "commands" /\ speed > 0
  /\ ~ReleaseBlocked
  /\ requested' = speed /\ authority' = None /\ stopHold' = FALSE
  /\ UNCHANGED <<fsm, commandVars, latched, pending, reported, stage, alerts, drove>>

\* The world ticks: every lifetime shortens by a frame.
AdvanceClock ==
  /\ stage = "after" /\ stage' = "commands"
  /\ fsm' = [fsm EXCEPT !.holders =
               {[h EXCEPT !.left = IF h.left = 0 THEN 0 ELSE h.left - 1,
                          !.age = IF h.age > Timeout THEN h.age ELSE h.age + 1] : h \in @}]
  /\ active' = IF active = None THEN None
               ELSE [active EXCEPT !.left = IF @ = 0 THEN 0 ELSE @ - 1]
  /\ UNCHANGED <<approach, successFrames, speedVars, stopHold, latched, pending, reported,
                 alerts, drove>>
-----------------------------------------------------------------------------
(* step().                                                                 *)

\* A command that tick finished without the watchdog ending it too.
LapsedMutant(f) == active # None /\ f.terminal[active.id] = "TIMED_OUT"
Lapsed(f) == active # None /\ active.id \in Ids(fsm.holders) \ Ids(f.holders)

OverrideFeedback(f) == Feedback(f, active.id)

\* expired_alerts before lateral control runs.
FrameAlertsMutant(watch, lapsed) == watch # {} \/ lapsed
FrameAlerts(watch, lapsed) == latched \cup watch # {} \/ lapsed

\* No stale command keeps propulsion.
CutsMutant(watch, lapsed) == watch # {}
Cuts(watch, lapsed) == watch # {} \/ lapsed

FrameTick(watch) ==
  LET ticked   == Expire(fsm)
      finished == UNION {Feedback(ticked, c) : c \in Ids(fsm.holders) \ Ids(ticked.holders)}
      seized   == watch # {} /\ active # None
      lapsed   == watch = {} /\ Lapsed(ticked)
  IN
  /\ stage = "commands" /\ stage' = "lateral"
  /\ latched' = latched \cup watch
  /\ fsm' = IF seized THEN End(ticked, active.id, "SAFETY_OVERRIDE") ELSE ticked
  /\ reported' = reported \cup pending \cup finished
                   \cup (IF seized THEN OverrideFeedback(fsm') ELSE {})
  /\ pending' = {}
  /\ alerts' = FrameAlerts(watch, lapsed)
  /\ IF Cuts(watch, lapsed) THEN requested' = 0 /\ authority' = None ELSE UNCHANGED speedVars
  /\ IF seized \/ lapsed THEN ClearActive ELSE UNCHANGED commandVars
  /\ UNCHANGED <<stopHold, drove>>

\* The command in force fails where it stands: no stop hold.
FailInFrame ==
  /\ requested' = 0 /\ authority' = None
  /\ IF active = None THEN UNCHANGED <<fsm, commandVars, reported>>
     ELSE /\ fsm' = End(fsm, active.id, "FAILED")
          /\ reported' = reported \cup Feedback(fsm', active.id)
          /\ ClearActive

\* lateral.step_any, whose status may not be OK.
FrameLateral ==
  /\ stage = "lateral" /\ stage' = "arbitrate"
  /\ \/ UNCHANGED <<fsm, commandVars, speedVars, latched, reported, alerts>>
     \/ /\ latched' = latched \cup {"LATERAL"} /\ alerts' = TRUE
        /\ FailInFrame
  /\ UNCHANGED <<stopHold, pending, drove>>

\* Any exception of lateral, longitudinal or safety control.
FrameFails ==
  /\ stage \in {"lateral", "arbitrate"} /\ stage' = "after"
  /\ latched' = latched \cup {"INTEGRATION_FAILURE"}
  /\ FailInFrame
  /\ drove' = FALSE
  /\ UNCHANGED <<stopHold, pending, alerts>>

InForce == IF active = None THEN "NO_OP" ELSE Envelope[active.id].action
Unconfirmed == active # None /\ active.gated

\* _traffic_stop_approach_active, given a stop line or a lead ahead (near).
Approaching(near) == near /\ approach # None /\ InForce = "STOP"

Holds(v, near) ==
  stopHold \/ (InForce \in {"STOP", "EMERGENCY_BRAKE"} /\ v = 0 /\ ~Approaching(near))

\* D is given the voice command unless C owns its deceleration.
Spoken == InForce = "EMERGENCY_BRAKE" /\ ~Unconfirmed

\* D's priority chain, by the kind of its first reason that applies: an invalid input,
\* a watchdog alert, a collision or red light run, the spoken emergency stop, an
\* obstacle or time to collision, and the guards that only slow the vehicle.
Overridden(hazard) == hazard # "none" \/ alerts \/ Spoken
TerminalReason(hazard) ==
  \/ hazard = "invalid"
  \/ ~alerts /\ hazard = "collision"
  \/ ~alerts /\ ~Spoken /\ hazard = "obstacle"

\* _completion_feedback.
Enough(frames) == frames >= 3

Counted(v) ==
  CASE InForce = "SET_SPEED" -> IF v = Envelope[active.id].target THEN successFrames + 1 ELSE 0
    [] InForce = "KEEP_LANE" -> successFrames + 1
    [] OTHER                 -> successFrames

Completed(v, near) ==
  \/ InForce \in {"SET_SPEED", "KEEP_LANE"} /\ Enough(Counted(v))
  \/ InForce \in {"STOP", "EMERGENCY_BRAKE"} /\ v = 0 /\ ~Approaching(near)

\* Longitudinal control, D's arbitration, and the command's end if it has come.  The
\* speed cap only lowers what C may ask for, and is left out of drove.
FrameArbitrate(v, near, hazard, semantic) ==
  LET audit     == IF Unconfirmed /\ active.left = 0 THEN {<<active.id, "EXPIRED">>} ELSE {}
      effective == IF Approaching(near) THEN (IF v > approach THEN v ELSE approach) ELSE requested
      override  == Overridden(hazard) \/ semantic
      owned     == active # None /\ (TerminalReason(hazard) \/ semantic)
      completed == ~owned /\ Completed(v, near)
  IN
  /\ stage = "arbitrate" /\ stage' = "after"
  /\ drove' = (~override /\ ~Holds(v, near) /\ ~Unconfirmed /\ effective > 0)
  /\ fsm' = IF owned THEN End(fsm, active.id, "SAFETY_OVERRIDE")
            ELSE IF completed THEN End(fsm, active.id, "SUCCEEDED") ELSE fsm
  /\ reported' = reported \cup audit
                   \cup (IF owned \/ completed THEN Feedback(fsm', active.id) ELSE {})
  /\ IF owned THEN Stand
     ELSE /\ stopHold' = (stopHold \/ (completed /\ InForce \in {"STOP", "EMERGENCY_BRAKE"}))
          /\ UNCHANGED speedVars
  /\ IF owned \/ completed THEN ClearActive
     ELSE /\ successFrames' = IF Approaching(near) THEN successFrames ELSE Counted(v)
          /\ UNCHANGED <<active, approach>>
  /\ UNCHANGED <<latched, pending, alerts>>

Hazards == {"none", "invalid", "collision", "obstacle", "guard"}

Frame ==
  \/ \E watch \in {{}, {"WATCHDOG"}} : FrameTick(watch)
  \/ FrameLateral
  \/ FrameFails
  \/ \E v \in Speeds, near, semantic \in BOOLEAN, hazard \in Hazards :
        FrameArbitrate(v, near, hazard, semantic)

Callers ==
  \/ \E c \in Command : SubmitVoice(c) \/ SubmitRejected(c)
  \/ \E c \in Command, approved \in BOOLEAN : ConfirmVoice(c, approved)
  \/ \E resume \in Speeds \cup {None} : FailActive(resume)
  \/ CompleteActive
  \/ \E recovered \in SUBSET Alerts : ClearAlerts(recovered)
  \/ \E speed \in Speeds : ReleaseStopHold(speed)

Next == Frame \/ AdvanceClock \/ Callers

Spec == Init /\ [][Next]_vars

\* The frame loop runs a frame after every tick of the world.
LiveSpec == Spec /\ WF_vars(Frame) /\ WF_vars(AdvanceClock)
-----------------------------------------------------------------------------
(* Properties.                                                             *)

\* The FSM and the runtime name the same owner: what one of them ends, supersedes or
\* admits in any operation or stage of a frame, the other does too.
OneOwner == Ids(fsm.holders) = IF active = None THEN {} ELSE {active.id}

\* A command that has ended never holds the vehicle again, however often it is delivered.
EndedNeverReturns == \A c \in Ids(fsm.holders) : fsm.terminal[c] = "NONE"

\* Every end of a command is told: it has been reported, or waits for the next frame.
EndsAreTold ==
  \A c \in Command : fsm.terminal[c] # "NONE" =>
     <<c, fsm.terminal[c]>> \in pending \cup reported

\* Whatever is told of a command is how it ended: no path reports a second end of its own
\* (the adapter's audit rejections, told of commands that were never admitted, aside).
ReportsAgree ==
  \A r \in pending \cup reported : r[2] \in {fsm.terminal[r[1]], "REJECTED"}

\* Every end of a command is reported, and as what it was: by whichever of the FSM, the
\* runtime, the override and the end of the frame ended it.
EndsAreReported == EndsAreTold /\ ReportsAgree

\* While the stop hold is on, or a stop is in force, no speed is requested: no
\* acceptance, release, failure or confirmation leaves one behind.
StopMeansZero == stopHold \/ InForce \in {"STOP", "EMERGENCY_BRAKE"} => requested = 0

\* A latched alert brakes every frame until it is cleared explicitly: healthy frames and
\* new commands do not release it (README: a healthy frame does not unlock).
LatchBrakes == stage = "after" /\ drove => latched = {}

\* The FSM is confirming exactly while the runtime's gate is shut.
ConfirmingIsGated == active # None => (fsm.behaviour = "CONFIRMING" <=> active.gated)

\* "No stale voice command may retain propulsion authority after a terminal
\* failure/expiry" (the comment in step()): no frame propels the vehicle, with nothing in
\* force, at the speed of a command that ended in any way but success.
NoStalePropulsion ==
  stage = "after" /\ drove /\ active = None /\ authority # None
    => fsm.terminal[authority] = "SUCCEEDED"

\* submit_voice of a command that displaces the one in force before it is known whether
\* it may set a speed itself: its id has ended already, or it waits for confirmation.
DisplacedWithoutASpeed ==
  \E c \in Command : SubmitVoice(c) /\ (fsm.terminal[c] # "NONE" \/ Envelope[c].gated)

\* What does hold of that comment: expiry, timeout, watchdog, lateral fault, exception,
\* override, failure, a declined confirmation and a newer command each take the speed
\* away with the command it belongs to, unless that succeeded; the one gap is
\* DisplacedWithoutASpeed.
SpeedGoesWithItsCommand ==
  [][active # None /\ authority = active.id /\ (active' = None \/ active'.id # active.id)
       => \/ authority' # authority
          \/ fsm'.terminal[authority] = "SUCCEEDED"
          \/ DisplacedWithoutASpeed]_vars

\* Elapsed authority wins over every other verdict, whichever operation finds it first.
ElapsedWins ==
  [][\A h \in fsm.holders : Due(h) # "NONE" => fsm'.terminal[h.id] \in {"NONE", Due(h)}]_vars

\* No frame executes a command to success while its confirmation gate is shut: CONFIRMING
\* decelerates to a stop, and the command is executed once an approval opens the gate.
NoUnconfirmedSuccess ==
  [][stage = "arbitrate" /\ Unconfirmed => fsm'.terminal[active.id] # "SUCCEEDED"]_vars

\* Every command that takes the vehicle gives it up: by expiry at the latest.
CommandEnds == \A c \in Command : c \in Ids(fsm.holders) ~> fsm.terminal[c] # "NONE"
=============================================================================
