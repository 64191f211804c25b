--------------------------- MODULE FrameLoopProofs ---------------------------
(***************************************************************************)
(* Theorems about FrameLoop, for every set of driving commands, whatever   *)
(* plans they compile to.                                                  *)
(*                                                                         *)
(* The runtime inside the loop takes its own steps, and one more: the loop *)
(* sets its requested speed.  Both keep the ownership invariant Owner of   *)
(* CommandRuntimeProofs.  What the maneuver FSM does to the answers it     *)
(* owes is stated once (UpdateFacts).  From these follows LoopInv, one     *)
(* action at a time.                                                       *)
(***************************************************************************)
EXTENDS FrameLoop, CommandRuntimeProofs

Statuses == Terminal \cup {"SUPERSEDED", "REJECTED"}

\* A command nobody has yet been told the end of.
Owed(d) == slow[d] \in {"new", "pending"} \/ d = dispatched \/ (Running /\ plan = d)

\* A plan waits to be started only between the poll that returned it and the step of the
\* same frame, and it is the plan of the latest command; a step begins only in a plan that
\* runs.
FrameOrder ==
  /\ dispatched # NoPlan => stage = "commands" /\ turn = "polled" /\ dispatched = latest
  /\ observed = "started" => Running

\* LatestOwns, with its precondition.
LatestInv == active # None => latest \in Driving /\ LatestOwns

\* The commands without a plan are the new and the pending ones; a plan that is dispatched
\* is not the one that runs; and until the run is over a command is owed its end exactly
\* until it is told.
Open ==
  \A d \in Driving :
    /\ terminals[d] = <<>> <=> Owed(d)
    /\ d = dispatched => slow[d] = "ready" /\ ~(Running /\ plan = d)
    /\ Running /\ plan = d => slow[d] = "ready"

Told == OneTerminal /\ EveryCommandTold /\ (RunGoesOn => Open)

LoopInv == Owner /\ LoopTypeOK /\ FrameOrder /\ LatestInv /\ Told
-----------------------------------------------------------------------------
(* The maneuver FSM.                                                       *)

\* Announcing an end adds it to one command's.
LEMMA AnnounceFacts ==
  ASSUME terminals \in [Driving -> Seq(Statuses)], NEW d \in Driving, NEW s \in Statuses
  PROVE  /\ Announce(d, s) \in [Driving -> Seq(Statuses)]
         /\ Announce(d, s)[d] # <<>>
         /\ terminals[d] = <<>> => Len(Announce(d, s)[d]) = 1
         /\ \A e \in Driving \ {d} : Announce(d, s)[e] = terminals[e]
<1>1. terminals[d] \in Seq(Statuses)
  OBVIOUS
<1>2. /\ Append(terminals[d], s) \in Seq(Statuses)
      /\ Len(Append(terminals[d], s)) = Len(terminals[d]) + 1
      /\ Len(terminals[d]) \in Nat
  BY <1>1
<1>3. Len(<<>>) = 0
  OBVIOUS
<1>4. Announce(d, s)[d] = Append(terminals[d], s)
  BY DEF Announce
<1>5. Announce(d, s)[d] # <<>> /\ (terminals[d] = <<>> => Len(Announce(d, s)[d]) = 1)
  <2>1. Len(Announce(d, s)[d]) = Len(terminals[d]) + 1
    BY <1>2, <1>4
  <2>2. ASSUME Announce(d, s)[d] = <<>> PROVE FALSE
    <3>1. Len(Announce(d, s)[d]) = 0
      BY <2>2, <1>3
    <3> QED BY <3>1, <2>1, <1>2
  <2>3. terminals[d] = <<>> => Len(terminals[d]) = 0
    BY <1>3
  <2> QED BY <2>1, <2>2, <2>3
<1>6. Announce(d, s) \in [Driving -> Seq(Statuses)]
  BY <1>2 DEF Announce
<1>7. \A e \in Driving \ {d} : Announce(d, s)[e] = terminals[e]
  BY DEF Announce
<1> QED BY <1>5, <1>6, <1>7

LEMMA CurrentType ==
  ASSUME ManeuverTypeOK, Running
  PROVE  plan \in Driving /\ Current \in Steps /\ step \in Nat \ {0}
         /\ Plan[plan] \in Seq(Steps) /\ step \in 1 .. Len(Plan[plan])
BY PlanAssumption DEF ManeuverTypeOK, Running, Current

\* Starting a plan: the plan that was running is told it was superseded.
LEMMA StartFacts ==
  ASSUME ManeuverTypeOK, NEW d \in Driving, Start(d)
  PROVE  /\ ManeuverTypeOK' /\ Running' /\ plan' = d
         /\ terminals' = IF Running THEN Announce(plan, "SUPERSEDED") ELSE terminals
<1>1. Running' /\ plan' = d /\ state' = "EXECUTING" /\ step' = 1
  BY NoPlanAssumption DEF Start, Running, Terminal
<1>2. terminals' = IF Running THEN Announce(plan, "SUPERSEDED") ELSE terminals
  BY DEF Start, Superseded
<1>3. terminals' \in [Driving -> Seq(Statuses)]
  <2>1. CASE Running
    BY <1>2, <2>1, CurrentType, AnnounceFacts DEF ManeuverTypeOK, Statuses
  <2>2. CASE ~Running
    BY <1>2, <2>2 DEF ManeuverTypeOK, Statuses
  <2> QED BY <2>1, <2>2
<1>4. step' \in DOMAIN Plan[d]
  <2>1. Plan[d] \in Seq(Steps) /\ Plan[d] # <<>>
    BY PlanAssumption
  <2>2. Len(Plan[d]) \in Nat \ {0} /\ DOMAIN Plan[d] = 1 .. Len(Plan[d])
    BY <2>1
  <2> QED BY <1>1, <2>2
<1>5. replans' \in 0 .. MaxReplans /\ sinceReplan' \in 0 .. Cooldown
  BY ReplanAssumption DEF Start
<1>6. /\ safe' = "none" /\ elapsed' = 0 /\ entered' = FALSE /\ heldFrames' = 0
      /\ step' \in Nat \ {0}
  BY <1>1 DEF Start
<1>7. terminals' \in [Driving -> Seq(Terminal \cup {"SUPERSEDED", "REJECTED"})]
  BY <1>3 DEF Statuses
<1>8. plan' \in Driving \cup {NoPlan} /\ (Running' => step' \in DOMAIN Plan[plan'])
  BY <1>1, <1>4
<1> QED BY <1>1, <1>2, <1>5, <1>6, <1>7, <1>8 DEF ManeuverTypeOK

\* What a frame shown to the FSM can do: the plan goes on, or it ends and says so.
PlanGoesOn == terminals' = terminals /\ state' \notin Terminal
PlanEnds(s) == terminals' = Announce(plan, s) /\ state' = s

Ends == \E s \in Terminal : PlanEnds(s)

LEMMA PlanEndsFacts ==
  ASSUME NEW s \in Terminal, NEW b, FinishPlan(s, b)
  PROVE  PlanEnds(s) /\ safe' = b
BY DEF FinishPlan, PlanEnds

SafeBehaviours == {"none", "STOP", "SLOW_DOWN", "KEEP_LANE", "EMERGENCY_STOP"}
Working == Terminal \cup {"IDLE", "EXECUTING", "WAIT_TRAFFIC_SIGNAL", "REPLAN_PENDING"}

LEMMA ReplanFacts ==
  ASSUME ManeuverTypeOK, Running, RequestReplan
  PROVE  /\ PlanGoesOn \/ Ends
         /\ safe' \in SafeBehaviours /\ state' \in Working
         /\ replans' \in 0 .. MaxReplans /\ sinceReplan' \in 0 .. Cooldown
<1>1. state \notin Terminal /\ state \in Working
      /\ replans \in 0 .. MaxReplans /\ sinceReplan \in 0 .. Cooldown
  BY DEF Running, ManeuverTypeOK, Working
<1>2. CASE CoolingDown
  BY <1>1, <1>2 DEF RequestReplan, PlanGoesOn, SafeBehaviours
<1>3. CASE ~CoolingDown /\ ~ReplansLeft
  <2>1. "FAILED" \in Terminal
    BY DEF Terminal
  <2>2. Fail /\ UNCHANGED <<replans, sinceReplan>>
    BY <1>3 DEF RequestReplan
  <2>3. PlanEnds("FAILED") /\ safe' = "STOP"
    BY <2>1, <2>2, PlanEndsFacts DEF Fail
  <2> QED BY <1>1, <2>1, <2>2, <2>3 DEF Ends, PlanEnds, SafeBehaviours, Working
<1>4. CASE ~CoolingDown /\ ReplansLeft
  <2>1. /\ replans' = replans + 1 /\ sinceReplan' = 0 /\ replans < MaxReplans
        /\ state' = "REPLAN_PENDING" /\ safe' = "SLOW_DOWN" /\ terminals' = terminals
    BY <1>4 DEF RequestReplan, ReplansLeft
  <2>2. replans' \in 0 .. MaxReplans /\ sinceReplan' \in 0 .. Cooldown
    BY <1>1, <2>1, ReplanAssumption
  <2> QED BY <2>1, <2>2 DEF PlanGoesOn, SafeBehaviours, Working, Terminal
<1> QED BY <1>2, <1>3, <1>4

LEMMA StepFailureFacts ==
  ASSUME ManeuverTypeOK, Running, StepFailure
  PROVE  /\ PlanGoesOn \/ Ends
         /\ safe' \in SafeBehaviours /\ state' \in Working
         /\ replans' \in 0 .. MaxReplans /\ sinceReplan' \in 0 .. Cooldown
<1>1. Current.onFailure \in Policies
  BY CurrentType DEF Steps
<1>2. replans \in 0 .. MaxReplans /\ sinceReplan \in 0 .. Cooldown
  BY DEF ManeuverTypeOK
<1>3. CASE Current.onFailure = "REPLAN"
  BY <1>3, ReplanFacts DEF StepFailure
<1>4. CASE Current.onFailure # "REPLAN"
  <2>1. UNCHANGED <<replans, sinceReplan>>
        /\ \E s \in {"FAILED", "CONFIRMING"}, b \in {"STOP", "KEEP_LANE"} : FinishPlan(s, b)
    BY <1>1, <1>4 DEF StepFailure, Policies, Fail
  <2>2. PICK s \in {"FAILED", "CONFIRMING"}, b \in {"STOP", "KEEP_LANE"} : FinishPlan(s, b)
    BY <2>1
  <2>3. s \in Terminal /\ PlanEnds(s) /\ safe' = b
    BY <2>2, PlanEndsFacts DEF Terminal
  <2> QED BY <1>2, <2>1, <2>3 DEF Ends, PlanEnds, SafeBehaviours, Working
<1> QED BY <1>3, <1>4

\* A frame shown to the FSM keeps its types and either leaves the plan running, with
\* nothing told, or ends it and tells its one end.
LEMMA UpdateFacts ==
  ASSUME ManeuverTypeOK, NEW emergency \in Emergencies, NEW met \in BOOLEAN, NEW done \in BOOLEAN,
         Update(emergency, FALSE, met, done)
  PROVE  /\ ManeuverTypeOK' /\ plan' = plan /\ Running
         /\ PlanGoesOn \/ Ends
<1> DEFINE Kept == /\ plan' = plan /\ step' = step /\ elapsed' \in Nat /\ heldFrames' \in Nat
                   /\ entered' \in BOOLEAN
<1> DEFINE Outcome == /\ PlanGoesOn \/ Ends
                      /\ safe' \in SafeBehaviours /\ state' \in Working
                      /\ replans' \in 0 .. MaxReplans /\ sinceReplan' \in 0 .. Cooldown
<1>1. Running /\ plan \in Driving
  BY CurrentType DEF Update
<1>2. /\ state \notin Terminal /\ state \in Working /\ safe \in SafeBehaviours
      /\ replans \in 0 .. MaxReplans /\ sinceReplan \in 0 .. Cooldown
      /\ elapsed \in Nat /\ heldFrames \in Nat /\ entered \in BOOLEAN
      /\ step \in Nat \ {0} /\ step \in DOMAIN Plan[plan]
      /\ terminals \in [Driving -> Seq(Statuses)]
  BY <1>1 DEF Running, ManeuverTypeOK, Working, SafeBehaviours, Statuses
<1>3. ASSUME Outcome, plan' = plan
      PROVE  terminals' \in [Driving -> Seq(Statuses)]
  <2>1. CASE PlanGoesOn
    BY <1>2, <2>1 DEF PlanGoesOn
  <2>2. CASE Ends
    <3>1. PICK s \in Terminal : PlanEnds(s)
      BY <2>2 DEF Ends
    <3> QED BY <1>1, <1>2, <3>1, AnnounceFacts DEF PlanEnds, Statuses
  <2> QED BY <1>3, <2>1, <2>2
<1>4. ASSUME Kept, Outcome
      PROVE  ManeuverTypeOK'
  <2>1. terminals' \in [Driving -> Seq(Statuses)]
    BY <1>3, <1>4
  <2> QED BY <1>1, <1>2, <1>4, <2>1 DEF ManeuverTypeOK, Working, SafeBehaviours, Statuses
<1>5. CASE PauseAtRedLight
  <2>1. Kept
    BY <1>2, <1>5 DEF PauseAtRedLight
  <2>2. PlanGoesOn /\ safe' \in SafeBehaviours /\ state' \in Working
        /\ UNCHANGED <<replans, sinceReplan>>
    BY <1>5 DEF PauseAtRedLight, PlanGoesOn, SafeBehaviours, Working, Terminal
  <2> QED BY <1>1, <1>2, <1>4, <2>1, <2>2
<1>6. CASE EndureEmergency
  <2>1. Kept
    BY <1>2, <1>6 DEF EndureEmergency
  <2>2. CASE Overrun
    <3>1. StepFailure
      BY <1>6, <2>2 DEF EndureEmergency
    <3> QED BY <1>1, <1>4, <2>1, <3>1, StepFailureFacts
  <2>3. CASE ~Overrun
    <3>1. safe' = "EMERGENCY_STOP" /\ UNCHANGED <<state, replans, sinceReplan, terminals>>
      BY <1>6, <2>3 DEF EndureEmergency
    <3> QED BY <1>1, <1>2, <1>4, <2>1, <3>1 DEF PlanGoesOn, SafeBehaviours
  <2> QED BY <2>2, <2>3
<1>7. CASE PreemptedByEmergency
  <2>1. Kept /\ UNCHANGED <<replans, sinceReplan>>
    BY <1>2, <1>7 DEF PreemptedByEmergency
  <2>2. "SAFETY_OVERRIDE" \in Terminal
    BY DEF Terminal
  <2>3. PlanEnds("SAFETY_OVERRIDE") /\ safe' = "EMERGENCY_STOP"
    BY <1>7, <2>2, PlanEndsFacts DEF PreemptedByEmergency
  <2>4. Ends /\ safe' \in SafeBehaviours /\ state' \in Working
    BY <2>2, <2>3 DEF Ends, PlanEnds, SafeBehaviours, Working
  <2> QED BY <1>1, <1>2, <1>4, <2>1, <2>4
<1>8. CASE ReplanOrFail(FALSE)
  <2>1. Kept
    BY <1>2, <1>8 DEF ReplanOrFail
  <2>2. StepFailure
    BY <1>8 DEF ReplanOrFail
  <2> QED BY <1>1, <1>4, <2>1, <2>2, StepFailureFacts
<1>9. CASE AwaitPreconditions(met)
  <2>1. Kept
    BY <1>2, <1>9 DEF AwaitPreconditions
  <2>2. PlanGoesOn /\ safe' \in SafeBehaviours /\ state' \in Working
        /\ UNCHANGED <<replans, sinceReplan>>
    BY <1>9 DEF AwaitPreconditions, PlanGoesOn, SafeBehaviours, Working, Terminal
  <2> QED BY <1>1, <1>2, <1>4, <2>1, <2>2
<1>10. CASE HoldCompletion(met, done)
  <2>1. Kept
    BY <1>2, <1>10 DEF HoldCompletion
  <2>2. PlanGoesOn /\ safe' \in SafeBehaviours /\ state' \in Working
        /\ UNCHANGED <<replans, sinceReplan>>
    BY <1>10 DEF HoldCompletion, PlanGoesOn, SafeBehaviours, Working, Terminal
  <2> QED BY <1>1, <1>2, <1>4, <2>1, <2>2
<1>11. CASE CompleteStep(met, done)
  <2>1. /\ plan' = plan /\ step' = step + 1 /\ heldFrames' = 0 /\ elapsed' = 0
        /\ entered' = InheritsGate /\ UNCHANGED <<replans, sinceReplan>>
    BY <1>11 DEF CompleteStep
  <2>2. InheritsGate \in BOOLEAN
    BY DEF InheritsGate
  <2>3. Plan[plan] \in Seq(Steps) /\ Len(Plan[plan]) \in Nat
        /\ DOMAIN Plan[plan] = 1 .. Len(Plan[plan])
    BY <1>1, CurrentType DEF ManeuverTypeOK
  <2>4. CASE step < Len(Plan[plan])
    <3>1. PlanGoesOn /\ safe' = "none" /\ state' = "EXECUTING"
      BY <1>11, <2>4 DEF CompleteStep, PlanGoesOn, Terminal
    <3>2. step' \in Nat \ {0} /\ step' \in DOMAIN Plan[plan']
      BY <1>2, <2>1, <2>3, <2>4
    <3>3. Outcome
      BY <1>2, <2>1, <3>1 DEF SafeBehaviours, Working
    <3>4. terminals' \in [Driving -> Seq(Statuses)]
      BY <1>3, <2>1, <3>3
    <3> QED BY <1>1, <2>1, <2>2, <3>1, <3>2, <3>3, <3>4
         DEF ManeuverTypeOK, Working, SafeBehaviours, Statuses
  <2>5. CASE ~(step < Len(Plan[plan]))
    <3>1. "SUCCEEDED" \in Terminal
      BY DEF Terminal
    <3>2. PlanEnds("SUCCEEDED") /\ safe' = "none"
      BY <1>11, <2>5, <3>1, PlanEndsFacts DEF CompleteStep
    <3>3. ~Running' /\ Ends /\ state' \in Working
      BY <3>1, <3>2 DEF PlanEnds, Running, Ends, Working
    <3>4. step' \in Nat \ {0}
      BY <1>2, <2>1
    <3>5. Outcome
      BY <1>2, <2>1, <3>2, <3>3 DEF SafeBehaviours
    <3>6. terminals' \in [Driving -> Seq(Statuses)]
      BY <1>3, <2>1, <3>5
    <3> QED BY <1>1, <2>1, <2>2, <3>3, <3>4, <3>5, <3>6
         DEF ManeuverTypeOK, Working, SafeBehaviours, Statuses
  <2> QED BY <2>4, <2>5
<1> QED
  BY <1>5, <1>6, <1>7, <1>8, <1>9, <1>10, <1>11 DEF Update
-----------------------------------------------------------------------------
(* The runtime inside the loop.                                            *)

\* The loop sets the requested speed from outside, and may clear alerts.
SpeedSet ==
  /\ requested' \in Speeds /\ authority' \in Command \cup {None}
  /\ latched' \in SUBSET latched
  /\ UNCHANGED <<fsm, commandVars, stopHold, pending, reported, stage, alerts, drove>>

LEMMA SpeedSetOwner == ASSUME Owner, SpeedSet PROVE Owner'
<1>1. TypeOK'
  BY DEF Owner, TypeOK, SpeedSet, commandVars
<1> QED BY <1>1, KeepsOwner DEF SpeedSet, commandVars

LEMMA RequestSpeedFacts ==
  ASSUME Owner, NEW speed \in Speeds \cup {None}, plan' \in Driving, RequestStepSpeed(speed)
  PROVE  SpeedSet
<1>1. /\ requested \in Speeds /\ authority \in Command \cup {None}
      /\ StepOf[plan'] \in Command
  BY BridgeIds DEF Owner, TypeOK
<1> QED BY <1>1 DEF RequestStepSpeed, SpeedSet, speedVars

LEMMA StepSpeedType ==
  ASSUME NEW d \in Driving, NEW i \in DOMAIN Plan[d]
  PROVE  StepSpeed[d][i] \in Speeds \cup {None}
BY StepSpeedAssumption

\* A command in force keeps its id until it goes.
KeepsCommand == active' # None => active # None /\ active'.id = active.id

\* What the loop does to the runtime never puts a command in force, but for the bridge's
\* two submissions.
LEMMA FailKeeps == ASSUME FailActive(None) PROVE active' = None /\ stage' = stage
BY DEF FailActive, ClearActive

LEMMA CompleteKeeps == ASSUME CompleteActive PROVE active' = None /\ stage' = stage
BY DEF CompleteActive, ClearActive

LEMMA ClockKeeps == ASSUME Owner, AdvanceClock PROVE KeepsCommand
<1>1. active # None => active \in Order
  BY DEF Owner, TypeOK
<1>2. CASE active = None
  BY <1>2 DEF AdvanceClock, KeepsCommand
<1>3. CASE active # None
  <2>1. active' = [active EXCEPT !.left = IF @ = 0 THEN 0 ELSE @ - 1]
    BY <1>3 DEF AdvanceClock
  <2> QED BY <1>1, <1>3, <2>1 DEF KeepsCommand, Order
<1> QED BY <1>2, <1>3

LEMMA SubmitTakes ==
  ASSUME NEW c \in Command, SubmitVoice(c)
  PROVE  (active' # None => active'.id = c) /\ stage' = stage /\ stage = "commands"
<1> DEFINE old == IF Replaces(c) THEN End(fsm, active.id, "FAILED") ELSE fsm
<1>1. CASE AlreadyEnded(old, c)
  <2>1. IF Replaces(c) THEN ClearActive ELSE UNCHANGED commandVars
    BY <1>1 DEF SubmitVoice
  <2> QED BY <2>1 DEF SubmitVoice, ClearActive, commandVars, Replaces
<1>2. CASE ~AlreadyEnded(old, c)
  <2>1. active' = [id |-> c, gated |-> Envelope[c].gated, left |-> Envelope[c].life]
    BY <1>2 DEF SubmitVoice
  <2> QED BY <2>1 DEF SubmitVoice
<1> QED BY <1>1, <1>2

LEMMA FrameKeeps == ASSUME Frame PROVE KeepsCommand
<1>1. ASSUME NEW watch, FrameTick(watch) PROVE KeepsCommand
  BY <1>1 DEF FrameTick, ClearActive, commandVars, KeepsCommand
<1>2. ASSUME FailInFrame PROVE KeepsCommand
  BY <1>2 DEF FailInFrame, ClearActive, commandVars, KeepsCommand
<1>3. CASE FrameLateral
  BY <1>2, <1>3 DEF FrameLateral, commandVars, KeepsCommand
<1>4. CASE FrameFails
  BY <1>2, <1>4 DEF FrameFails
<1>5. ASSUME NEW v, NEW near, NEW hazard, NEW semantic, FrameArbitrate(v, near, hazard, semantic)
      PROVE  KeepsCommand
  BY <1>5 DEF FrameArbitrate, ClearActive, KeepsCommand
<1> QED BY <1>1, <1>3, <1>4, <1>5 DEF Frame

\* A step of the loop is a step of the runtime, or sets its speed.
RuntimeStep == [Next]_vars \/ SpeedSet

LEMMA RuntimeOwner == ASSUME Owner, RuntimeStep PROVE Owner'
BY OwnerStep, SpeedSetOwner DEF RuntimeStep

LEMMA FailIsStep == ASSUME FailActive(None) PROVE RuntimeStep
BY DEF RuntimeStep, Next, Callers

LEMMA SubmitIsStep == ASSUME NEW c \in Command, SubmitVoice(c) PROVE RuntimeStep
BY DEF RuntimeStep, Next, Callers

LEMMA StepRuntimeIsFrame == ASSUME StepRuntime PROVE Frame
BY DEF StepRuntime, Frame
-----------------------------------------------------------------------------
(* Who is owed an end.                                                     *)

LoopStatus == {"new", "refused", "pending", "ready", "failed"}

LEMMA InvFacts ==
  ASSUME LoopInv, RunGoesOn
  PROVE  /\ slow \in [Driving -> LoopStatus] /\ terminals \in [Driving -> Seq(Statuses)]
         /\ OneTerminal /\ Open /\ Owner
         /\ NoPlan \notin Driving /\ (Running => plan \in Driving)
<1>1. Slow!TypeOK /\ ManeuverTypeOK
  BY DEF LoopInv, LoopTypeOK
<1>2. slow \in [Driving -> LoopStatus]
  BY <1>1 DEF Slow!TypeOK, LoopStatus
<1>3. Running => plan \in Driving
  BY <1>1, CurrentType
<1> QED BY <1>1, <1>2, <1>3, NoPlanAssumption DEF LoopInv, Told, ManeuverTypeOK, Statuses

LEMMA SlowType ==
  ASSUME slow' \in [Driving -> LoopStatus]
  PROVE  Slow!TypeOK'
BY DEF Slow!TypeOK, LoopStatus, RunGoesOn

\* Telling nobody anything, when nobody's debt changes.
LEMMA TellNobody ==
  ASSUME LoopInv, RunGoesOn, terminals' = terminals, \A e \in Driving : Owed(e)' <=> Owed(e)
  PROVE  /\ terminals' \in [Driving -> Seq(Statuses)]
         /\ OneTerminal' /\ \A e \in Driving : terminals'[e] = <<>> <=> Owed(e)'
BY InvFacts DEF Open, OneTerminal

\* Telling one command that was owed its end and is not any more.
LEMMA TellOne ==
  ASSUME LoopInv, RunGoesOn, NEW d \in Driving, NEW s \in Statuses,
         terminals' = Announce(d, s), Owed(d), ~Owed(d)',
         \A e \in Driving \ {d} : Owed(e)' <=> Owed(e)
  PROVE  /\ terminals' \in [Driving -> Seq(Statuses)]
         /\ OneTerminal' /\ \A e \in Driving : terminals'[e] = <<>> <=> Owed(e)'
<1>1. terminals \in [Driving -> Seq(Statuses)] /\ OneTerminal /\ terminals[d] = <<>>
  BY InvFacts DEF Open
<1>2. /\ terminals' \in [Driving -> Seq(Statuses)]
      /\ terminals'[d] # <<>> /\ Len(terminals'[d]) = 1
      /\ \A e \in Driving \ {d} : terminals'[e] = terminals[e]
  BY <1>1, AnnounceFacts
<1>3. OneTerminal'
  <2>1. ASSUME NEW e \in Driving PROVE Len(terminals'[e]) <= 1
    <3>1. CASE e = d
      <4>1. Len(terminals'[e]) = 1
        BY <1>2, <3>1
      <4> QED BY <4>1
    <3>2. CASE e # d
      BY <1>1, <1>2, <3>2 DEF OneTerminal
    <3> QED BY <3>1, <3>2
  <2> QED BY <2>1 DEF OneTerminal
<1>4. ASSUME NEW e \in Driving PROVE terminals'[e] = <<>> <=> Owed(e)'
  BY <1>2, InvFacts DEF Open
<1> QED BY <1>2, <1>3, <1>4

\* While the run goes on nobody has been told of its end.
LEMMA GoingOn == ASSUME RunGoesOn, over' = over PROVE EveryCommandTold' /\ RunGoesOn'
BY DEF RunGoesOn, EveryCommandTold
-----------------------------------------------------------------------------
(* LoopInv, action by action.                                              *)

LEMMA LoopInitInv == ASSUME LoopInit PROVE LoopInv
<1>1. Owner
  BY InitOwner DEF LoopInit
<1>2. /\ slow = [d \in Driving |-> "new"] /\ RunGoesOn
      /\ terminals = [d \in Driving |-> <<>>]
      /\ dispatched = NoPlan /\ latest = NoPlan /\ active = None /\ ~Running
      /\ observed = "nothing" /\ infeasible = FALSE /\ turn = "ticked" /\ raised = "no"
  BY DEF LoopInit, Slow!Init, ManeuverInit, Init, Running, RunGoesOn
<1>3. Slow!TypeOK
  BY <1>2 DEF Slow!TypeOK
<1>4. terminals \in [Driving -> Seq(Terminal \cup {"SUPERSEDED", "REJECTED"})]
  BY <1>2
<1>5. ManeuverTypeOK
  <2>1. /\ plan = NoPlan /\ state = "IDLE" /\ step = 1 /\ elapsed = 0 /\ entered = FALSE
        /\ heldFrames = 0 /\ replans = 0 /\ sinceReplan = Cooldown /\ safe = "none"
    BY DEF LoopInit, ManeuverInit
  <2>2. replans \in 0 .. MaxReplans /\ sinceReplan \in 0 .. Cooldown
    BY <2>1, ReplanAssumption
  <2>3. step \in Nat \ {0} /\ elapsed \in Nat /\ heldFrames \in Nat
    BY <2>1
  <2> QED BY <1>2, <1>4, <2>1, <2>2, <2>3 DEF ManeuverTypeOK
<1>6. LoopTypeOK
  BY <1>1, <1>2, <1>3, <1>5 DEF LoopTypeOK, Owner, RunGoesOn
<1>7. FrameOrder /\ LatestInv
  BY <1>2 DEF FrameOrder, LatestInv
<1>8. Len(<<>>) = 0
  OBVIOUS
<1>9. Told
  BY <1>2, <1>8, NoPlanAssumption DEF Told, OneTerminal, EveryCommandTold, Open, Owed, RunGoesOn
<1> QED BY <1>1, <1>6, <1>7, <1>9 DEF LoopInv

LEMMA SubmitInv == ASSUME LoopInv, NEW d \in Driving, Submit(d) PROVE LoopInv'
<1>1. /\ RunGoesOn /\ over' = over /\ latest' = d /\ turn # "polled"
      /\ turn' = "submitted" /\ raised' = "no"
      /\ UNCHANGED <<planVars, dispatched, infeasible, observed>>
      /\ SubmitVoice(WaitOf[d]) /\ WaitOf[d] \in Command
  BY BridgeIds DEF Submit
<1>2. Owner' /\ TypeOK'
  BY <1>1, SubmitIsStep, RuntimeOwner, InvFacts DEF Owner
<1>3. slow[d] = "new"
      /\ \/ slow' = [slow EXCEPT ![d] = "pending"] /\ terminals' = terminals
         \/ slow' = [slow EXCEPT ![d] = "refused"] /\ terminals' = Announce(d, "REJECTED")
  BY DEF Submit, Slow!Accept, Slow!Refuse
<1>4. /\ slow \in [Driving -> LoopStatus] /\ Open
      /\ d # dispatched /\ ~(Running /\ plan = d)
  BY <1>1, <1>3, InvFacts DEF Open
<1>5. Running' = Running /\ plan' = plan /\ dispatched' = dispatched
  BY <1>1 DEF planVars, Running
<1>6. /\ slow' \in [Driving -> LoopStatus]
      /\ \A e \in Driving \ {d} : slow'[e] = slow[e]
  BY <1>3, <1>4 DEF LoopStatus
<1>7. \A e \in Driving \ {d} : Owed(e)' <=> Owed(e)
  BY <1>5, <1>6 DEF Owed
<1>8. /\ terminals' \in [Driving -> Seq(Statuses)] /\ OneTerminal'
      /\ \A e \in Driving : terminals'[e] = <<>> <=> Owed(e)'
  <2>1. CASE slow' = [slow EXCEPT ![d] = "pending"] /\ terminals' = terminals
    <3>1. Owed(d)' /\ Owed(d)
      BY <1>3, <1>4, <2>1 DEF Owed
    <3> QED BY <1>1, <1>7, <2>1, <3>1, TellNobody
  <2>2. CASE slow' = [slow EXCEPT ![d] = "refused"] /\ terminals' = Announce(d, "REJECTED")
    <3>1. ~Owed(d)' /\ Owed(d)
      BY <1>3, <1>4, <1>5, <2>2 DEF Owed
    <3>2. "REJECTED" \in Statuses
      BY DEF Statuses
    <3> QED BY <1>1, <1>7, <2>2, <3>1, <3>2, TellOne
  <2> QED BY <1>3, <2>1, <2>2
<1>9. Open'
  BY <1>4, <1>5, <1>6, <1>8 DEF Open
<1>10. ManeuverTypeOK'
  BY <1>1, <1>8 DEF LoopInv, LoopTypeOK, ManeuverTypeOK, planVars, Statuses, Running
<1>11. LoopTypeOK'
  BY <1>1, <1>2, <1>6, <1>10, SlowType DEF LoopInv, LoopTypeOK
<1>12. FrameOrder'
  BY <1>1, <1>5 DEF LoopInv, FrameOrder
<1>13. LatestInv'
  BY <1>1, SubmitTakes DEF LatestInv, LatestOwns
<1>14. Told'
  BY <1>1, <1>8, <1>9, GoingOn DEF Told
<1> QED BY <1>2, <1>11, <1>12, <1>13, <1>14 DEF LoopInv

LEMMA StepRuntimeInv == ASSUME LoopInv, StepRuntime PROVE LoopInv'
<1>1. /\ RunGoesOn /\ dispatched = NoPlan /\ over' = over
      /\ UNCHANGED <<maneuverVars, slow, latest, turn, dispatched, raised>>
  BY DEF StepRuntime, bridgeVars
<1>2. Frame
  BY StepRuntimeIsFrame
<1>3. Owner' /\ TypeOK'
  BY <1>1, <1>2, RuntimeOwner, InvFacts DEF RuntimeStep, Next, Owner
<1>4. infeasible' \in BOOLEAN /\ (observed' = observed \/ observed' \in Emergencies \cup {"nothing"})
  BY DEF StepRuntime, Observations, Emergencies, LoopInv, LoopTypeOK
<1>5. Running' = Running /\ plan' = plan /\ terminals' = terminals
  BY <1>1 DEF maneuverVars, planVars, Running
<1>6. \A e \in Driving : Owed(e)' <=> Owed(e)
  BY <1>1, <1>5 DEF Owed
<1>7. /\ terminals' \in [Driving -> Seq(Statuses)] /\ OneTerminal'
      /\ \A e \in Driving : terminals'[e] = <<>> <=> Owed(e)'
  BY <1>1, <1>5, <1>6, TellNobody
<1>8. Open'
  BY <1>1, <1>5, <1>7, InvFacts DEF Open
<1>9. ManeuverTypeOK'
  BY <1>1, <1>5 DEF LoopInv, LoopTypeOK, ManeuverTypeOK, maneuverVars, planVars
<1>10. slow' \in [Driving -> LoopStatus]
  BY <1>1, InvFacts
<1>11. LoopTypeOK'
  BY <1>1, <1>3, <1>4, <1>9, <1>10, SlowType DEF LoopInv, LoopTypeOK
<1>12. "started" \notin Emergencies \cup {"nothing"}
  BY DEF Emergencies
<1>13. FrameOrder'
  BY <1>1, <1>4, <1>5, <1>12 DEF LoopInv, FrameOrder
<1>14. LatestInv'
  BY <1>1, <1>2, FrameKeeps DEF LoopInv, LatestInv, LatestOwns, KeepsCommand
<1>15. Told'
  BY <1>1, <1>7, <1>8, GoingOn DEF Told
<1> QED BY <1>3, <1>11, <1>13, <1>14, <1>15 DEF LoopInv

\* _fail_wait_if_current ends the wait of the latest command and nothing else.
LEMMA FailWaitFacts ==
  ASSUME Owner, NEW d \in Driving, FailWait(d)
  PROVE  Owner' /\ (active' = active \/ active' = None) /\ stage' = stage
<1>1. CASE d = latest /\ active # None /\ active.id = WaitOf[d]
  BY <1>1, FailIsStep, FailKeeps, RuntimeOwner DEF FailWait
<1>2. CASE ~(d = latest /\ active # None /\ active.id = WaitOf[d])
  BY <1>2, StutterOwner DEF FailWait, vars, commandVars
<1> QED BY <1>1, <1>2

LEMMA ResolveInv == ASSUME LoopInv, NEW d \in Driving, Resolve(d) PROVE LoopInv'
<1>1. /\ RunGoesOn /\ over' = over /\ stage = "commands" /\ turn' = "polled"
      /\ UNCHANGED <<planVars, latest, infeasible, observed, raised>>
  BY DEF Resolve
<1>2. /\ Owner /\ Open /\ slow \in [Driving -> LoopStatus] /\ NoPlan \notin Driving
      /\ terminals \in [Driving -> Seq(Statuses)]
  BY <1>1, InvFacts
<1>3. /\ slow[d] = "pending"
      /\ slow' \in [Driving -> LoopStatus]
      /\ slow'[d] \in {"ready", "failed"}
      /\ \A e \in Driving \ {d} : slow'[e] = slow[e]
  BY <1>2 DEF Resolve, Slow!Reply, LoopStatus
<1>4. Owed(d) /\ d # dispatched /\ ~(Running /\ plan = d)
  BY <1>2, <1>3 DEF Owed, Open
<1>5. Running' = Running /\ plan' = plan
  BY <1>1 DEF planVars, Running
<1>6. CASE dispatched' = dispatched /\ terminals' = Announce(d, "REJECTED")
           /\ Owner' /\ (active' = active \/ active' = None) /\ stage' = stage
  <2>1. ~Owed(d)'
    BY <1>3, <1>4, <1>5, <1>6 DEF Owed
  <2>2. \A e \in Driving \ {d} : Owed(e)' <=> Owed(e)
    BY <1>3, <1>5, <1>6 DEF Owed
  <2>3. "REJECTED" \in Statuses
    BY DEF Statuses
  <2>4. /\ terminals' \in [Driving -> Seq(Statuses)] /\ OneTerminal'
        /\ \A e \in Driving : terminals'[e] = <<>> <=> Owed(e)'
    BY <1>1, <1>4, <1>6, <2>1, <2>2, <2>3, TellOne
  <2>5. Open'
    BY <1>2, <1>3, <1>4, <1>5, <1>6, <2>4 DEF Open
  <2>6. ManeuverTypeOK'
    BY <1>1, <2>4 DEF LoopInv, LoopTypeOK, ManeuverTypeOK, planVars, Statuses, Running
  <2>7. LoopTypeOK'
    BY <1>1, <1>3, <1>6, <2>6, SlowType DEF LoopInv, LoopTypeOK, Owner
  <2>8. FrameOrder' /\ LatestInv'
    BY <1>1, <1>5, <1>6 DEF LoopInv, FrameOrder, LatestInv, LatestOwns
  <2> QED BY <1>1, <1>6, <2>4, <2>5, <2>7, <2>8, GoingOn DEF LoopInv, Told
<1>7. CASE d = latest /\ slow'[d] = "ready" /\ Dispatch(d)
  <2>1. /\ SubmitVoice(StepOf[d]) /\ StepOf[d] \in Command
        /\ dispatched' = d /\ terminals' = terminals
    BY <1>7, BridgeIds DEF Dispatch
  <2>2. Owner' /\ stage' = stage /\ (active' # None => active'.id = StepOf[d])
    BY <1>2, <2>1, SubmitIsStep, SubmitTakes, RuntimeOwner
  <2>3. dispatched \notin Driving
    <3>1. dispatched = NoPlan \/ dispatched = latest
      BY DEF LoopInv, FrameOrder
    <3> QED BY <1>2, <1>4, <1>7, <3>1
  <2>4. \A e \in Driving : Owed(e)' <=> Owed(e)
    <3>1. Owed(d)'
      BY <2>1 DEF Owed
    <3> QED BY <1>3, <1>4, <1>5, <2>1, <2>3, <3>1 DEF Owed
  <2>5. /\ terminals' \in [Driving -> Seq(Statuses)] /\ OneTerminal'
        /\ \A e \in Driving : terminals'[e] = <<>> <=> Owed(e)'
    BY <1>1, <2>1, <2>4, TellNobody
  <2>6. Open'
    BY <1>2, <1>3, <1>4, <1>5, <1>7, <2>1, <2>5 DEF Open
  <2>7. ManeuverTypeOK'
    BY <1>1, <2>5 DEF LoopInv, LoopTypeOK, ManeuverTypeOK, planVars, Statuses, Running
  <2>8. LoopTypeOK'
    BY <1>1, <1>3, <2>1, <2>2, <2>7, SlowType DEF LoopInv, LoopTypeOK, Owner
  <2>9. FrameOrder' /\ LatestInv'
    BY <1>1, <1>5, <1>7, <2>1, <2>2 DEF LoopInv, FrameOrder, LatestInv, LatestOwns
  <2> QED BY <1>1, <2>2, <2>5, <2>6, <2>8, <2>9, GoingOn DEF LoopInv, Told
<1>8. CASE Reject(d)
  BY <1>2, <1>6, <1>8, FailWaitFacts DEF Reject
<1>9. CASE Slow!Reply(d, "ready") /\ ~IsLatest(d)
           /\ terminals' = Announce(d, "REJECTED") /\ UNCHANGED <<vars, dispatched>>
  BY <1>2, <1>6, <1>9, StutterOwner DEF vars, commandVars
<1>10. CASE Slow!Reply(d, "ready") /\ IsLatest(d) /\ Dispatch(d)
  BY <1>2, <1>7, <1>10 DEF IsLatest, Slow!Reply
<1> QED BY <1>8, <1>9, <1>10 DEF Resolve

LEMMA StartPlanInv == ASSUME LoopInv, NEW d \in Driving, StartPlan(d) PROVE LoopInv'
<1>1. /\ RunGoesOn /\ over' = over /\ dispatched = d /\ dispatched' = NoPlan /\ Start(d)
      /\ UNCHANGED <<slow, latest, turn, observed>> /\ raised' \in {raised, "step"}
  BY DEF StartPlan, RequestStepSpeed
<1>2. /\ Owner /\ Open /\ slow \in [Driving -> LoopStatus] /\ NoPlan \notin Driving
      /\ (Running => plan \in Driving)
  BY <1>1, InvFacts
<1>3. /\ ManeuverTypeOK' /\ Running' /\ plan' = d
      /\ terminals' = IF Running THEN Announce(plan, "SUPERSEDED") ELSE terminals
  BY <1>1, StartFacts DEF LoopInv, LoopTypeOK
<1>4. StepSpeed[d][1] \in Speeds \cup {None}
  <2>1. Plan[d] \in Seq(Steps) /\ Plan[d] # <<>>
    BY PlanAssumption
  <2>2. 1 \in DOMAIN Plan[d]
    BY <2>1
  <2> QED BY <2>2, StepSpeedType
<1>5. /\ Owner' /\ UNCHANGED <<active, stage>> /\ infeasible' \in BOOLEAN
  <2>1. CASE RequestStepSpeed(StepSpeed[d][1]) /\ UNCHANGED infeasible
    <3>1. SpeedSet
      BY <1>2, <1>3, <1>4, <2>1, RequestSpeedFacts
    <3> QED BY <1>2, <2>1, <3>1, SpeedSetOwner DEF SpeedSet, commandVars, LoopInv, LoopTypeOK
  <2>2. CASE infeasible' = TRUE /\ UNCHANGED vars
    BY <1>2, <2>2, StutterOwner DEF vars, commandVars
  <2> QED BY <2>1, <2>2 DEF StartPlan
<1>6. slow[d] = "ready" /\ ~(Running /\ plan = d)
  BY <1>1, <1>2 DEF Open
<1>7. /\ terminals' \in [Driving -> Seq(Statuses)] /\ OneTerminal'
      /\ \A e \in Driving : terminals'[e] = <<>> <=> Owed(e)'
  <2>1. CASE Running
    <3>1. PICK p \in Driving : p = plan
      BY <1>2, <2>1
    <3>2. slow[p] = "ready" /\ p # d
      BY <1>2, <1>6, <2>1, <3>1 DEF Open
    <3>3. Owed(p)
      BY <2>1, <3>1 DEF Owed
    <3>4. ~Owed(p)'
      BY <1>1, <1>2, <1>3, <3>2 DEF Owed
    <3>5. \A e \in Driving \ {p} : Owed(e)' <=> Owed(e)
      BY <1>1, <1>2, <1>3, <3>1, <3>2 DEF Owed
    <3>6. "SUPERSEDED" \in Statuses /\ terminals' = Announce(p, "SUPERSEDED")
      BY <1>3, <2>1, <3>1 DEF Statuses
    <3> QED BY <1>1, <3>3, <3>4, <3>5, <3>6, TellOne
  <2>2. CASE ~Running
    <3>1. \A e \in Driving : Owed(e)' <=> Owed(e)
      BY <1>1, <1>2, <1>3, <2>2 DEF Owed
    <3> QED BY <1>1, <1>3, <2>2, <3>1, TellNobody
  <2> QED BY <2>1, <2>2
<1>8. Open'
  BY <1>1, <1>2, <1>3, <1>6, <1>7 DEF Open
<1>9. LoopTypeOK'
  <2>1. slow' \in [Driving -> LoopStatus]
    BY <1>1, <1>2
  <2> QED BY <1>1, <1>3, <1>5, <2>1, SlowType DEF LoopInv, LoopTypeOK, Owner
<1>10. FrameOrder' /\ LatestInv'
  BY <1>1, <1>3, <1>5 DEF LoopInv, FrameOrder, LatestInv, LatestOwns
<1> QED BY <1>1, <1>5, <1>7, <1>8, <1>9, <1>10, GoingOn DEF LoopInv, Told

\* The plan goes on, and so nobody is told; or it ends, and its command is told.
LEMMA PlanToldOnce ==
  ASSUME LoopInv, RunGoesOn, Running, plan' = plan, UNCHANGED <<slow, dispatched>>,
         PlanGoesOn \/ Ends
  PROVE  /\ terminals' \in [Driving -> Seq(Statuses)] /\ OneTerminal' /\ Open'
<1>1. /\ Open /\ slow \in [Driving -> LoopStatus]
      /\ plan \in Driving /\ NoPlan \notin Driving
  BY InvFacts
<1>2. ASSUME Running' => Running, \A e \in Driving : terminals'[e] = <<>> <=> Owed(e)'
      PROVE  Open'
  BY <1>1, <1>2 DEF Open
<1>3. CASE PlanGoesOn
  <2>1. Running'
    BY <1>1, <1>3 DEF PlanGoesOn, Running
  <2>2. \A e \in Driving : Owed(e)' <=> Owed(e)
    BY <2>1 DEF Owed
  <2>3. terminals' = terminals
    BY <1>3 DEF PlanGoesOn
  <2> QED BY <1>2, <2>2, <2>3, TellNobody
<1>4. CASE Ends
  <2>1. PICK s \in Terminal : PlanEnds(s)
    BY <1>4 DEF Ends
  <2>2. PICK p \in Driving : p = plan
    BY <1>1
  <2>3. ~Running' /\ s \in Statuses /\ terminals' = Announce(p, s)
    BY <2>1, <2>2 DEF PlanEnds, Running, Statuses
  <2>4. slow[p] = "ready" /\ p # dispatched
    BY <1>1, <2>2 DEF Open
  <2>5. Owed(p)
    BY <2>2 DEF Owed
  <2>6. ~Owed(p)'
    BY <2>3, <2>4 DEF Owed
  <2>7. \A e \in Driving \ {p} : Owed(e)' <=> Owed(e)
    BY <2>2, <2>3 DEF Owed
  <2> QED BY <1>2, <2>3, <2>5, <2>6, <2>7, TellOne
<1> QED BY <1>3, <1>4

LEMMA ShowManeuverInv == ASSUME LoopInv, ShowManeuver PROVE LoopInv'
<1>1. /\ RunGoesOn /\ over' = over /\ stage = "after" /\ observed \in Emergencies
      /\ observed' = (IF step' # step /\ Running' THEN "started" ELSE "nothing")
      /\ UNCHANGED <<slow, latest, turn, dispatched, infeasible, raised>>
  BY DEF ShowManeuver, bridgeVars
<1>2. PICK met \in BOOLEAN, done \in BOOLEAN : Update(observed, FALSE, met, done)
  BY DEF ShowManeuver
<1>3. ManeuverTypeOK' /\ plan' = plan /\ Running /\ (PlanGoesOn \/ Ends)
  BY <1>1, <1>2, UpdateFacts DEF LoopInv, LoopTypeOK
<1>4. Owner' /\ stage' = stage /\ (active' = active \/ active' = None)
  <2>1. CASE CompleteActive
    <3>1. RuntimeStep
      BY <2>1 DEF RuntimeStep, Next, Callers
    <3> QED BY <2>1, <3>1, CompleteKeeps, RuntimeOwner DEF LoopInv
  <2>2. CASE UNCHANGED vars
    BY <2>2, StutterOwner DEF vars, commandVars, LoopInv
  <2> QED BY <2>1, <2>2 DEF ShowManeuver
<1>5. OneTerminal' /\ Open'
  BY <1>1, <1>3, PlanToldOnce
<1>6. slow' \in [Driving -> LoopStatus]
  BY <1>1, InvFacts
<1>7. LoopTypeOK'
  BY <1>1, <1>3, <1>4, <1>6, SlowType DEF LoopInv, LoopTypeOK, Owner
<1>8. FrameOrder' /\ LatestInv'
  BY <1>1, <1>4 DEF LoopInv, FrameOrder, LatestInv, LatestOwns
<1> QED BY <1>1, <1>4, <1>5, <1>7, <1>8, GoingOn DEF LoopInv, Told

LEMMA EnterStepInv == ASSUME LoopInv, EnterStep PROVE LoopInv'
<1>1. /\ RunGoesOn /\ over' = over /\ observed = "started" /\ observed' = "nothing"
      /\ UNCHANGED <<slow, latest, turn, dispatched, infeasible>> /\ raised' \in {raised, "step"}
      /\ RequestStepSpeed(StepSpeed[plan][step])
  BY DEF EnterStep, RequestStepSpeed, bridgeVars
<1>2. ManeuverTypeOK /\ Running
  BY <1>1 DEF LoopInv, LoopTypeOK, FrameOrder
<1>3. /\ plan \in Driving /\ step \in DOMAIN Plan[plan]
      /\ terminals \in [Driving -> Seq(Statuses)] /\ state \notin Terminal
  BY <1>2, CurrentType DEF ManeuverTypeOK, Running, Statuses
<1>4. /\ plan' = plan
      /\ UNCHANGED <<step, elapsed, entered, heldFrames, replans, sinceReplan>>
      /\ \/ PlanGoesOn /\ UNCHANGED <<state, safe>>
         \/ PlanEnds("FAILED") /\ safe' = "STOP"
  <2>1. CASE UNCHANGED maneuverVars
    <3>1. UNCHANGED <<plan, state, step, elapsed, entered, heldFrames, replans, sinceReplan, safe,
                      terminals>>
      BY <2>1 DEF maneuverVars, planVars
    <3>2. PlanGoesOn
      BY <1>3, <3>1 DEF PlanGoesOn
    <3> QED BY <3>1, <3>2
  <2>2. CASE Fail /\ UNCHANGED <<plan, step, elapsed, entered, heldFrames, replans, sinceReplan>>
    <3>1. "FAILED" \in Terminal /\ FinishPlan("FAILED", "STOP")
      BY <2>2 DEF Fail, Terminal
    <3>2. PlanEnds("FAILED") /\ safe' = "STOP"
      BY <3>1, PlanEndsFacts
    <3> QED BY <2>2, <3>2
  <2> QED BY <2>1, <2>2 DEF EnterStep
<1>5. PlanGoesOn \/ Ends
  BY <1>4 DEF Ends, Terminal
<1>6. /\ terminals' \in [Driving -> Seq(Statuses)] /\ OneTerminal' /\ Open'
  BY <1>1, <1>2, <1>4, <1>5, PlanToldOnce
<1>7. /\ state' \in Working /\ safe' \in SafeBehaviours
  BY <1>2, <1>4 DEF ManeuverTypeOK, PlanEnds, Working, SafeBehaviours, Terminal
<1>8. ManeuverTypeOK'
  BY <1>2, <1>3, <1>4, <1>6, <1>7 DEF ManeuverTypeOK, Working, SafeBehaviours, Statuses
<1>9. SpeedSet
  BY <1>1, <1>3, <1>4, StepSpeedType, RequestSpeedFacts DEF LoopInv
<1>10. Owner' /\ UNCHANGED <<active, stage>>
  BY <1>9, SpeedSetOwner DEF SpeedSet, commandVars, LoopInv
<1>11. slow' \in [Driving -> LoopStatus]
  BY <1>1, InvFacts
<1>12. LoopTypeOK'
  BY <1>1, <1>8, <1>10, <1>11, SlowType DEF LoopInv, LoopTypeOK, Owner
<1>13. FrameOrder' /\ LatestInv'
  BY <1>1, <1>10 DEF LoopInv, FrameOrder, LatestInv, LatestOwns
<1> QED BY <1>1, <1>6, <1>10, <1>12, <1>13, GoingOn DEF LoopInv, Told

LEMMA AdvanceWorldInv == ASSUME LoopInv, AdvanceWorld PROVE LoopInv'
<1>1. /\ RunGoesOn /\ over' = over /\ stage = "after" /\ observed = "nothing" /\ turn' = "ticked"
      /\ UNCHANGED <<slow, latest, dispatched, infeasible, observed, raised>>
      /\ AdvanceClock /\ Tick
  BY DEF AdvanceWorld, FrameDone
<1>2. RuntimeStep
  BY <1>1 DEF RuntimeStep, Next
<1>3. Owner' /\ KeepsCommand
  BY <1>1, <1>2, ClockKeeps, RuntimeOwner DEF LoopInv
<1>4. /\ UNCHANGED <<plan, state, step, entered, heldFrames, replans, safe, terminals>>
      /\ Running' = Running
  BY <1>1 DEF Tick, Running
<1>5. /\ elapsed' \in Nat /\ sinceReplan' \in 0 .. Cooldown
  <2>1. elapsed \in Nat /\ sinceReplan \in 0 .. Cooldown
    BY DEF LoopInv, LoopTypeOK, ManeuverTypeOK
  <2> QED BY <1>1, <2>1, ReplanAssumption DEF Tick, CoolingDown
<1>6. \A e \in Driving : Owed(e)' <=> Owed(e)
  BY <1>1, <1>4 DEF Owed
<1>7. /\ terminals' \in [Driving -> Seq(Statuses)] /\ OneTerminal'
      /\ \A e \in Driving : terminals'[e] = <<>> <=> Owed(e)'
  BY <1>1, <1>4, <1>6, TellNobody
<1>8. Open'
  BY <1>1, <1>4, <1>7, InvFacts DEF Open
<1>9. ManeuverTypeOK'
  BY <1>4, <1>5 DEF LoopInv, LoopTypeOK, ManeuverTypeOK
<1>10. slow' \in [Driving -> LoopStatus]
  BY <1>1, InvFacts
<1>11. LoopTypeOK'
  BY <1>1, <1>3, <1>9, <1>10, SlowType DEF LoopInv, LoopTypeOK, Owner
<1>12. FrameOrder' /\ LatestInv'
  BY <1>1, <1>3, <1>4 DEF LoopInv, FrameOrder, LatestInv, LatestOwns, KeepsCommand
<1> QED BY <1>1, <1>3, <1>7, <1>8, <1>11, <1>12, GoingOn DEF LoopInv, Told

\* What the loop does before the commands leaves commands, plans and answers as they are.
EarlyStep == RecoverRoute \/ GiveUpRoute \/ ReleaseForScenario \/ FinishRoute

LEMMA EarlyFacts ==
  ASSUME Owner, EarlyStep
  PROVE  /\ RunGoesOn /\ stage = "commands"
         /\ turn # "polled" /\ turn' \in {"recovered", "released", "finished"}
         /\ raised' \in {raised, "recovery", "release"}
         /\ UNCHANGED <<maneuverVars, slow, latest, dispatched, infeasible, observed, over>>
         /\ UNCHANGED <<active, stage>> /\ Owner'
<1>1. /\ RunGoesOn /\ stage = "commands"
      /\ turn # "polled" /\ turn' \in {"recovered", "released", "finished"}
      /\ raised' \in {raised, "recovery", "release"}
      /\ UNCHANGED <<maneuverVars, slow, latest, dispatched, infeasible, observed, over>>
  BY DEF EarlyStep, RecoverRoute, GiveUpRoute, ReleaseForScenario, FinishRoute, Early
<1>2. 0 \in Speeds /\ requested \in Speeds /\ latched \in SUBSET Alerts
  BY SpeedAssumption DEF Owner, TypeOK
<1>3. CASE RecoverRoute \/ GiveUpRoute \/ FinishRoute
  <2>1. SpeedSet
    BY <1>2, <1>3 DEF RecoverRoute, GiveUpRoute, FinishRoute, Ask, SpeedSet
  <2> QED BY <1>1, <2>1, SpeedSetOwner DEF SpeedSet, commandVars
<1>4. CASE ReleaseForScenario
  <2>1. PICK speed \in Speeds : ReleaseStopHold(speed)
    BY <1>4 DEF ReleaseForScenario
  <2> QED BY <1>1, <2>1, ReleaseStopHoldOwner DEF ReleaseStopHold, commandVars
<1> QED BY <1>3, <1>4 DEF EarlyStep

LEMMA EarlyInv == ASSUME LoopInv, EarlyStep PROVE LoopInv'
<1>1. /\ RunGoesOn /\ over' = over /\ stage = "commands"
      /\ turn # "polled" /\ turn' \in {"recovered", "released", "finished"}
      /\ raised' \in {raised, "recovery", "release"}
      /\ UNCHANGED <<maneuverVars, slow, latest, dispatched, infeasible, observed>>
      /\ UNCHANGED <<active, stage>> /\ Owner'
  BY EarlyFacts DEF LoopInv
<1>2. Running' = Running /\ plan' = plan /\ terminals' = terminals
  BY <1>1 DEF maneuverVars, planVars, Running
<1>3. \A e \in Driving : Owed(e)' <=> Owed(e)
  BY <1>1, <1>2 DEF Owed
<1>4. /\ terminals' \in [Driving -> Seq(Statuses)] /\ OneTerminal'
      /\ \A e \in Driving : terminals'[e] = <<>> <=> Owed(e)'
  BY <1>1, <1>2, <1>3, TellNobody
<1>5. Open'
  BY <1>1, <1>2, <1>4, InvFacts DEF Open
<1>6. ManeuverTypeOK'
  BY <1>1, <1>2 DEF LoopInv, LoopTypeOK, ManeuverTypeOK, maneuverVars, planVars
<1>7. slow' \in [Driving -> LoopStatus]
  BY <1>1, InvFacts
<1>8. LoopTypeOK'
  BY <1>1, <1>6, <1>7, SlowType DEF LoopInv, LoopTypeOK, Owner
<1>9. FrameOrder' /\ LatestInv'
  BY <1>1, <1>2 DEF LoopInv, FrameOrder, LatestInv, LatestOwns
<1> QED BY <1>1, <1>4, <1>5, <1>8, <1>9, GoingOn DEF LoopInv, Told

\* Failing the command in force as the run ends.
LEMMA LastFailure ==
  ASSUME Owner, IF active # None THEN FailActive(None) ELSE UNCHANGED vars
  PROVE  Owner' /\ active' = None /\ stage' = stage
<1>1. CASE active # None
  BY <1>1, FailIsStep, FailKeeps, RuntimeOwner
<1>2. CASE active = None
  BY <1>2, StutterOwner DEF vars, commandVars
<1> QED BY <1>1, <1>2

\* The commands the end of the run answers are all that are owed an end.
LEMMA EndRunInv == ASSUME LoopInv, EndRun PROVE LoopInv'
<1>1. /\ RunGoesOn /\ over' = "ended" /\ stage = "after" /\ observed = "nothing"
      /\ slow' = slow
      /\ terminals' = [d \in Driving |->
                         IF d \in Unanswered THEN Append(terminals[d], "FAILED") ELSE terminals[d]]
      /\ state' = (IF Running THEN "FAILED" ELSE state)
      /\ safe' = (IF Running THEN "STOP" ELSE safe)
      /\ UNCHANGED <<plan, step, elapsed, entered, heldFrames, replans, sinceReplan, latest, turn,
                     dispatched, infeasible, observed, raised>>
  BY DEF EndRun, FrameDone, Slow!Close
<1>2. /\ Owner /\ Open /\ OneTerminal /\ slow \in [Driving -> LoopStatus]
      /\ terminals \in [Driving -> Seq(Statuses)] /\ NoPlan \notin Driving
  BY <1>1, InvFacts
<1>3. Owner' /\ active' = None /\ stage' = stage
  BY <1>2, LastFailure DEF EndRun
<1>4. dispatched = NoPlan
  BY <1>1 DEF LoopInv, FrameOrder
<1>5. ASSUME NEW d \in Driving
      PROVE  /\ terminals'[d] \in Seq(Statuses) /\ Len(terminals'[d]) <= 1
             /\ slow[d] # "new" => terminals'[d] # <<>>
  <2>1. terminals[d] \in Seq(Statuses) /\ Len(terminals[d]) <= 1
    BY <1>2 DEF OneTerminal
  <2>2. CASE d \in Unanswered
    <3>1. terminals[d] = <<>>
      BY <1>2, <2>2 DEF Open, Owed, Unanswered
    <3>2. terminals'[d] = Append(<<>>, "FAILED")
      BY <1>1, <2>2, <3>1
    <3>3. "FAILED" \in Statuses
      BY DEF Statuses, Terminal
    <3>4. /\ <<>> \in Seq(Statuses) /\ Len(<<>>) = 0
      OBVIOUS
    <3>5. /\ Append(<<>>, "FAILED") \in Seq(Statuses)
          /\ Len(Append(<<>>, "FAILED")) = 1
      BY <3>3, <3>4
    <3>6. Len(terminals'[d]) = 1
      BY <3>2, <3>5
    <3>7. terminals'[d] # <<>>
      <4>1. ASSUME terminals'[d] = <<>> PROVE FALSE
        <5>1. Len(terminals'[d]) = 0
          BY <3>4, <4>1
        <5> QED BY <3>6, <5>1
      <4> QED BY <4>1
    <3>8. Len(terminals'[d]) <= 1
      BY <3>6
    <3> QED BY <3>2, <3>5, <3>7, <3>8
  <2>3. CASE d \notin Unanswered
    <3>1. terminals'[d] = terminals[d]
      BY <1>1, <2>3
    <3>2. slow[d] # "new" => ~Owed(d)
      BY <1>2, <1>4, <2>3 DEF Owed, Unanswered
    <3> QED BY <1>2, <2>1, <3>1, <3>2 DEF Open
  <2> QED BY <2>2, <2>3
<1>6. /\ terminals' \in [Driving -> Seq(Statuses)] /\ OneTerminal' /\ EveryCommandTold'
  <2>1. terminals' \in [Driving -> Seq(Statuses)]
    BY <1>1, <1>5
  <2> QED BY <1>1, <1>5, <2>1 DEF OneTerminal, EveryCommandTold
<1>7. ~RunGoesOn'
  BY <1>1 DEF RunGoesOn
<1>8. ~Running' /\ state' \in Working /\ safe' \in SafeBehaviours
  BY <1>1 DEF LoopInv, LoopTypeOK, ManeuverTypeOK, Working, SafeBehaviours, Running, Terminal
<1>9. ManeuverTypeOK'
  BY <1>1, <1>6, <1>8 DEF LoopInv, LoopTypeOK, ManeuverTypeOK, Working, SafeBehaviours, Statuses
<1>10. slow' \in [Driving -> LoopStatus]
  BY <1>1, <1>2
<1>11. LoopTypeOK'
  BY <1>1, <1>3, <1>9, <1>10, SlowType DEF LoopInv, LoopTypeOK, Owner
<1>12. FrameOrder' /\ LatestInv'
  BY <1>1, <1>3, <1>4 DEF FrameOrder, LatestInv
<1> QED BY <1>3, <1>6, <1>7, <1>11, <1>12 DEF LoopInv, Told

LEMMA CrashRunInv == ASSUME LoopInv, CrashRun PROVE LoopInv'
<1>1. /\ RunGoesOn /\ over' = "crashed" /\ slow' = slow
      /\ UNCHANGED <<maneuverVars, latest, turn, dispatched, infeasible, observed, raised>>
  BY DEF CrashRun, Slow!Close
<1>2. Owner' /\ active' = None /\ stage' = stage
  BY LastFailure DEF LoopInv, CrashRun
<1>3. ~RunGoesOn' /\ EveryCommandTold' /\ OneTerminal'
  BY <1>1, InvFacts DEF RunGoesOn, EveryCommandTold, OneTerminal, maneuverVars
<1>4. ManeuverTypeOK' /\ (Running' <=> Running)
  BY <1>1 DEF LoopInv, LoopTypeOK, ManeuverTypeOK, maneuverVars, planVars, Running
<1>5. slow' \in [Driving -> LoopStatus]
  BY <1>1, InvFacts
<1>6. LoopTypeOK'
  BY <1>1, <1>2, <1>4, <1>5, SlowType DEF LoopInv, LoopTypeOK, Owner
<1>7. FrameOrder' /\ LatestInv'
  BY <1>1, <1>2, <1>4 DEF LoopInv, FrameOrder, LatestInv
<1> QED BY <1>2, <1>3, <1>6, <1>7 DEF LoopInv, Told

LEMMA LoopStutter == ASSUME LoopInv, UNCHANGED loopVars PROVE LoopInv'
<1>1. UNCHANGED vars /\ UNCHANGED <<maneuverVars, bridgeVars, infeasible, observed, over, raised>>
  BY DEF loopVars
<1>2. /\ Owner' /\ UNCHANGED <<active, stage>>
  BY <1>1, StutterOwner DEF LoopInv, vars, commandVars
<1>3. UNCHANGED <<slow, latest, turn, dispatched, infeasible, observed, over, raised, terminals, plan,
                  state>>
      /\ (Running' <=> Running)
  BY <1>1 DEF maneuverVars, planVars, bridgeVars, Running
<1>4. ManeuverTypeOK'
  BY <1>1, <1>3 DEF LoopInv, LoopTypeOK, ManeuverTypeOK, maneuverVars, planVars
<1>5. Slow!TypeOK'
  BY <1>3 DEF LoopInv, LoopTypeOK, Slow!TypeOK, RunGoesOn
<1>6. LoopTypeOK'
  BY <1>2, <1>3, <1>4, <1>5 DEF LoopInv, LoopTypeOK, Owner
<1>7. FrameOrder' /\ LatestInv'
  BY <1>2, <1>3 DEF LoopInv, FrameOrder, LatestInv, LatestOwns
<1>8. Told'
  BY <1>3 DEF LoopInv, Told, OneTerminal, EveryCommandTold, RunGoesOn, Open, Owed
<1> QED BY <1>2, <1>6, <1>7, <1>8 DEF LoopInv

LEMMA LoopStep == ASSUME LoopInv, [LoopNext]_loopVars PROVE LoopInv'
BY SubmitInv, ResolveInv, StartPlanInv, StepRuntimeInv, ShowManeuverInv, EnterStepInv,
   AdvanceWorldInv, EarlyInv, EndRunInv, CrashRunInv, LoopStutter DEF LoopNext, EarlyStep
-----------------------------------------------------------------------------
(* The theorems.                                                           *)

\* The inductive invariant of the composed loop; with it the ownership invariant Owner of
\* the runtime, although the loop writes the runtime's requested speed from outside.
THEOREM LoopInvCorrect == LoopSpec => []LoopInv
<1>1. LoopInit => LoopInv
  BY LoopInitInv
<1>2. LoopInv /\ [LoopNext]_loopVars => LoopInv'
  BY LoopStep
<1> QED BY <1>1, <1>2, PTL DEF LoopSpec

\* Every variable of the composed loop keeps its type; the step of a running plan is one
\* the plan has.
THEOREM LoopTypeCorrect == LoopSpec => []LoopTypeOK
<1>1. LoopInv => LoopTypeOK
  BY DEF LoopInv
<1> QED BY <1>1, LoopInvCorrect, PTL

\* No driving command is told two ends, whatever the plans are and whenever the answers,
\* newer commands, failures and the end of the run come.
THEOREM OneTerminalCorrect == LoopSpec => []OneTerminal
<1>1. LoopInv => OneTerminal
  BY DEF LoopInv, Told
<1> QED BY <1>1, LoopInvCorrect, PTL

\* A run that ends in order leaves no submitted command without its end.
THEOREM EveryCommandToldCorrect == LoopSpec => []EveryCommandTold
<1>1. LoopInv => EveryCommandTold
  BY DEF LoopInv, Told
<1> QED BY <1>1, LoopInvCorrect, PTL

\* The command in force in the runtime is the wait or the first step of the latest driving
\* command: an answer to an older one never takes the vehicle.
THEOREM LatestOwnsCorrect == LoopSpec => []LatestOwns
<1>1. LoopInv => LatestOwns
  BY DEF LoopInv, LatestInv, LatestOwns
<1> QED BY <1>1, LoopInvCorrect, PTL
-----------------------------------------------------------------------------
(* The wait for an answer.                                                 *)

Waited(d) == d = latest /\ slow[d] = "pending"

\* No speed is asked for, and no stop is approached.
Hushed ==
  /\ requested = 0 /\ approach = None
  /\ stage = "after" => ~drove

\* While a command waits: a plan runs only if the command was spoken into it, and no speed
\* is asked for but by the loop itself.  A release found no command in force, and the
\* wait for an answer puts none there.
Quiet(d) ==
  /\ Running => d \in Live
  /\ raised = "no" => Hushed
  /\ raised = "step" => d \in Live
  /\ raised = "release" => active = None

WaitInv == \A d \in Driving : Waited(d) => Quiet(d)

\* What a frame does while nothing is asked for.
LEMMA FrameHushes ==
  ASSUME Owner, requested = 0, approach = None, Frame
  PROVE  requested' = 0 /\ approach' = None /\ (stage' = "after" => ~drove')
<1>1. ASSUME NEW watch, FrameTick(watch)
      PROVE  requested' = 0 /\ approach' = None /\ stage' # "after"
  BY <1>1 DEF FrameTick, ClearActive, commandVars, speedVars
<1>2. ASSUME FailInFrame PROVE requested' = 0 /\ approach' = None
  BY <1>2 DEF FailInFrame, ClearActive, commandVars
<1>3. CASE FrameLateral
  <2>1. FailInFrame \/ UNCHANGED <<requested, approach>>
    BY <1>3 DEF FrameLateral, commandVars, speedVars
  <2>2. stage' # "after"
    BY <1>3 DEF FrameLateral
  <2> QED BY <1>2, <2>1, <2>2
<1>4. CASE FrameFails
  <2>1. FailInFrame /\ drove' = FALSE
    BY <1>4 DEF FrameFails
  <2> QED BY <1>2, <2>1
<1>5. ASSUME NEW v, NEW near, NEW hazard, NEW semantic, FrameArbitrate(v, near, hazard, semantic)
      PROVE  requested' = 0 /\ approach' = None /\ ~drove'
  <2>1. ~Approaching(near)
    BY DEF Approaching
  <2>2. ~drove'
    <3>1. drove' => (IF Approaching(near) THEN (IF v > approach THEN v ELSE approach) ELSE requested) > 0
      BY <1>5, Zenon DEF FrameArbitrate
    <3>2. drove' => requested > 0
      BY <2>1, <3>1
    <3> QED BY <3>2
  <2>3. requested' = 0
    BY <1>5 DEF FrameArbitrate, Stand, speedVars
  <2>4. approach' = None
    BY <1>5 DEF FrameArbitrate, ClearActive
  <2> QED BY <2>2, <2>3, <2>4
<1> QED BY <1>1, <1>3, <1>4, <1>5 DEF Frame

\* The wait's stop holds nothing back and asks for no speed.
LEMMA WaitAsksNothing ==
  ASSUME NEW d \in Driving, SubmitVoice(WaitOf[d])
  PROVE  requested' = 0 /\ approach' = None /\ stage' = "commands"
<1> DEFINE c == WaitOf[d]
           old == IF Replaces(c) THEN End(fsm, active.id, "FAILED") ELSE fsm
<1>1. c \in Command /\ ~Envelope[c].plan /\ Envelope[c].action \in {"STOP", "EMERGENCY_BRAKE"}
      /\ ~Envelope[c].gated
  BY BridgeIds, BridgeEnvelopes
<1>2. fsm.terminal[c] = "NONE" /\ c \notin Ids(fsm.holders)
  BY FreshIds DEF SubmitVoice
<1>3. ~AlreadyEnded(old, c)
  <2>1. CASE Replaces(c)
    <3>1. old = End(fsm, active.id, "FAILED")
      BY <2>1
    <3>2. c \notin Ids({h \in fsm.holders : h.id = active.id})
      BY <1>2 DEF Ids
    <3>3. old.terminal[c] = "NONE"
      BY <1>1, <1>2, <3>1, <3>2 DEF End, Finish
    <3> QED BY <3>3 DEF AlreadyEnded
  <2>2. CASE ~Replaces(c)
    BY <1>2, <2>2 DEF AlreadyEnded
  <2> QED BY <2>1, <2>2
<1>4. requested' = 0
  BY <1>1, <1>3 DEF SubmitVoice
<1>5. approach' = None
  BY <1>1, <1>3 DEF SubmitVoice
<1> QED BY <1>4, <1>5 DEF SubmitVoice

\* A plan is dispatched only for a command that has its answer.
LEMMA WaitedIsOpen ==
  ASSUME LoopInv, RunGoesOn, NEW d \in Driving, Waited(d) PROVE dispatched = NoPlan
<1>1. dispatched # NoPlan => dispatched = d
  BY DEF LoopInv, FrameOrder, Waited
<1> QED BY <1>1, InvFacts DEF Open, Waited

LEMMA WaitStep == ASSUME LoopInv, WaitInv, [LoopNext]_loopVars PROVE WaitInv'
<1> USE DEF WaitInv, Waited
<1>1. ASSUME NEW d \in Driving, Submit(d) PROVE WaitInv'
  <2>1. /\ latest' = d /\ MayArrive(d) /\ SubmitVoice(WaitOf[d])
        /\ raised' = "no" /\ UNCHANGED planVars
    BY <1>1 DEF Submit
  <2>2. Running' = Running
    BY <2>1 DEF planVars, Running
  <2> QED BY <2>1, <2>2, WaitAsksNothing DEF MayArrive, Hushed, Quiet
<1>2. ASSUME NEW d \in Driving, Resolve(d) PROVE WaitInv'
  <2>1. /\ UNCHANGED <<planVars, latest, raised>> /\ slow[d] = "pending" /\ RunGoesOn
        /\ \/ slow' = [slow EXCEPT ![d] = "failed"]
           \/ slow' = [slow EXCEPT ![d] = "ready"]
    BY <1>2 DEF Resolve, Slow!Reply
  <2>2. slow'[d] # "pending" /\ \A e \in Driving \ {d} : slow'[e] = slow[e]
    BY <2>1, InvFacts
  <2>3. Running' = Running
    BY <2>1 DEF planVars, Running
  <2>4. d # latest => UNCHANGED vars
    BY <1>2 DEF Resolve, Reject, FailWait, IsLatest
  <2>5. ASSUME d # latest, NEW e \in Driving PROVE Quiet(e)' <=> Quiet(e)
    BY <2>1, <2>3, <2>4, <2>5 DEF Hushed, Quiet, vars, speedVars, commandVars
  <2> QED BY <2>1, <2>2, <2>5
<1>3. ASSUME NEW d \in Driving, StartPlan(d) PROVE WaitInv'
  <2>1. dispatched = d /\ d # NoPlan /\ UNCHANGED <<latest, slow>> /\ RunGoesOn
    BY <1>3, NoPlanAssumption DEF StartPlan
  <2> QED BY <2>1, WaitedIsOpen
<1>4. CASE StepRuntime
  <2>1. Frame /\ UNCHANGED <<maneuverVars, slow, latest, raised>>
    BY <1>4, StepRuntimeIsFrame DEF StepRuntime, bridgeVars
  <2>2. Running' = Running
    BY <2>1 DEF maneuverVars, planVars, Running
  <2>3. Hushed => Hushed'
    BY <2>1, FrameHushes DEF Hushed, LoopInv
  <2>4. active = None => active' = None
    BY <2>1, FrameKeeps DEF KeepsCommand
  <2> QED BY <2>1, <2>2, <2>3, <2>4 DEF Quiet
<1>5. CASE ShowManeuver
  <2>1. Running /\ UNCHANGED <<latest, slow, raised>>
    BY <1>5 DEF ShowManeuver, Update, bridgeVars
  <2>2. CASE CompleteActive
    <3>1. active' = None /\ approach' = None /\ UNCHANGED <<requested, stage, drove>>
      BY <2>2 DEF CompleteActive, ClearActive, speedVars
    <3> QED BY <2>1, <3>1 DEF Quiet, Hushed
  <2>3. CASE UNCHANGED vars
    BY <2>1, <2>3 DEF Quiet, Hushed, vars, commandVars, speedVars
  <2> QED BY <1>5, <2>2, <2>3 DEF ShowManeuver
<1>6. CASE EnterStep
  <2>1. Running /\ UNCHANGED <<latest, slow>> /\ RequestStepSpeed(StepSpeed[plan][step])
    BY <1>6 DEF EnterStep, bridgeVars, LoopInv, FrameOrder
  <2>2. UNCHANGED <<active, approach, stage, drove>>
    BY <2>1 DEF RequestStepSpeed, commandVars
  <2>3. \/ raised' = "step"
        \/ raised' = raised /\ (requested' = requested \/ requested' = 0)
    BY <2>1 DEF RequestStepSpeed, speedVars
  <2> QED BY <2>1, <2>2, <2>3 DEF Quiet, Hushed
<1>7. CASE AdvanceWorld
  <2>1. UNCHANGED <<latest, slow, requested, approach, state, plan, raised>> /\ stage' = "commands"
    BY <1>7 DEF AdvanceWorld, AdvanceClock, Tick, speedVars
  <2>2. active = None => active' = None
    BY <1>7 DEF AdvanceWorld, AdvanceClock
  <2> QED BY <2>1, <2>2 DEF Hushed, Running, Quiet
<1>8. CASE EarlyStep
  <2>1. /\ UNCHANGED <<maneuverVars, slow, latest, active, stage>> /\ stage = "commands"
    BY <1>8, EarlyFacts DEF LoopInv
  <2>2. Running' = Running
    BY <2>1 DEF maneuverVars, planVars, Running
  <2>3. CASE RecoverRoute
    <3>1. raised' = "recovery" \/ (raised' = raised /\ requested' = 0 /\ approach' = approach)
      BY <2>3 DEF RecoverRoute, Ask, commandVars
    <3> QED BY <2>1, <2>2, <3>1 DEF Quiet, Hushed
  <2>4. CASE GiveUpRoute \/ FinishRoute
    <3>1. raised' = raised /\ requested' = 0 /\ approach' = approach
      BY <2>4 DEF GiveUpRoute, FinishRoute, Ask, commandVars
    <3> QED BY <2>1, <2>2, <3>1 DEF Quiet, Hushed
  <2>5. CASE ReleaseForScenario
    <3>1. raised' = "release" /\ active = None
      BY <2>5 DEF ReleaseForScenario, ReleaseStopHold, ReleaseBlocked
    <3> QED BY <2>1, <2>2, <3>1 DEF Quiet
  <2> QED BY <1>8, <2>3, <2>4, <2>5 DEF EarlyStep
<1>9. CASE EndRun \/ CrashRun
  <2>1. UNCHANGED <<latest, slow, raised>>
    BY <1>9 DEF EndRun, CrashRun, Slow!Close, bridgeVars
  <2>2. /\ (requested' = 0 /\ approach' = None) \/ UNCHANGED <<requested, approach>>
        /\ UNCHANGED <<stage, drove>>
        /\ active = None => active' = None
    BY <1>9 DEF EndRun, CrashRun, FailActive, ClearActive, vars, commandVars, speedVars
  <2>3. ~Running => ~Running'
    BY <1>9 DEF EndRun, CrashRun, maneuverVars, planVars, Running
  <2> QED BY <2>1, <2>2, <2>3 DEF Hushed, Quiet
<1>10. CASE UNCHANGED loopVars
  BY <1>10 DEF loopVars, vars, speedVars, commandVars, bridgeVars, maneuverVars, planVars, Hushed,
              Running, Quiet
<1> QED BY <1>1, <1>2, <1>3, <1>4, <1>5, <1>6, <1>7, <1>8, <1>9, <1>10 DEF LoopNext, EarlyStep

\* While the latest command waits for its answer no frame propels the vehicle on the word of
\* another command: whatever lapses, fails, completes, overrides or is answered in between,
\* a speed is asked for only by the step of a plan the command was spoken into, by a route
\* found again, or by the scenario's release once the wait is no longer in force.
THEOREM AwaitedAtRestCorrect == LoopSpec => []AwaitedAtRest
<1>1. LoopInit => LoopInv /\ WaitInv
  BY LoopInitInv DEF WaitInv, Waited, LoopInit, Slow!Init
<1>2. LoopInv /\ WaitInv /\ [LoopNext]_loopVars => (LoopInv /\ WaitInv)'
  BY LoopStep, WaitStep
<1>3. LoopInv /\ WaitInv => AwaitedAtRest
  BY DEF LoopInv, LoopTypeOK, WaitInv, Waited, Quiet, Hushed, AwaitedAtRest, Awaited
<1> QED BY <1>1, <1>2, <1>3, PTL DEF LoopSpec
=============================================================================
