---------------------------- MODULE VoiceCommand ----------------------------
(***************************************************************************)
(* From what is said to a driving command (voice_group): recognition, the   *)
(* rules that give an intent, the slots, and a second recogniser for what   *)
(* could change a control decision.  An utterance is a sequence of words    *)
(* that stand for the phrases the rules look for, once normalize_text has   *)
(* made one of them; `shout` is the exclamation mark at its end.            *)
(***************************************************************************)
EXTENDS Integers, Sequences, Absent

CONSTANTS
  Sayings,   \* what people say: records [words, shout]
  Confused   \* pairs of words of which the first may be heard as the second

ASSUME SpeechAssumption ==
  /\ \A s \in Sayings : s.words \in Seq(STRING)
  /\ Confused \subseteq STRING \X STRING

VARIABLES
  said, heard, second,  \* the utterance, as recognised and as the verifier recognised it
  command,              \* the driving command so far
  speechPc
speechVars == <<said, heard, second, command, speechPc>>

Numbers == {"30", "90"}
Kmh(word) == CASE word = "30" -> 30 [] word = "90" -> 90
Sides == {"left", "right"}
Turning == {"turnleft", "turnright"}
Halting == {"stop", "brake"}

Has(u, S) == \E i \in DOMAIN u : u[i] \in S
Then(u, A, B) == \E i, j \in DOMAIN u : i < j /\ u[i] \in A /\ u[j] \in B
-----------------------------------------------------------------------------
(* The intent: intent_classifier.py.                                       *)

\* The actions an utterance speaks of (_COMPOUND_SIGNAL_PATTERNS).
Signals(u) ==
  LET spoken ==
        [speed        |-> Then(u, {"to"}, Numbers) \/ Has(u, {"slower"}),
         keep_lane    |-> Then(u, {"keep", "then"}, {"lane"}),
         lane_change  |-> Then(u, Sides, {"change"}),
         turn         |-> Has(u, Turning),
         avoid        |-> Has(u, {"avoid"}),
         yield_wait   |-> Has(u, {"wait"}),
         resume_route |-> Has(u, {"back"}) \/ Then(u, {"avoid", "wait"}, {"then"})]
  IN  {s \in DOMAIN spoken : spoken[s]}

Pairs == {{"speed", "keep_lane"}, {"speed", "lane_change"}, {"speed", "avoid"},
          {"avoid", "keep_lane"}, {"avoid", "resume_route"},
          {"turn", "avoid"}, {"turn", "yield_wait"},
          {"lane_change", "avoid"}, {"lane_change", "resume_route"}}

\* An immediate stop because avoidance is out of reach is one action.
TerminalEmergency(u) == Then(u, {"now"}, Halting) /\ Then(u, {"cannot"}, {"avoid"})

Compound(u) ==
  /\ ~TerminalEmergency(u)
  /\ \/ \E p \in Pairs : p \subseteq Signals(u)
     \/ "speed" \in Signals(u) /\ Has(u, {"walker"}) /\ Has(u, {"then"})

Negated(u) == Then(u, {"not"}, Halting \cup {"faster"})

KeepsLane(u) ==
  \/ Then(u, {"not"}, {"change"}) \/ Then(u, {"keep", "then"}, {"lane"})
  \/ Then(u, {"lane"}, {"then"})

Emergency(u, shout) ==
  \/ Then(u, {"now"}, Halting) \/ Then(u, Halting, {"now"})
  \/ Then(u, {"brake"}, {"brake"}) \/ u = <<"stop", "stop">>
  \/ shout /\ Len(u) = 1 /\ Has(u, Halting)

PullsOver(u) ==
  \/ Has(u, {"side"}) \/ Then(u, Sides, {"stop"})
  \/ Then(u, {"stop"}, Sides) /\ u[Len(u)] \in Sides

SetsSpeed(u) == Then(u, {"to", "keep"}, Numbers)

Avoids(u)  == Has(u, {"avoid"})
Turns(u)   == Has(u, Turning \cup {"ahead"}) /\ ~Has(u, {"change"})
Changes(u) == Has(u, {"change"})
Hurries(u) == Has(u, {"faster"})
Slows(u)   == Has(u, {"slower"})

\* classify_intent: the first rule that matches; what none understands is left to the planner.
Rules == <<"UNKNOWN", "KEEP_LANE", "EMERGENCY_STOP", "PULL_OVER", "SET_SPEED", "AVOID_OBSTACLE",
           "TURN", "CHANGE_LANE", "SPEED_UP", "SLOW_DOWN", "STOP", "UNKNOWN">>
Meanings == {Rules[rule] : rule \in 1..12}
Fits(rule, u, shout) ==
  \/ rule = 1 /\ (Compound(u) \/ Negated(u))
  \/ rule = 2 /\ KeepsLane(u)
  \/ rule = 3 /\ Emergency(u, shout)
  \/ rule = 4 /\ PullsOver(u)
  \/ rule = 5 /\ SetsSpeed(u)
  \/ rule = 6 /\ Avoids(u)
  \/ rule = 7 /\ Turns(u)
  \/ rule = 8 /\ Changes(u)
  \/ rule = 9 /\ Hurries(u)
  \/ rule = 10 /\ Slows(u)
  \/ rule = 11 /\ Has(u, {"stop"})
  \/ rule = 12
First(S) == CHOOSE i \in S : \A j \in S : i <= j
Intent(u, shout) == Rules[First({rule \in 1..12 : Fits(rule, u, shout)})]
-----------------------------------------------------------------------------
(* The slots: nlu_b2/parser.py.                                            *)

MaxSpeed == 80
Directions == {"CONFLICT", "LEFT", "RIGHT", "STRAIGHT", "NONE", "AUTO"}

Direction(u) ==
  CASE Has(u, {"left", "turnleft"}) /\ Has(u, {"right", "turnright"})   -> "CONFLICT"
    [] Has(u, {"left", "turnleft"}) /\ ~Has(u, {"right", "turnright"})  -> "LEFT"
    [] ~Has(u, {"left", "turnleft"}) /\ Has(u, {"right", "turnright"})  -> "RIGHT"
    [] ~Has(u, Sides \cup Turning) /\ Has(u, {"ahead"})                 -> "STRAIGHT"
    [] OTHER                                                            -> "NONE"

\* The side to stop at is the right one, and the way around an obstacle open, unless said.
DirectionOf(u, intent) ==
  LET d == Direction(u)
      Or(default) == IF d \in {"NONE", "STRAIGHT"} THEN default ELSE d
  IN  CASE intent = "PULL_OVER"               -> Or("RIGHT")
        [] intent = "AVOID_OBSTACLE"          -> Or("AUTO")
        [] intent = "CHANGE_LANE"             -> Or("NONE")
        [] intent = "TURN"                    -> d
        [] OTHER                              -> "NONE"

\* The first number said; "a bit" faster or slower names no speed.
SpeedOf(u, intent) ==
  LET numbers == {i \in DOMAIN u : u[i] \in Numbers}
  IN  IF /\ numbers # {}
         /\ \/ intent = "SET_SPEED"
            \/ intent \in {"SPEED_UP", "SLOW_DOWN"} /\ ~Has(u, {"abit"})
      THEN Kmh(u[First(numbers)]) ELSE None

\* The error that comes first in _status, or "valid".
Status(u, intent, score) ==
  LET direction == DirectionOf(u, intent)
      speed     == SpeedOf(u, intent)
  IN  IF intent = "UNKNOWN" THEN "unknown"
      ELSE IF score = "low" THEN "low_confidence"
      ELSE IF direction = "CONFLICT" THEN "conflict"
      ELSE IF intent \in {"CHANGE_LANE", "TURN"} /\ direction = "NONE" THEN "missing_slot"
      ELSE IF speed # None /\ speed > MaxSpeed THEN "unsafe" ELSE "valid"

\* parse_command of process_asr_text: no slot is filled in when the parse is refused.
Understood(u, shout, score) ==
  LET intent == Intent(u, shout)
      status == Status(u, intent, score)
      filled == status \in {"valid", "unsafe"}
  IN  [intent |-> intent, status |-> status,
       direction |-> IF filled THEN DirectionOf(u, intent) ELSE "NONE",
       speed |-> IF filled THEN SpeedOf(u, intent) ELSE None]
-----------------------------------------------------------------------------
(* Recognition and the second opinion: asr_vad.py, asr_cascade.py.         *)

\* What recognition may make of an utterance: itself, one word lost, or one confused.
Hearings(u) ==
  {u}
    \cup {SubSeq(u, 1, i - 1) \o SubSeq(u, i + 1, Len(u)) : i \in DOMAIN u}
    \cup UNION {{[u EXCEPT ![i] = p[2]] : p \in {q \in Confused : q[1] = u[i]}} : i \in DOMAIN u}

RiskyMutant == {"SET_SPEED", "CHANGE_LANE", "PULL_OVER", "AVOID_OBSTACLE", "SLOW_DOWN", "SPEED_UP"}
Risky == {"SET_SPEED", "CHANGE_LANE", "PULL_OVER", "AVOID_OBSTACLE", "TURN",
          "SLOW_DOWN", "SPEED_UP"}

NeedsVerification ==
  \/ command.intent \in Risky \/ Has(heard, Numbers)
  \/ command.status # "valid" /\ command.intent # "UNKNOWN"

ASSUME NoCommandAssumption ==
  None \notin Int \cup [intent : Meanings, direction : Directions, speed : Int \cup {None}, sure : BOOLEAN]

Signature(c) == <<c.intent, c.direction, c.speed>>

SpeechInit ==
  /\ said \in Sayings /\ speechPc = "said"
  /\ heard = <<>> /\ second = None /\ command = None

\* ASR.transcribe, process_asr_text and parse_command.
Recognise ==
  /\ speechPc = "said"
  /\ \E u \in Hearings(said.words), shout \in {FALSE, said.shout}, score \in {"fine", "low"} :
       LET parsed == Understood(u, shout, score)
       IN  /\ heard' = u
           /\ command' = [intent |-> parsed.intent, status |-> parsed.status,
                          direction |-> parsed.direction, speed |-> parsed.speed,
                          confirm |-> parsed.status # "valid"]
  /\ speechPc' = "parsed"
  /\ UNCHANGED <<said, second>>

NotVerified ==
  /\ speechPc = "parsed" /\ ~NeedsVerification
  /\ speechPc' = "done" /\ UNCHANGED <<said, heard, second, command>>

\* apply_verification: a stop is never held up, and a doubtful verifier does not decide.
\* A score below the threshold of the parser leaves the second parse without slots.
Verified ==
  /\ speechPc = "parsed" /\ NeedsVerification
  /\ \E u \in Hearings(said.words), shout \in {FALSE, said.shout},
        calibrated \in {"none", "low", "doubtful", "sure"} :
       LET other == Understood(u, shout, IF calibrated = "low" THEN "low" ELSE "fine")
       IN  /\ command' = [command EXCEPT !.confirm =
                            \/ @
                            \/ /\ Signature(command) # Signature(other)
                               /\ calibrated = "sure"
                               /\ command.intent \notin {"STOP", "EMERGENCY_STOP"}]
           /\ second' = [intent |-> other.intent, direction |-> other.direction,
                         speed |-> other.speed, sure |-> calibrated = "sure"]
  /\ speechPc' = "done" /\ UNCHANGED <<said, heard>>

\* mark_verifier_unavailable.
VerifierFails ==
  /\ speechPc = "parsed" /\ NeedsVerification
  /\ command' = [command EXCEPT !.confirm = TRUE]
  /\ speechPc' = "done" /\ UNCHANGED <<said, heard, second>>

SpeechNext == Recognise \/ NotVerified \/ Verified \/ VerifierFails
-----------------------------------------------------------------------------
Acts == speechPc = "done" /\ ~command.confirm
Meant == Understood(said.words, said.shout, "fine")

\* A command that needs no confirmation is complete: one direction where one is needed, a
\* speed the vehicle may drive, and nothing the rules could not place.
ActsOnlyComplete ==
  Acts => /\ command.status = "valid" /\ command.intent # "UNKNOWN"
          /\ command.intent \in {"CHANGE_LANE", "TURN", "PULL_OVER", "AVOID_OBSTACLE"} =>
               command.direction \notin {"NONE", "CONFLICT"} /\ Direction(heard) # "CONFLICT"
          /\ command.intent = "SET_SPEED" => command.speed # None
          /\ command.speed # None => command.speed \in 0..MaxSpeed

\* One recogniser that mishears is not enough to drive otherwise than was said, unless the
\* other was not sure of itself: what comes of it is a stop or the lane the vehicle is in.
TwoMishear ==
  Acts /\ Signature(command) # Signature(Meant) =>
    \/ command.intent \in {"STOP", "EMERGENCY_STOP", "KEEP_LANE"}
    \/ second # None /\ (~second.sure \/ Signature(second) = Signature(command))

\* What was forbidden, and heard as it was said, is not done without asking: not stopping, not
\* going faster, not changing lane.
Forbidden ==
  Acts /\ heard = said.words =>
    /\ ~Then(said.words, {"not"}, {"stop", "brake", "faster"})
    /\ Then(said.words, {"not"}, {"change"}) => command.intent = "KEEP_LANE"

SpeechSound == ActsOnlyComplete /\ TwoMishear /\ Forbidden
=============================================================================
