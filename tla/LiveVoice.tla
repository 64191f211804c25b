----------------------------- MODULE LiveVoice -----------------------------
(***************************************************************************)
(* The microphone of the runner (integration/live_voice.py): a capture      *)
(* thread that cuts utterances out of the sound, a recognition thread that  *)
(* turns them into commands one by one, each as VoiceCommand has it, and     *)
(* the frame loop that polls.                                              *)
(***************************************************************************)
EXTENDS VoiceCommand, FiniteSets

CONSTANTS
  Trigger,       \* trigger_frames
  EndSilence,    \* end_silence_ms, in frames
  MaxFrames,     \* max_utterance_s
  MinVoiced,     \* min_voice_ms
  PreRoll,       \* pre_roll_ms
  SegmentLimit,  \* maxsize of _segments
  MaxUtterances  \* bound: utterances cut in a run

ASSUME VoiceAssumption ==
  /\ {Trigger, EndSilence, MaxFrames, MinVoiced, PreRoll, SegmentLimit} \subseteq Nat \ {0}
  /\ MaxUtterances \in Nat
  /\ None \notin Nat \cup [id : Nat, frames : Nat, loud : Nat, fresh : BOOLEAN]

\* The default configuration: the frames that open an utterance are in its pre-roll (3 in 15),
\* and a pre-roll is no utterance yet (15 of 350).  __post_init__ asks for neither.
ASSUME PreRollAssumption == Trigger <= PreRoll /\ PreRoll < MaxFrames

VARIABLES
  microphone,   \* the parec process: "recording" or "ended"
  sound,        \* the segmenter: what EnergyVadSegmenter holds
  since,        \* frames heard since the last utterance ended, up to PreRoll
  capturePc, offered,
  segments, recogniserPc, recognising,
  results, polled,
  stopping, stopPc,
  cut           \* utterances cut so far

soundVars  == <<microphone, sound, since>>
threadVars == <<capturePc, offered, recogniserPc, recognising>>
queueVars  == <<segments, results, polled>>
stopVars   == <<stopping, stopPc>>
voiceVars  == <<soundVars, threadVars, queueVars, stopVars, cut>>

\* _reset_after_utterance.  The frames of an utterance are counted, the loud ones apart.
Reset == [active |-> FALSE, frames |-> 0, loud |-> 0, triggerRun |-> 0, silenceRun |-> 0,
         voiced |-> 0, preRoll |-> <<>>, fresh |-> TRUE]

\* A frame is as loud as the threshold, or it is not.
Loudness == {"loud", "quiet"}
LoudIn(seq) == Cardinality({i \in DOMAIN seq : seq[i] = "loud"})
Rolled(seq, frame) ==
  IF Len(seq) < PreRoll THEN Append(seq, frame) ELSE Append(Tail(seq), frame)
Recent(n) == IF n < PreRoll THEN n + 1 ELSE n

LiveInit ==
  /\ microphone = "recording" /\ sound = Reset /\ since = 0
  /\ capturePc = "read" /\ offered = None
  /\ segments = <<>> /\ recogniserPc = "check" /\ recognising = None
  /\ results = <<>> /\ polled = <<>>
  /\ stopping = FALSE /\ stopPc = "running" /\ cut = 0
-----------------------------------------------------------------------------
(* The capture thread: feed, one frame at a time.                          *)

\* Idle: enough loud frames in a row open an utterance that starts with the pre-roll.
Listened(frame) ==
  LET roll == Rolled(sound.preRoll, frame)
      run  == IF frame = "loud" THEN sound.triggerRun + 1 ELSE 0
  IN  IF run < Trigger
      THEN [sound EXCEPT !.preRoll = roll, !.triggerRun = run]
      ELSE [active |-> TRUE, frames |-> Len(roll), loud |-> LoudIn(roll), triggerRun |-> run,
            silenceRun |-> 0, voiced |-> Trigger, preRoll |-> roll,
            fresh |-> Len(roll) <= Recent(since)]

Followed(frame) ==
  [sound EXCEPT !.frames = @ + 1,
                !.loud = IF frame = "loud" THEN @ + 1 ELSE @,
                !.voiced = IF frame = "loud" THEN @ + 1 ELSE @,
                !.silenceRun = IF frame = "loud" THEN 0 ELSE @ + 1]

UtteranceOver(s) == s.silenceRun >= EndSilence \/ s.frames >= MaxFrames

EnoughVoice(s) == s.voiced >= MinVoiced

Utterance(s) == [id |-> cut + 1, frames |-> s.frames, loud |-> s.loud, fresh |-> s.fresh]

\* What the pipe holds can still be read after parec has ended.
Reading == capturePc = "read" /\ ~stopping /\ cut < MaxUtterances

HearIdle(frame) ==
  /\ Reading /\ ~sound.active
  /\ sound' = Listened(frame) /\ since' = Recent(since)
  /\ UNCHANGED <<microphone, threadVars, queueVars, stopVars, cut>>

HearActive(frame) ==
  /\ Reading /\ sound.active
  /\ LET s == Followed(frame)
     IN  IF ~UtteranceOver(s)
         THEN sound' = s /\ UNCHANGED <<since, capturePc, offered, cut>>
         ELSE /\ sound' = Reset /\ since' = 0
              /\ IF EnoughVoice(s)
                 THEN offered' = Utterance(s) /\ cut' = cut + 1 /\ capturePc' = "offer"
                 ELSE UNCHANGED <<offered, cut, capturePc>>
  /\ UNCHANGED <<microphone, recogniserPc, recognising, queueVars, stopVars>>

SegmentsFull == Len(segments) >= SegmentLimit

\* put with a timeout of 0.1 s: room in time, or an error result.
Offer ==
  /\ capturePc = "offer" /\ ~SegmentsFull
  /\ segments' = Append(segments, offered) /\ offered' = None /\ capturePc' = "read"
  /\ UNCHANGED <<soundVars, recogniserPc, recognising, results, polled, stopVars, cut>>

OfferTimesOut ==
  /\ capturePc = "offer" /\ SegmentsFull
  /\ results' = Append(results, [id |-> offered.id, outcome |-> "dropped"])
  /\ offered' = None /\ capturePc' = "read"
  /\ UNCHANGED <<soundVars, recogniserPc, recognising, segments, polled, stopVars, cut>>

\* Reading the pipe may raise; the thread reports it and ends.
CaptureFails ==
  /\ Reading
  /\ results' = Append(results, [id |-> 0, outcome |-> "failed"])
  /\ capturePc' = "flush"
  /\ UNCHANGED <<soundVars, offered, recogniserPc, recognising, segments, polled, stopVars, cut>>

\* stop(), or a microphone whose process has ended: nothing is reported.
CaptureEnds ==
  /\ capturePc = "read" /\ (stopping \/ microphone = "ended")
  /\ capturePc' = "flush"
  /\ UNCHANGED <<soundVars, offered, recogniserPc, recognising, queueVars, stopVars, cut>>

\* finally: what was being said is still recognised, if there is room and no stop.
Flush ==
  /\ capturePc = "flush"
  /\ IF sound.active /\ EnoughVoice(sound) /\ ~stopping /\ ~SegmentsFull
     THEN segments' = Append(segments, Utterance(sound)) /\ cut' = cut + 1
     ELSE UNCHANGED <<segments, cut>>
  /\ sound' = Reset /\ capturePc' = "ended"
  /\ UNCHANGED <<microphone, since, offered, recogniserPc, recognising, results, polled, stopVars>>

MicrophoneDies ==
  /\ microphone = "recording"
  /\ microphone' = "ended"
  /\ UNCHANGED <<sound, since, threadVars, queueVars, stopVars, cut>>

Capture ==
  \/ \E frame \in Loudness : HearIdle(frame) \/ HearActive(frame)
  \/ Offer \/ OfferTimesOut \/ CaptureFails \/ CaptureEnds \/ Flush
-----------------------------------------------------------------------------
(* The recognition thread, the frame loop's poll, and stop.                *)

RecogniserChecks ==
  /\ recogniserPc = "check"
  /\ recogniserPc' = IF stopping THEN "ended" ELSE "get"
  /\ UNCHANGED <<soundVars, capturePc, offered, recognising, queueVars, stopVars, cut>>

RecogniserGets ==
  /\ recogniserPc = "get"
  /\ IF segments = <<>>
     THEN recogniserPc' = "check" /\ UNCHANGED <<segments, recognising>>
     ELSE /\ segments' = Tail(segments)
          /\ IF Head(segments) = None
             THEN recogniserPc' = "ended" /\ UNCHANGED recognising
             ELSE recogniserPc' = "recognise" /\ recognising' = Head(segments).id
  /\ UNCHANGED <<soundVars, capturePc, offered, results, polled, stopVars, cut>>

\* audio_to_command returns a command or raises; either way there is one result.
RecogniserAnswers ==
  /\ recogniserPc = "recognise"
  /\ \E outcome \in {"command", "error"} :
       results' = Append(results, [id |-> recognising, outcome |-> outcome])
  /\ recognising' = None /\ recogniserPc' = "check"
  /\ UNCHANGED <<soundVars, capturePc, offered, segments, polled, stopVars, cut>>

PollVoice ==
  /\ stopPc = "running" /\ results # <<>>
  /\ polled' = polled \o results /\ results' = <<>>
  /\ UNCHANGED <<soundVars, threadVars, segments, stopVars, cut>>

StopBegin ==
  /\ stopPc = "running"
  /\ stopping' = TRUE /\ stopPc' = "terminate"
  /\ UNCHANGED <<soundVars, threadVars, queueVars, cut>>

StopTerminates ==
  /\ stopPc = "terminate"
  /\ microphone' = "ended" /\ stopPc' = "wake"
  /\ UNCHANGED <<sound, since, threadVars, queueVars, stopping, cut>>

\* The sentinel wakes the recogniser; a full queue has no room for it.
StopWakes ==
  /\ stopPc = "wake"
  /\ segments' = IF SegmentsFull THEN segments ELSE Append(segments, None)
  /\ stopPc' = "joined"
  /\ UNCHANGED <<soundVars, threadVars, results, polled, stopping, cut>>

LiveNext ==
  \/ Capture \/ MicrophoneDies
  \/ RecogniserChecks \/ RecogniserGets \/ RecogniserAnswers
  \/ PollVoice \/ StopBegin \/ StopTerminates \/ StopWakes
-----------------------------------------------------------------------------
Reported == polled \o results
OnTheWay == {segments[i] : i \in DOMAIN segments} \cup {offered}
Places(id) ==
  {<<"reported", i>> : i \in {i \in DOMAIN Reported : Reported[i].id = id}}
    \cup {<<"queued", i>> : i \in {i \in DOMAIN segments : segments[i] # None /\ segments[i].id = id}}
    \cup {<<"offered", i>> : i \in {i \in {0} : offered # None /\ offered.id = id}}
    \cup {<<"recognising", i>> : i \in {i \in {0} : recognising = id}}

\* What is sent to recognition is speech: long enough, not endless, and no frame of it was
\* in the utterance before.
SpeechOnly ==
  \A u \in OnTheWay \ {None} : u.loud >= MinVoiced /\ u.frames <= MaxFrames /\ u.fresh

\* Every utterance cut while listening has one result or is on its way to it, whatever is
\* full, fails or stops.
ToldOnce == \A id \in 1..cut : \E place \in Places(id) : Places(id) = {place}

\* Commands reach the runner in the order they were spoken.
SpokenOrder ==
  \A i, j \in DOMAIN Reported :
    i < j /\ Reported[i].outcome = "command" /\ Reported[j].outcome = "command"
      => Reported[i].id < Reported[j].id

LiveSound == SpeechOnly /\ ToldOnce /\ SpokenOrder

\* What comes of what is said, from the sound to the command.
VoiceSound == SpeechSound /\ LiveSound
=============================================================================
