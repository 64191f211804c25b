---------------------------- MODULE VoiceProofs ----------------------------
(***************************************************************************)
(* Proofs about the voice: what is sent to recognition, what becomes of     *)
(* every utterance, and what an understood command may be.                  *)
(***************************************************************************)
EXTENDS LiveVoice, SequenceTheorems, FiniteSetTheorems, WellFoundedInduction, TLAPS

-----------------------------------------------------------------------------
(* The sound.                                                              *)

Frames == Seq(Loudness)
SoundType ==
  [active : BOOLEAN, frames : Nat, loud : Nat, triggerRun : Nat, silenceRun : Nat,
   voiced : Nat, preRoll : Frames, fresh : BOOLEAN]

\* The end of the pre-roll that is loud, as far as triggerRun goes.
LoudEnd(roll, run) == \A i \in DOMAIN roll : i > Len(roll) - run => roll[i] = "loud"

\* While nobody speaks the pre-roll is new and ends in the loud frames in a row; while
\* somebody does, the frames counted are loud enough and not too many.
SoundInv ==
  /\ sound \in SoundType /\ since \in Nat
  /\ ~sound.active => /\ Len(sound.preRoll) <= PreRoll /\ Len(sound.preRoll) <= since
                      /\ sound.triggerRun < Trigger
                      /\ sound.triggerRun <= Len(sound.preRoll)
                      /\ LoudEnd(sound.preRoll, sound.triggerRun)
  /\ sound.active => /\ sound.loud >= sound.voiced /\ sound.frames < MaxFrames
                     /\ sound.fresh = TRUE

LEMMA RolledFacts ==
  ASSUME NEW roll \in Frames, NEW frame \in Loudness, Len(roll) <= PreRoll
  PROVE  LET next == Rolled(roll, frame) IN
         /\ next \in Frames
         /\ Len(next) = IF Len(roll) < PreRoll THEN Len(roll) + 1 ELSE PreRoll
         /\ next[Len(next)] = frame
         /\ \A i \in 1..(Len(next) - 1) : next[i] = roll[i + (Len(roll) - (Len(next) - 1))]
<1> PreRoll \in Nat \ {0}
  BY VoiceAssumption
<1>1. CASE Len(roll) < PreRoll
  BY <1>1 DEF Rolled, Frames
<1>2. CASE ~(Len(roll) < PreRoll)
  <2>1. Len(roll) = PreRoll /\ roll # <<>>
    BY <1>2 DEF Frames
  <2>2. Tail(roll) \in Seq(Loudness) /\ Len(Tail(roll)) = PreRoll - 1
    BY <2>1 DEF Frames
  <2>3. \A i \in 1..(PreRoll - 1) : Tail(roll)[i] = roll[i + 1]
    BY <2>1 DEF Frames
  <2>4. Rolled(roll, frame) = Append(Tail(roll), frame)
    BY <1>2 DEF Rolled
  <2>5. /\ Append(Tail(roll), frame) \in Seq(Loudness)
        /\ Len(Append(Tail(roll), frame)) = PreRoll
        /\ Append(Tail(roll), frame)[PreRoll] = frame
        /\ \A i \in 1..(PreRoll - 1) : Append(Tail(roll), frame)[i] = Tail(roll)[i]
    BY <2>2
  <2> QED
    BY <1>2, <2>1, <2>3, <2>4, <2>5 DEF Frames
<1> QED
  BY <1>1, <1>2

\* As many frames are loud as there are at the end.
LEMMA LoudEndCounts ==
  ASSUME NEW roll \in Frames, NEW run \in Nat, run <= Len(roll), LoudEnd(roll, run)
  PROVE  LoudIn(roll) \in Nat /\ LoudIn(roll) >= run
<1> DEFINE heard_ == {i \in DOMAIN roll : roll[i] = "loud"}
           end == (Len(roll) - run + 1)..Len(roll)
<1>1. Len(roll) \in Nat /\ DOMAIN roll = 1..Len(roll)
  BY DEF Frames
<1>2. \A i \in end : i \in DOMAIN roll /\ roll[i] = "loud"
  BY <1>1 DEF LoudEnd
<1>3. end \subseteq heard_
  BY <1>2
<1>4. IsFiniteSet(1..Len(roll)) /\ heard_ \subseteq 1..Len(roll)
  BY <1>1, FS_Interval
<1>5. IsFiniteSet(heard_)
  BY <1>4, FS_Subset
<1>6. Cardinality(end) = run
  BY <1>1, FS_Interval
<1>7. Cardinality(heard_) \in Nat
  BY <1>5, FS_CardinalityType
<1>8. Cardinality(end) <= Cardinality(heard_)
  BY <1>3, <1>5, FS_Subset
<1> QED
  BY <1>6, <1>7, <1>8 DEF LoudIn

\* Where a frame of the pre-roll was a frame earlier.
LEMMA EarlierFrame ==
  ASSUME NEW length \in Nat, NEW before \in Nat, NEW run \in Nat, NEW i \in 1..length, i # length,
         NEW most \in Nat, i > length - (run + 1), before <= most,
         length = IF before < most THEN before + 1 ELSE most
  PROVE  LET j == i + (before - (length - 1)) IN j \in 1..before /\ j > before - run
  OBVIOUS

LEMMA CountersKeepType ==
  ASSUME NEW s \in SoundType, NEW a \in Nat, NEW b \in Nat, NEW c \in Nat, NEW d \in Nat
  PROVE  [s EXCEPT !.frames = a, !.loud = b, !.voiced = c, !.silenceRun = d] \in SoundType
  BY DEF SoundType

LEMMA HearIdleKeepsSound ==
  ASSUME SoundInv, NEW frame \in Loudness, HearIdle(frame)
  PROVE  SoundInv'
<1> DEFINE roll == Rolled(sound.preRoll, frame)
           run == IF frame = "loud" THEN sound.triggerRun + 1 ELSE 0
<1>0. /\ PreRoll \in Nat \ {0} /\ Trigger \in Nat \ {0} /\ MaxFrames \in Nat \ {0}
      /\ Trigger <= PreRoll /\ PreRoll < MaxFrames
  BY VoiceAssumption, PreRollAssumption
<1>1. /\ ~sound.active /\ sound \in SoundType /\ since \in Nat
      /\ sound.preRoll \in Frames /\ Len(sound.preRoll) <= PreRoll /\ Len(sound.preRoll) <= since
      /\ sound.triggerRun \in Nat /\ sound.triggerRun < Trigger
      /\ sound.triggerRun <= Len(sound.preRoll) /\ LoudEnd(sound.preRoll, sound.triggerRun)
      /\ sound' = Listened(frame) /\ since' = Recent(since)
  BY DEF SoundInv, SoundType, HearIdle
<1>2. /\ roll \in Frames /\ Len(roll) \in Nat /\ Len(sound.preRoll) \in Nat
      /\ Len(roll) = IF Len(sound.preRoll) < PreRoll THEN Len(sound.preRoll) + 1 ELSE PreRoll
      /\ roll[Len(roll)] = frame
      /\ \A i \in 1..(Len(roll) - 1) :
           roll[i] = sound.preRoll[i + (Len(sound.preRoll) - (Len(roll) - 1))]
  <2>1. sound.preRoll \in Frames /\ Len(sound.preRoll) <= PreRoll
    BY <1>1
  <2>2. Len(sound.preRoll) \in Nat
    BY <2>1 DEF Frames
  <2> HIDE DEF Frames
  <2>3. /\ roll \in Frames
        /\ Len(roll) = IF Len(sound.preRoll) < PreRoll THEN Len(sound.preRoll) + 1 ELSE PreRoll
        /\ roll[Len(roll)] = frame
        /\ \A i \in 1..(Len(roll) - 1) :
             roll[i] = sound.preRoll[i + (Len(sound.preRoll) - (Len(roll) - 1))]
    BY <2>1, RolledFacts
  <2> HIDE DEF roll
  <2>4. Len(roll) \in Nat
    BY <2>3 DEF Frames
  <2> QED
    BY <2>2, <2>3, <2>4
<1>3. since' \in Nat /\ Len(roll) <= since' /\ Len(roll) <= Recent(since) /\ Len(roll) <= PreRoll
  BY <1>0, <1>1, <1>2 DEF Recent
<1>4. run \in Nat /\ run <= Trigger /\ run <= Len(roll)
  BY <1>0, <1>1, <1>2
<1>5. LoudEnd(roll, run)
  <2>1. DOMAIN roll = 1..Len(roll) /\ DOMAIN sound.preRoll = 1..Len(sound.preRoll)
    BY <1>1, <1>2 DEF Frames
  <2>2. CASE frame = "loud"
    <3> SUFFICES ASSUME NEW i \in 1..Len(roll), i > Len(roll) - run PROVE roll[i] = "loud"
      BY <2>1 DEF LoudEnd
    <3>1. CASE i = Len(roll)
      BY <3>1, <2>2, <1>2
    <3>2. CASE i # Len(roll)
      <4> DEFINE j == i + (Len(sound.preRoll) - (Len(roll) - 1))
      <4>1. i \in 1..(Len(roll) - 1) /\ roll[i] = sound.preRoll[j]
        BY <3>2, <1>2
      <4>2. j \in 1..Len(sound.preRoll) /\ j > Len(sound.preRoll) - sound.triggerRun
        <5>1. run = sound.triggerRun + 1
          BY <2>2
        <5>2. i > Len(roll) - run /\ i \in 1..Len(roll) /\ i # Len(roll)
          BY <3>2
        <5> HIDE DEF roll, run
        <5> QED
          <6>1. /\ Len(sound.preRoll) \in Nat /\ Len(roll) \in Nat /\ sound.triggerRun \in Nat
                /\ Len(roll) = IF Len(sound.preRoll) < PreRoll THEN Len(sound.preRoll) + 1 ELSE PreRoll
                /\ Len(sound.preRoll) <= PreRoll /\ PreRoll \in Nat
            BY <1>0, <1>1, <1>2
          <6>2. j = i + (Len(sound.preRoll) - (Len(roll) - 1))
            OBVIOUS
          <6> QED
            BY <5>1, <5>2, <6>1, <6>2, EarlierFrame
      <4>3. sound.preRoll[j] = "loud"
        BY <4>2, <1>1, <2>1 DEF LoudEnd
      <4> QED
        BY <4>1, <4>3
    <3> QED
      BY <3>1, <3>2
  <2>3. CASE frame # "loud"
    <3>1. run = 0
      BY <2>3
    <3> QED
      BY <3>1, <2>1, <1>2 DEF LoudEnd
  <2> QED
    BY <2>2, <2>3
<1> HIDE DEF roll, run
<1>6. CASE run < Trigger
  <2>1. sound' = [sound EXCEPT !.preRoll = roll, !.triggerRun = run]
    BY <1>1, <1>6 DEF Listened, roll, run
  <2>2. /\ sound' \in SoundType /\ ~sound'.active
        /\ sound'.preRoll = roll /\ sound'.triggerRun = run
    BY <2>1, <1>1, <1>2, <1>4 DEF SoundType
  <2> QED
    BY <2>2, <1>2, <1>3, <1>4, <1>5, <1>6 DEF SoundInv
<1>7. CASE ~(run < Trigger)
  <2>1. sound' = [active |-> TRUE, frames |-> Len(roll), loud |-> LoudIn(roll), triggerRun |-> run,
                  silenceRun |-> 0, voiced |-> Trigger, preRoll |-> roll,
                  fresh |-> Len(roll) <= Recent(since)]
    BY <1>1, <1>7 DEF Listened, roll, run
  <2>2. LoudIn(roll) \in Nat /\ LoudIn(roll) >= Trigger
    BY <1>2, <1>4, <1>5, <1>7, <1>0, LoudEndCounts
  <2>3. (Len(roll) <= Recent(since)) = TRUE
    BY <1>3
  <2>4. sound' \in SoundType
    BY <2>1, <2>2, <2>3, <1>2, <1>4, <1>0 DEF SoundType
  <2>5. sound'.active /\ sound'.loud >= sound'.voiced /\ sound'.frames < MaxFrames
    BY <2>1, <2>2, <1>3, <1>0, <1>2
  <2>6. sound'.fresh = TRUE
    BY <2>1, <2>3
  <2> QED
    BY <2>4, <2>5, <2>6, <1>3 DEF SoundInv
<1> QED
  BY <1>6, <1>7

LEMMA FollowedFacts ==
  ASSUME SoundInv, sound.active, NEW frame \in Loudness
  PROVE  LET s == Followed(frame) IN
         /\ s \in SoundType /\ s.active /\ s.loud >= s.voiced /\ s.frames <= MaxFrames
         /\ s.fresh = TRUE
<1>0. MaxFrames \in Nat
  BY VoiceAssumption
<1>1. /\ sound \in SoundType /\ sound.loud >= sound.voiced /\ sound.frames < MaxFrames
      /\ sound.fresh = TRUE /\ sound.loud \in Nat /\ sound.voiced \in Nat /\ sound.frames \in Nat
      /\ sound.silenceRun \in Nat
  BY DEF SoundInv, SoundType
<1>2. Followed(frame) \in SoundType
  <2>1. CASE frame = "loud"
    <3>1. Followed(frame) = [sound EXCEPT !.frames = sound.frames + 1, !.loud = sound.loud + 1,
                                          !.voiced = sound.voiced + 1, !.silenceRun = 0]
      BY <2>1 DEF Followed
    <3>2. sound.frames + 1 \in Nat /\ sound.loud + 1 \in Nat /\ sound.voiced + 1 \in Nat /\ 0 \in Nat
      BY <1>1
    <3> HIDE DEF SoundType
    <3>3. [sound EXCEPT !.frames = sound.frames + 1, !.loud = sound.loud + 1,
                        !.voiced = sound.voiced + 1, !.silenceRun = 0] \in SoundType
      BY <1>1, <3>2, CountersKeepType
    <3> QED
      BY <3>1, <3>3
  <2>2. CASE frame # "loud"
    <3>1. Followed(frame) = [sound EXCEPT !.frames = sound.frames + 1, !.loud = sound.loud,
                                          !.voiced = sound.voiced, !.silenceRun = sound.silenceRun + 1]
      BY <2>2 DEF Followed
    <3>2. sound.frames + 1 \in Nat /\ sound.silenceRun + 1 \in Nat
      BY <1>1
    <3>3. [sound EXCEPT !.frames = sound.frames + 1, !.loud = sound.loud,
                        !.voiced = sound.voiced, !.silenceRun = sound.silenceRun + 1] \in SoundType
      BY <1>1, <3>2, CountersKeepType
    <3> QED
      BY <3>1, <3>3
  <2> QED
    BY <2>1, <2>2
<1>3. DOMAIN sound = {"active", "frames", "loud", "triggerRun", "silenceRun", "voiced", "preRoll", "fresh"}
  BY <1>1 DEF SoundType
<1>4. Followed(frame).frames = sound.frames + 1
  BY <1>1, <1>3 DEF Followed
<1>5. Followed(frame).loud = IF frame = "loud" THEN sound.loud + 1 ELSE sound.loud
  BY <1>1, <1>3 DEF Followed
<1>6. Followed(frame).voiced = IF frame = "loud" THEN sound.voiced + 1 ELSE sound.voiced
  BY <1>1, <1>3 DEF Followed
<1>7. Followed(frame).active
  BY <1>1, <1>3 DEF Followed
<1>8. Followed(frame).fresh = TRUE
  BY <1>1, <1>3 DEF Followed
<1> QED
  BY <1>0, <1>1, <1>2, <1>4, <1>5, <1>6, <1>7, <1>8

LEMMA ResetFacts == Reset \in SoundType /\ ~Reset.active /\ Len(Reset.preRoll) = 0
                    /\ Reset.triggerRun = 0 /\ LoudEnd(Reset.preRoll, 0)
  BY DEF Reset, SoundType, Frames, LoudEnd

LEMMA ResetKeepsSound ==
  ASSUME SoundInv, sound' = Reset, since' \in Nat
  PROVE  SoundInv'
  BY ResetFacts, VoiceAssumption DEF SoundInv

LEMMA HearActiveKeepsSound ==
  ASSUME SoundInv, NEW frame \in Loudness, HearActive(frame)
  PROVE  SoundInv'
<1> DEFINE s == Followed(frame)
<1>1. sound.active /\ since \in Nat
  BY DEF HearActive, SoundInv
<1>2. /\ s \in SoundType /\ s.active /\ s.loud >= s.voiced /\ s.frames <= MaxFrames /\ s.fresh = TRUE
      /\ s.frames \in Nat
  BY <1>1, FollowedFacts DEF SoundType
<1> HIDE DEF s
<1>3. CASE UtteranceOver(s)
  <2>1. sound' = Reset /\ since' = 0
    BY <1>3 DEF HearActive, s
  <2> QED
    BY <2>1, ResetKeepsSound
<1>4. CASE ~UtteranceOver(s)
  <2>1. sound' = s /\ since' = since
    BY <1>4 DEF HearActive, s
  <2>2. s.frames < MaxFrames
    BY <1>2, <1>4, VoiceAssumption DEF UtteranceOver
  <2> QED
    BY <2>1, <2>2, <1>1, <1>2 DEF SoundInv
<1> QED
  BY <1>3, <1>4

LEMMA SoundStep ==
  ASSUME SoundInv, [LiveNext]_voiceVars
  PROVE  SoundInv'
<1>1. CASE \E frame \in Loudness : HearIdle(frame)
  BY <1>1, HearIdleKeepsSound
<1>2. CASE \E frame \in Loudness : HearActive(frame)
  BY <1>2, HearActiveKeepsSound
<1>3. CASE Flush
  <2>1. sound' = Reset /\ since' = since
    BY <1>3 DEF Flush
  <2> QED
    BY <2>1, ResetKeepsSound DEF SoundInv
<1>4. CASE UNCHANGED <<sound, since>>
  BY <1>4 DEF SoundInv
<1>5. CASE Offer \/ OfferTimesOut \/ CaptureFails \/ CaptureEnds
  BY <1>4, <1>5 DEF Offer, OfferTimesOut, CaptureFails, CaptureEnds, soundVars
<1>6. CASE MicrophoneDies \/ RecogniserChecks \/ RecogniserGets \/ RecogniserAnswers \/ PollVoice
  BY <1>4, <1>6 DEF MicrophoneDies, RecogniserChecks, RecogniserGets, RecogniserAnswers, PollVoice,
                    soundVars
<1>7. CASE StopBegin \/ StopTerminates \/ StopWakes
  BY <1>4, <1>7 DEF StopBegin, StopTerminates, StopWakes, soundVars
<1>8. CASE UNCHANGED voiceVars
  BY <1>4, <1>8 DEF voiceVars, soundVars
<1> QED
  BY <1>1, <1>2, <1>3, <1>5, <1>6, <1>7, <1>8 DEF LiveNext, Capture

-----------------------------------------------------------------------------
(* The ledger: where each utterance is.                                    *)

Utterances == [id : Nat, frames : Nat, loud : Nat, fresh : BOOLEAN]
Outcomes == [id : Nat, outcome : {"command", "error", "dropped", "failed"}]
Speech(u) == u.loud >= MinVoiced /\ u.frames <= MaxFrames /\ u.fresh = TRUE

LedgerType ==
  /\ cut \in Nat /\ segments \in Seq(Utterances \cup {None}) /\ offered \in Utterances \cup {None}
  /\ recognising \in Nat \cup {None}
  /\ Reported \in Seq(Outcomes) /\ results \in Seq(Outcomes) /\ polled \in Seq(Outcomes)
  /\ capturePc = "offer" <=> offered # None
  /\ recogniserPc = "recognise" <=> recognising # None

\* All that is on its way is speech, and numbered as it was cut.
Numbered ==
  /\ \A i \in DOMAIN Reported : Reported[i].id <= cut
  /\ \A i \in DOMAIN segments : segments[i] # None => segments[i].id \in 1..cut /\ Speech(segments[i])
  /\ offered # None => offered.id \in 1..cut /\ Speech(offered)
  /\ recognising # None => recognising \in 1..cut

\* Nothing is lost, and nothing is told of that is still on its way.
Somewhere ==
  \A id \in 1..cut :
    \/ \E i \in DOMAIN Reported : Reported[i].id = id
    \/ \E i \in DOMAIN segments : segments[i] # None /\ segments[i].id = id
    \/ offered # None /\ offered.id = id
    \/ recognising = id

NotTwice ==
  /\ \A i, j \in DOMAIN Reported : Reported[i].id = Reported[j].id /\ Reported[i].id # 0 => i = j
  /\ \A i \in DOMAIN Reported, j \in DOMAIN segments : segments[j] # None => Reported[i].id # segments[j].id
  /\ offered # None => \A i \in DOMAIN Reported : Reported[i].id # offered.id
  /\ recognising # None => \A i \in DOMAIN Reported : Reported[i].id # recognising

\* What is further on was cut earlier.
InLine ==
  /\ \A i, j \in DOMAIN segments :
       i < j /\ segments[i] # None /\ segments[j] # None => segments[i].id < segments[j].id
  /\ offered # None => \A i \in DOMAIN segments : segments[i] # None => segments[i].id < offered.id
  /\ recognising # None =>
       /\ \A i \in DOMAIN segments : segments[i] # None => recognising < segments[i].id
       /\ offered # None => recognising < offered.id

\* A command that was told of was cut before all that is on its way.
CommandsFirst ==
  \A i \in DOMAIN Reported : Reported[i].outcome = "command" =>
    /\ \A j \in DOMAIN segments : segments[j] # None => Reported[i].id < segments[j].id
    /\ offered # None => Reported[i].id < offered.id
    /\ recognising # None => Reported[i].id < recognising

Ledger == LedgerType /\ Numbered /\ Somewhere /\ NotTwice /\ InLine /\ CommandsFirst /\ SpokenOrder

LEMMA LedgerInit == LiveInit => Ledger /\ SoundInv
<1> SUFFICES ASSUME LiveInit PROVE Ledger /\ SoundInv
  OBVIOUS
<1>1. Reported = <<>>
  BY DEF LiveInit, Reported
<1>2. LedgerType
  BY <1>1 DEF LiveInit, LedgerType
<1>3. Numbered /\ Somewhere /\ NotTwice /\ InLine /\ CommandsFirst /\ SpokenOrder
  BY <1>1 DEF LiveInit, Numbered, Somewhere, NotTwice, InLine, CommandsFirst, SpokenOrder
<1>4. SoundInv
  BY ResetFacts, VoiceAssumption DEF LiveInit, SoundInv
<1> QED
  BY <1>2, <1>3, <1>4 DEF Ledger

LEMMA LedgerKept ==
  ASSUME Ledger, Reported' = Reported, results' \in Seq(Outcomes), polled' \in Seq(Outcomes),
         segments' = segments, offered' = offered, recognising' = recognising, cut' = cut,
         capturePc' = "offer" <=> capturePc = "offer", recogniserPc' = "recognise" <=> recogniserPc = "recognise"
  PROVE  Ledger'
  BY DEF Ledger, LedgerType, Numbered, Somewhere, NotTwice, InLine, CommandsFirst, SpokenOrder

LEMMA ReportedSteps ==
  ASSUME LedgerType
  PROVE  /\ UNCHANGED <<results, polled>> => Reported' = Reported
         /\ \A r \in Outcomes : results' = Append(results, r) /\ polled' = polled =>
              /\ Reported' = Append(Reported, r) /\ results' \in Seq(Outcomes)
         /\ polled' = polled \o results /\ results' = <<>> =>
              Reported' = Reported /\ polled' \in Seq(Outcomes) /\ results' \in Seq(Outcomes)
<1>1. results \in Seq(Outcomes) /\ polled \in Seq(Outcomes)
  BY DEF LedgerType
<1>2. ASSUME NEW r \in Outcomes, results' = Append(results, r), polled' = polled
      PROVE  Reported' = Append(Reported, r) /\ results' \in Seq(Outcomes)
  BY <1>1, <1>2 DEF Reported
<1>3. ASSUME polled' = polled \o results, results' = <<>>
      PROVE  Reported' = Reported /\ polled' \in Seq(Outcomes) /\ results' \in Seq(Outcomes)
  BY <1>1, <1>3 DEF Reported
<1> QED
  BY <1>2, <1>3 DEF Reported
LEMMA CutsType ==
  ASSUME NEW s \in SoundType, s.loud >= s.voiced, s.frames <= MaxFrames, s.fresh = TRUE,
         EnoughVoice(s), cut \in Nat
  PROVE  LET u == Utterance(s) IN u \in Utterances /\ u.id = cut + 1 /\ Speech(u) /\ u # None
<1>1. s.frames \in Nat /\ s.loud \in Nat /\ s.voiced \in Nat /\ MinVoiced \in Nat
  BY VoiceAssumption DEF SoundType
<1>2. Utterance(s) \in Utterances
  <2>1. cut + 1 \in Nat
    OBVIOUS
  <2> QED
    BY <1>1, <2>1 DEF Utterance, Utterances
<1>3. Speech(Utterance(s)) /\ Utterance(s).id = cut + 1
  BY <1>1 DEF Speech, Utterance, EnoughVoice
<1>4. None \notin Utterances
  BY VoiceAssumption DEF Utterances
<1> QED
  BY <1>2, <1>3, <1>4

LEMMA LedgerFacts ==
  ASSUME Ledger
  PROVE  /\ cut \in Nat
         /\ Reported \in Seq(Outcomes) /\ DOMAIN Reported = 1..Len(Reported) /\ Len(Reported) \in Nat
         /\ \A i \in DOMAIN Reported : Reported[i].id \in Nat /\ Reported[i].id <= cut
         /\ \A i \in DOMAIN segments : segments[i] # None =>
              segments[i].id \in Nat /\ 1 <= segments[i].id /\ segments[i].id <= cut
         /\ offered # None => offered.id \in Nat /\ 1 <= offered.id /\ offered.id <= cut
         /\ recognising # None => recognising \in Nat /\ 1 <= recognising /\ recognising <= cut
<1>1. cut \in Nat /\ Reported \in Seq(Outcomes)
  BY DEF Ledger, LedgerType
<1>2. DOMAIN Reported = 1..Len(Reported) /\ Len(Reported) \in Nat
  BY <1>1
<1>3. \A i \in DOMAIN Reported : Reported[i] \in Outcomes
  BY <1>1, <1>2
<1>4. \A i \in DOMAIN Reported : Reported[i].id \in Nat
  BY <1>3 DEF Outcomes
<1>5. \A i \in DOMAIN Reported : Reported[i].id <= cut
  BY DEF Ledger, Numbered
<1>6. \A i \in DOMAIN segments : segments[i] # None => segments[i].id \in 1..cut
  BY DEF Ledger, Numbered
<1>7. offered # None => offered.id \in 1..cut
  BY DEF Ledger, Numbered
<1>8. recognising # None => recognising \in 1..cut
  BY DEF Ledger, Numbered
<1> QED
  BY <1>1, <1>2, <1>4, <1>5, <1>6, <1>7, <1>8

LEMMA CutKeepsLedger ==
  ASSUME Ledger, NEW u \in Utterances, u.id = cut + 1, Speech(u), u # None, offered = None,
         offered' = u, cut' = cut + 1, capturePc' = "offer", UNCHANGED <<segments, recogniserPc, recognising, results, polled>>
  PROVE  Ledger'
<1>1. Reported' = Reported
  BY ReportedSteps DEF Ledger
<1>2. LedgerType'
  BY <1>1 DEF Ledger, LedgerType
<1>3. Numbered'
  <2>1. cut' = cut + 1 /\ cut \in Nat
    BY LedgerFacts
  <2>2. /\ \A i \in DOMAIN Reported : Reported[i].id <= cut'
        /\ \A i \in DOMAIN segments : segments[i] # None => segments[i].id \in 1..cut'
        /\ recognising # None => recognising \in 1..cut'
        /\ u.id \in 1..cut'
    BY <2>1, LedgerFacts
  <2>3. \A i \in DOMAIN segments : segments[i] # None => Speech(segments[i])
    BY DEF Ledger, Numbered
  <2> QED
    BY <1>1, <2>2, <2>3 DEF Numbered
<1>4. Somewhere'
  <2> SUFFICES ASSUME NEW id \in 1..(cut + 1), id # cut + 1
               PROVE  \/ \E i \in DOMAIN Reported : Reported[i].id = id
                      \/ \E i \in DOMAIN segments : segments[i] # None /\ segments[i].id = id
                      \/ recognising = id
    BY <1>1 DEF Somewhere
  <2>1. id \in 1..cut
    BY LedgerFacts
  <2> QED
    BY <2>1 DEF Ledger, Somewhere
<1>5. NotTwice'
  <2>1. \A i \in DOMAIN Reported : Reported[i].id # u.id
    BY LedgerFacts
  <2> QED
    BY <1>1, <2>1 DEF Ledger, NotTwice
<1>6. InLine'
  <2>1. /\ \A i \in DOMAIN segments : segments[i] # None => segments[i].id < u.id
        /\ recognising # None => recognising < u.id
    BY LedgerFacts
  <2> QED
    BY <1>1, <2>1 DEF Ledger, InLine
<1>7. CommandsFirst' /\ SpokenOrder'
  <2>1. \A i \in DOMAIN Reported : Reported[i].id < u.id
    BY LedgerFacts
  <2> QED
    BY <1>1, <2>1 DEF Ledger, CommandsFirst, SpokenOrder
<1> QED
  BY <1>2, <1>3, <1>4, <1>5, <1>6, <1>7 DEF Ledger

\* What is put at the end of the queue: an utterance cut now, the one offered, or the sentinel.
LEMMA QueuedKeepsLedger ==
  ASSUME Ledger, NEW u \in Utterances \cup {None}, segments' = Append(segments, u),
         UNCHANGED <<recogniserPc, recognising, results, polled>>,
         \/ /\ u # None /\ u = offered /\ cut' = cut
            /\ offered' = None /\ capturePc' # "offer"
         \/ /\ u # None /\ offered = None /\ u.id = cut + 1 /\ Speech(u) /\ cut' = cut + 1
            /\ offered' = None /\ capturePc' # "offer"
         \/ u = None /\ UNCHANGED <<offered, capturePc, cut>>
  PROVE  Ledger'
<1>1. Reported' = Reported
  BY ReportedSteps DEF Ledger
<1>2. /\ segments \in Seq(Utterances \cup {None}) /\ cut \in Nat
      /\ DOMAIN segments = 1..Len(segments) /\ Len(segments) \in Nat
      /\ DOMAIN segments' = 1..(Len(segments) + 1)
      /\ segments'[Len(segments) + 1] = u
      /\ \A i \in 1..Len(segments) : segments'[i] = segments[i]
      /\ segments' \in Seq(Utterances \cup {None})
  BY DEF Ledger, LedgerType
<1>3. LedgerType'
  BY <1>1, <1>2 DEF Ledger, LedgerType
<1>4. u # None => /\ u.id \in 1..cut' /\ Speech(u)
                  /\ \A i \in DOMAIN segments : segments[i] # None => segments[i].id < u.id
                  /\ \A i \in DOMAIN Reported : Reported[i].id # u.id
                  /\ recognising # None => recognising < u.id
                  /\ \A i \in DOMAIN Reported : Reported[i].outcome = "command" => Reported[i].id < u.id
  <2>1. CASE u # None /\ u = offered /\ cut' = cut
    BY <2>1, LedgerFacts DEF Ledger, Numbered, NotTwice, InLine, CommandsFirst
  <2>2. CASE u # None /\ offered = None /\ u.id = cut + 1 /\ Speech(u) /\ cut' = cut + 1
    BY <2>2, LedgerFacts
  <2>3. CASE u = None
    BY <2>3
  <2> QED
    BY <2>1, <2>2, <2>3
<1>5. Numbered'
  <2>1. cut' \in Nat /\ cut <= cut'
    BY LedgerFacts
  <2>2. /\ \A i \in DOMAIN Reported : Reported[i].id <= cut'
        /\ \A i \in DOMAIN segments : segments[i] # None => segments[i].id \in 1..cut'
        /\ recognising # None => recognising \in 1..cut'
    BY <2>1, LedgerFacts
  <2>3. \A i \in DOMAIN segments : segments[i] # None => Speech(segments[i])
    BY DEF Ledger, Numbered
  <2>4. \A i \in DOMAIN segments' : segments'[i] # None => segments'[i].id \in 1..cut' /\ Speech(segments'[i])
    BY <1>2, <1>4, <2>2, <2>3
  <2>5. offered' # None => offered' = offered /\ cut' = cut
    OBVIOUS
  <2>6. offered' # None => offered'.id \in 1..cut' /\ Speech(offered')
    BY <2>5 DEF Ledger, Numbered
  <2> QED
    BY <1>1, <2>2, <2>4, <2>6 DEF Numbered
<1>6. Somewhere'
  <2> SUFFICES ASSUME NEW id \in 1..cut'
               PROVE  \/ \E i \in DOMAIN Reported : Reported[i].id = id
                      \/ \E i \in DOMAIN segments' : segments'[i] # None /\ segments'[i].id = id
                      \/ offered' # None /\ offered'.id = id
                      \/ recognising = id
    BY <1>1 DEF Somewhere
  <2>1. CASE u # None /\ u.id = id
    BY <2>1, <1>2
  <2>2. CASE ~(u # None /\ u.id = id)
    <3>1. id \in 1..cut /\ (offered # None /\ offered.id = id => offered' = offered)
      BY <2>2, <1>2
    <3>2. \A i \in DOMAIN segments : i \in DOMAIN segments' /\ segments'[i] = segments[i]
      BY <1>2
    <3> QED
      BY <3>1, <3>2 DEF Ledger, Somewhere
  <2> QED
    BY <2>1, <2>2
<1>7. NotTwice'
  BY <1>1, <1>2, <1>4 DEF Ledger, NotTwice
<1>8. InLine'
  BY <1>1, <1>2, <1>4 DEF Ledger, InLine
<1>9. CommandsFirst' /\ SpokenOrder'
  BY <1>1, <1>2, <1>4 DEF Ledger, CommandsFirst, SpokenOrder
<1> QED
  BY <1>3, <1>5, <1>6, <1>7, <1>8, <1>9 DEF Ledger

\* What is told of: an utterance that found no room, one recognised, or a failure of the thread.
LEMMA ToldKeepsLedger ==
  ASSUME Ledger, NEW r \in Outcomes, results' = Append(results, r), polled' = polled,
         UNCHANGED <<segments, cut>>, offered' \in {offered, None}, recognising' \in {recognising, None},
         capturePc' = "offer" <=> offered' # None, recogniserPc' = "recognise" <=> recognising' # None,
         \/ /\ offered # None /\ r.id = offered.id /\ r.outcome = "dropped"
            /\ offered' = None /\ recognising' = recognising
         \/ recognising # None /\ r.id = recognising /\ recognising' = None /\ offered' = offered
         \/ r.id = 0 /\ r.outcome = "failed" /\ offered' = offered /\ recognising' = recognising
  PROVE  Ledger'
<1> DEFINE n == Len(Reported)
<1>1. Reported' = Append(Reported, r) /\ results' \in Seq(Outcomes)
  BY ReportedSteps DEF Ledger
<1>2. /\ Reported \in Seq(Outcomes) /\ DOMAIN Reported = 1..n /\ n \in Nat
      /\ Reported' \in Seq(Outcomes) /\ DOMAIN Reported' = 1..(n + 1) /\ Reported'[n + 1] = r
      /\ \A i \in 1..n : Reported'[i] = Reported[i] /\ Reported[i] \in Outcomes
  BY <1>1 DEF Ledger, LedgerType
<1> HIDE DEF n
<1>3. LedgerType'
  BY <1>1, <1>2 DEF Ledger, LedgerType
<1>4. /\ r.id \in Nat /\ r.id <= cut
      /\ r.id # 0 => /\ \A i \in DOMAIN Reported : Reported[i].id # r.id
                     /\ \A i \in DOMAIN segments : segments[i] # None => segments[i].id # r.id
                     /\ offered' # None => offered.id # r.id
                     /\ recognising' # None => recognising # r.id
      /\ r.outcome = "command" =>
           /\ \A i \in DOMAIN Reported : Reported[i].outcome = "command" => Reported[i].id < r.id
           /\ \A i \in DOMAIN segments : segments[i] # None => r.id < segments[i].id
           /\ offered' # None => r.id < offered.id
           /\ recognising' = None
  BY DEF Ledger, LedgerType, Numbered, NotTwice, InLine, CommandsFirst, Outcomes, Utterances
<1>5. Numbered'
  <2>1. \A i \in DOMAIN Reported' : Reported'[i].id <= cut
    BY <1>2, <1>4, LedgerFacts
  <2> QED
    BY <2>1 DEF Ledger, Numbered
<1>6. Somewhere'
  <2> SUFFICES ASSUME NEW id \in 1..cut
               PROVE  \/ \E i \in DOMAIN Reported' : Reported'[i].id = id
                      \/ \E i \in DOMAIN segments : segments[i] # None /\ segments[i].id = id
                      \/ offered' # None /\ offered'.id = id
                      \/ recognising' = id
    BY DEF Somewhere
  <2>1. CASE r.id = id
    BY <2>1, <1>2
  <2>2. CASE r.id # id
    <3>1. \A i \in DOMAIN Reported : i \in DOMAIN Reported' /\ Reported'[i] = Reported[i]
      BY <1>2
    <3>2. (offered # None /\ offered.id = id) => offered' = offered
      BY <2>2
    <3>3. recognising = id => recognising' = id
      BY <2>2
    <3> QED
      BY <3>1, <3>2, <3>3 DEF Ledger, Somewhere
  <2> QED
    BY <2>1, <2>2
<1>7. NotTwice'
  <2>1. \A i, j \in DOMAIN Reported' : Reported'[i].id = Reported'[j].id /\ Reported'[i].id # 0 => i = j
    BY <1>2, <1>4 DEF Ledger, NotTwice
  <2>2. \A i \in DOMAIN Reported', j \in DOMAIN segments :
          segments[j] # None => Reported'[i].id # segments[j].id
    BY <1>2, <1>4, LedgerFacts DEF Ledger, NotTwice
  <2>3. offered' # None => \A i \in DOMAIN Reported' : Reported'[i].id # offered'.id
    BY <1>2, <1>4, LedgerFacts DEF Ledger, NotTwice
  <2>4. recognising' # None => \A i \in DOMAIN Reported' : Reported'[i].id # recognising'
    BY <1>2, <1>4, LedgerFacts DEF Ledger, NotTwice
  <2> QED
    BY <2>1, <2>2, <2>3, <2>4 DEF NotTwice
<1>8. InLine'
  BY <1>2, <1>4 DEF Ledger, InLine
<1>9. CommandsFirst'
  BY <1>2, <1>4 DEF Ledger, CommandsFirst
<1>10. SpokenOrder'
  BY <1>2, <1>4 DEF Ledger, SpokenOrder
<1> QED
  BY <1>3, <1>5, <1>6, <1>7, <1>8, <1>9, <1>10 DEF Ledger

LEMMA GetsKeepsLedger ==
  ASSUME Ledger, RecogniserGets
  PROVE  Ledger'
<1>1. Reported' = Reported
  BY ReportedSteps DEF Ledger, RecogniserGets
<1>2. /\ segments \in Seq(Utterances \cup {None}) /\ cut \in Nat
      /\ DOMAIN segments = 1..Len(segments) /\ Len(segments) \in Nat
      /\ \A i \in 1..Len(segments) : segments[i] \in Utterances \cup {None}
      /\ recogniserPc = "get" /\ recognising = None
      /\ UNCHANGED <<offered, capturePc, cut, results, polled>>
  BY DEF Ledger, LedgerType, RecogniserGets
<1>3. CASE segments = <<>>
  BY <1>1, <1>2, <1>3, LedgerKept DEF RecogniserGets, Ledger, LedgerType
<1>4. CASE segments # <<>>
  <2>1. /\ segments' \in Seq(Utterances \cup {None}) /\ Len(segments) >= 1
        /\ DOMAIN segments' = 1..(Len(segments) - 1)
        /\ \A i \in 1..(Len(segments) - 1) : segments'[i] = segments[i + 1]
        /\ Head(segments) = segments[1]
    BY <1>2, <1>4 DEF RecogniserGets
  <2>2. \/ segments[1] = None /\ recogniserPc' = "ended" /\ recognising' = None
        \/ /\ segments[1] # None /\ recogniserPc' = "recognise" /\ recognising' = segments[1].id
           /\ recognising' \in Nat /\ recognising' # None /\ recognising' \in 1..cut
    BY <1>2, <1>4, <2>1, VoiceAssumption DEF RecogniserGets, Ledger, Numbered
  <2>3. LedgerType'
    BY <1>1, <1>2, <2>1, <2>2 DEF Ledger, LedgerType
  <2>4. Numbered'
    BY <1>1, <1>2, <2>1, <2>2 DEF Ledger, Numbered
  <2>5. Somewhere'
    <3> SUFFICES ASSUME NEW id \in 1..cut
                 PROVE  \/ \E i \in DOMAIN Reported : Reported[i].id = id
                        \/ \E i \in DOMAIN segments' : segments'[i] # None /\ segments'[i].id = id
                        \/ offered # None /\ offered.id = id
                        \/ recognising' = id
      BY <1>1, <1>2 DEF Somewhere
    <3>1. ASSUME NEW i \in DOMAIN segments, segments[i] # None, segments[i].id = id
          PROVE  \/ \E k \in DOMAIN segments' : segments'[k] # None /\ segments'[k].id = id
                 \/ recognising' = id
      <4>1. CASE i = 1
        BY <3>1, <4>1, <2>2
      <4>2. CASE i # 1
        <5>1. i - 1 \in 1..(Len(segments) - 1) /\ (i - 1) + 1 = i
          BY <4>2, <1>2
        <5>2. segments'[i - 1] = segments[i]
          BY <5>1, <2>1
        <5> QED
          BY <5>1, <5>2, <2>1, <3>1
      <4> QED
        BY <4>1, <4>2
    <3> QED
      BY <3>1, <1>2, VoiceAssumption DEF Ledger, Somewhere
  <2>p. \A i \in DOMAIN segments' : i + 1 \in DOMAIN segments /\ segments'[i] = segments[i + 1] /\ 1 < i + 1
    BY <1>2, <2>1
  <2>h. 1 \in DOMAIN segments
    BY <1>2, <2>1
  <2>6. NotTwice'
    BY <1>1, <1>2, <2>p, <2>h, <2>2 DEF Ledger, NotTwice
  <2>7. InLine'
    <3>1. \A i, j \in DOMAIN segments' :
            i < j /\ segments'[i] # None /\ segments'[j] # None => segments'[i].id < segments'[j].id
      <4> SUFFICES ASSUME NEW i \in DOMAIN segments', NEW j \in DOMAIN segments', i < j,
                          segments'[i] # None, segments'[j] # None
                   PROVE  segments'[i].id < segments'[j].id
        OBVIOUS
      <4>1. i + 1 < j + 1
        BY <2>1
      <4> QED
        BY <4>1, <2>p DEF Ledger, InLine
    <3>2. offered' # None => \A i \in DOMAIN segments' : segments'[i] # None => segments'[i].id < offered'.id
      BY <1>2, <2>p DEF Ledger, InLine
    <3>3. recognising' # None =>
            \A i \in DOMAIN segments' : segments'[i] # None => recognising' < segments'[i].id
      BY <2>2, <2>p, <2>h DEF Ledger, InLine
    <3>4. recognising' # None /\ offered' # None => recognising' < offered'.id
      BY <1>2, <2>2, <2>h DEF Ledger, InLine
    <3> QED
      BY <3>1, <3>2, <3>3, <3>4 DEF InLine
  <2>8. CommandsFirst' /\ SpokenOrder'
    <3>1. CommandsFirst'
      BY <1>1, <1>2, <2>p, <2>h, <2>2 DEF Ledger, CommandsFirst
    <3>2. SpokenOrder'
      BY <1>1 DEF Ledger, SpokenOrder
    <3> QED
      BY <3>1, <3>2
  <2> QED
    BY <2>3, <2>4, <2>5, <2>6, <2>7, <2>8 DEF Ledger
<1> QED
  BY <1>3, <1>4
LEMMA HearActiveKeepsLedger ==
  ASSUME Ledger, SoundInv, NEW frame \in Loudness, HearActive(frame)
  PROVE  Ledger'
<1> DEFINE s == Followed(frame)
<1>1. /\ sound.active /\ capturePc = "read" /\ offered = None
      /\ UNCHANGED <<recogniserPc, recognising, segments, results, polled>>
  BY DEF HearActive, Reading, queueVars, Ledger, LedgerType
<1>2. /\ s \in SoundType /\ s.loud >= s.voiced /\ s.frames <= MaxFrames /\ s.fresh = TRUE
  BY <1>1, FollowedFacts
<1> HIDE DEF s
<1>3. CASE UtteranceOver(s) /\ EnoughVoice(s)
  <2>1. offered' = Utterance(s) /\ cut' = cut + 1 /\ capturePc' = "offer"
    BY <1>3 DEF HearActive, s
  <2>2. cut \in Nat
    BY LedgerFacts
  <2>3. Utterance(s) \in Utterances /\ Utterance(s).id = cut + 1 /\ Speech(Utterance(s)) /\ Utterance(s) # None
    BY <1>2, <1>3, <2>2, CutsType
  <2> QED
    BY <1>1, <2>1, <2>3, CutKeepsLedger
<1>4. CASE ~(UtteranceOver(s) /\ EnoughVoice(s))
  <2>1. UNCHANGED <<capturePc, offered, cut>>
    BY <1>4 DEF HearActive, s
  <2>2. Reported' = Reported
    BY <1>1, ReportedSteps DEF Ledger
  <2> QED
    BY <1>1, <2>1, <2>2, LedgerKept DEF Ledger, LedgerType
<1> QED
  BY <1>3, <1>4

LEMMA FlushKeepsLedger ==
  ASSUME Ledger, SoundInv, Flush
  PROVE  Ledger'
<1>1. /\ capturePc = "flush" /\ capturePc' = "ended" /\ offered = None /\ offered' = None
      /\ UNCHANGED <<recogniserPc, recognising, results, polled>>
  BY DEF Flush, Ledger, LedgerType
<1>2. CASE sound.active /\ EnoughVoice(sound) /\ ~stopping /\ ~SegmentsFull
  <2>1. segments' = Append(segments, Utterance(sound)) /\ cut' = cut + 1
    BY <1>2 DEF Flush
  <2>2. /\ sound \in SoundType /\ sound.loud >= sound.voiced /\ sound.frames <= MaxFrames
        /\ sound.fresh = TRUE /\ cut \in Nat
    BY <1>2, VoiceAssumption, LedgerFacts DEF SoundInv, SoundType
  <2>3. /\ Utterance(sound) \in Utterances /\ Utterance(sound).id = cut + 1
        /\ Speech(Utterance(sound)) /\ Utterance(sound) # None
    BY <1>2, <2>2, CutsType
  <2> QED
    BY <1>1, <2>1, <2>3, QueuedKeepsLedger
<1>3. CASE ~(sound.active /\ EnoughVoice(sound) /\ ~stopping /\ ~SegmentsFull)
  <2>1. UNCHANGED <<segments, cut>>
    BY <1>3 DEF Flush
  <2>2. Reported' = Reported
    BY <1>1, ReportedSteps DEF Ledger
  <2> QED
    BY <1>1, <2>1, <2>2, LedgerKept DEF Ledger, LedgerType
<1> QED
  BY <1>2, <1>3

LEMMA QuietKeepsLedger ==
  ASSUME Ledger, UNCHANGED <<segments, offered, recognising, cut, results, polled>>,
         capturePc' = "offer" <=> capturePc = "offer",
         recogniserPc' = "recognise" <=> recogniserPc = "recognise"
  PROVE  Ledger'
<1>1. Reported' = Reported
  BY ReportedSteps DEF Ledger
<1> QED
  BY <1>1, LedgerKept DEF Ledger, LedgerType

LEMMA LedgerStep ==
  ASSUME Ledger, SoundInv, [LiveNext]_voiceVars
  PROVE  Ledger'
<1>1. CASE \E frame \in Loudness : HearIdle(frame)
  BY <1>1, QuietKeepsLedger DEF HearIdle, threadVars, queueVars
<1>2. CASE \E frame \in Loudness : HearActive(frame)
  BY <1>2, HearActiveKeepsLedger
<1>3. CASE Offer
  <2>1. /\ offered # None /\ offered \in Utterances /\ segments' = Append(segments, offered)
        /\ offered' = None /\ capturePc' = "read" /\ cut' = cut
        /\ UNCHANGED <<recogniserPc, recognising, results, polled>>
    BY <1>3 DEF Offer, Ledger, LedgerType
  <2> QED
    BY <2>1, QueuedKeepsLedger
<1>4. CASE OfferTimesOut
  <2> DEFINE r == [id |-> offered.id, outcome |-> "dropped"]
  <2>1. /\ offered # None /\ results' = Append(results, r) /\ offered' = None /\ capturePc' = "read"
        /\ UNCHANGED <<recogniserPc, recognising, segments, polled, cut>>
    BY <1>4 DEF OfferTimesOut, Ledger, LedgerType
  <2>2. r \in Outcomes /\ r.id = offered.id /\ r.outcome = "dropped"
    BY <2>1, LedgerFacts DEF Outcomes
  <2>3. recogniserPc = "recognise" <=> recognising # None
    BY DEF Ledger, LedgerType
  <2> HIDE DEF r
  <2> QED
    BY <2>1, <2>2, <2>3, ToldKeepsLedger
<1>5. CASE CaptureFails
  <2> DEFINE r == [id |-> 0, outcome |-> "failed"]
  <2>1. /\ results' = Append(results, r) /\ capturePc' = "flush" /\ offered = None
        /\ UNCHANGED <<offered, recogniserPc, recognising, segments, polled, cut>>
    BY <1>5 DEF CaptureFails, Reading, Ledger, LedgerType
  <2>2. r \in Outcomes /\ r.id = 0 /\ r.outcome = "failed"
    BY DEF Outcomes
  <2>3. recogniserPc = "recognise" <=> recognising # None
    BY DEF Ledger, LedgerType
  <2> HIDE DEF r
  <2> QED
    BY <2>1, <2>2, <2>3, ToldKeepsLedger
<1>6. CASE CaptureEnds
  BY <1>6, QuietKeepsLedger DEF CaptureEnds, queueVars
<1>7. CASE Flush
  BY <1>7, FlushKeepsLedger
<1>8. CASE MicrophoneDies \/ StopBegin \/ StopTerminates \/ UNCHANGED voiceVars
  BY <1>8, QuietKeepsLedger DEF MicrophoneDies, StopBegin, StopTerminates, threadVars, queueVars, voiceVars
<1>9. CASE RecogniserChecks
  BY <1>9, QuietKeepsLedger DEF RecogniserChecks, queueVars
<1>10. CASE RecogniserGets
  BY <1>10, GetsKeepsLedger
<1>11. CASE RecogniserAnswers
  <2>1. PICK outcome \in {"command", "error"} :
          results' = Append(results, [id |-> recognising, outcome |-> outcome])
    BY <1>11 DEF RecogniserAnswers
  <2> DEFINE r == [id |-> recognising, outcome |-> outcome]
  <2>2. /\ recognising # None /\ recognising' = None /\ recogniserPc' = "check"
        /\ UNCHANGED <<capturePc, offered, segments, polled, cut>>
    BY <1>11 DEF RecogniserAnswers, Ledger, LedgerType
  <2>3. r \in Outcomes /\ r.id = recognising
    BY <2>2, LedgerFacts DEF Outcomes
  <2>4. capturePc = "offer" <=> offered # None
    BY DEF Ledger, LedgerType
  <2> HIDE DEF r
  <2> QED
    BY <2>1, <2>2, <2>3, <2>4, ToldKeepsLedger DEF r
<1>12. CASE PollVoice
  <2>1. /\ polled' = polled \o results /\ results' = <<>>
        /\ UNCHANGED <<capturePc, offered, recogniserPc, recognising, segments, cut>>
    BY <1>12 DEF PollVoice, threadVars
  <2>2. Reported' = Reported /\ polled' \in Seq(Outcomes) /\ results' \in Seq(Outcomes)
    BY <2>1, ReportedSteps DEF Ledger
  <2> QED
    BY <2>1, <2>2, LedgerKept DEF Ledger, LedgerType
<1>13. CASE StopWakes
  <2>1. UNCHANGED <<capturePc, offered, recogniserPc, recognising, results, polled, cut>>
    BY <1>13 DEF StopWakes, threadVars
  <2>2. CASE SegmentsFull
    BY <1>13, <2>1, <2>2, QuietKeepsLedger DEF StopWakes
  <2>3. CASE ~SegmentsFull
    <3>1. segments' = Append(segments, None)
      BY <1>13, <2>3 DEF StopWakes
    <3> QED
      BY <2>1, <3>1, QueuedKeepsLedger
  <2> QED
    BY <2>2, <2>3
<1> QED
  BY <1>1, <1>2, <1>3, <1>4, <1>5, <1>6, <1>7, <1>8, <1>9, <1>10, <1>11, <1>12, <1>13 DEF LiveNext, Capture

LEMMA LedgerSuffices == Ledger => LiveSound
<1> SUFFICES ASSUME Ledger PROVE LiveSound
  OBVIOUS
<1>1. SpeechOnly
  BY DEF SpeechOnly, OnTheWay, Ledger, Numbered, Speech
<1>2. ToldOnce
  <2> SUFFICES ASSUME NEW id \in 1..cut PROVE \E place \in Places(id) : Places(id) = {place}
    BY DEF ToldOnce
  <2> DEFINE Reports == {i \in DOMAIN Reported : Reported[i].id = id}
             Queued == {i \in DOMAIN segments : segments[i] # None /\ segments[i].id = id}
             Offering == offered # None /\ offered.id = id
             Recognised == recognising = id
  <2>0. id \in Nat /\ id # 0 /\ id # None
    BY LedgerFacts, VoiceAssumption
  <2>1. \A i, j \in Reports : i = j
    BY <2>0 DEF Ledger, NotTwice
  <2>2. \A i, j \in Queued : i = j
    <3> SUFFICES ASSUME NEW i \in Queued, NEW j \in Queued, i # j PROVE FALSE
      OBVIOUS
    <3>1. i \in Nat /\ j \in Nat
      BY DEF Ledger, LedgerType
    <3>2. i < j \/ j < i
      BY <3>1
    <3> QED
      BY <3>2, <2>0 DEF Ledger, InLine
  <2>3. Reports # {} => Queued = {} /\ ~Offering /\ ~Recognised
    BY <2>0 DEF Ledger, NotTwice
  <2>4. Queued # {} => ~Offering /\ ~Recognised
    BY <2>0 DEF Ledger, InLine
  <2>5. Offering => ~Recognised
    BY <2>0 DEF Ledger, InLine
  <2>6. Reports # {} \/ Queued # {} \/ Offering \/ Recognised
    BY DEF Ledger, Somewhere
  <2>7. Places(id) = {<<"reported", i>> : i \in Reports} \cup {<<"queued", i>> : i \in Queued}
                       \cup {<<"offered", i>> : i \in {i \in {0} : Offering}}
                       \cup {<<"recognising", i>> : i \in {i \in {0} : Recognised}}
    BY DEF Places
  <2> HIDE DEF Reports, Queued, Offering, Recognised
  <2>8. CASE Reports # {}
    <3>1. PICK i \in Reports : TRUE
      BY <2>8
    <3>2. Places(id) = {<<"reported", i>>}
      BY <3>1, <2>1, <2>3, <2>7
    <3> QED
      BY <3>2
  <2>9. CASE Reports = {} /\ Queued # {}
    <3>1. PICK i \in Queued : TRUE
      BY <2>9
    <3>2. Places(id) = {<<"queued", i>>}
      BY <3>1, <2>2, <2>4, <2>7, <2>9
    <3> QED
      BY <3>2
  <2>10. CASE Reports = {} /\ Queued = {} /\ Offering
    <3>1. Places(id) = {<<"offered", 0>>}
      BY <2>10, <2>5, <2>7
    <3> QED
      BY <3>1
  <2>11. CASE Reports = {} /\ Queued = {} /\ ~Offering
    <3>1. Places(id) = {<<"recognising", 0>>}
      BY <2>11, <2>6, <2>7
    <3> QED
      BY <3>1
  <2> QED
    BY <2>8, <2>9, <2>10, <2>11
<1> QED
  BY <1>1, <1>2 DEF LiveSound, Ledger

\* Whatever is full, fails or stops, each utterance cut is speech, has one result or is on its
\* way to it, and the commands reach the runner in the order they were spoken.
THEOREM MicrophoneIsSound == LiveInit /\ [][LiveNext]_voiceVars => []LiveSound
<1>1. LiveInit => Ledger /\ SoundInv
  BY LedgerInit
<1>2. Ledger /\ SoundInv /\ [LiveNext]_voiceVars => Ledger' /\ SoundInv'
  BY LedgerStep, SoundStep
<1>3. Ledger => LiveSound
  BY LedgerSuffices
<1> QED
  BY <1>1, <1>2, <1>3, PTL
-----------------------------------------------------------------------------
(* What is understood.                                                     *)

\* A set of positions or of rules has a first one.
LEMMA FirstOfNaturals ==
  ASSUME NEW S \in SUBSET Nat, S # {}
  PROVE  First(S) \in S /\ \A i \in S : First(S) <= i
<1> DEFINE Less == OpToRel(<, Nat)
<1>1. IsWellFoundedOn(Less, Nat)
  BY NatLessThanWellFounded, Zenon
<1>2. Less = {ss \in Nat \X Nat : ss[1] < ss[2]}
  BY Zenon DEF OpToRel
<1> HIDE DEF Less
<1>3. PICK m \in S : \A k \in S : ~(<<k, m>> \in Less)
  BY <1>1, WFMin, Zenon
<1>4. \A k \in S : ~(k < m)
  BY <1>2, <1>3
<1>5. \A k \in S : m <= k
  BY <1>4
<1> QED
  BY <1>5, Zenon DEF First

\* The intent is that of a rule that fits when none before it does.
LEMMA IntentIsARule ==
  ASSUME NEW u, NEW shout
  PROVE  \E rule \in 1..12 :
           /\ Intent(u, shout) = Rules[rule] /\ Fits(rule, u, shout)
           /\ \A earlier \in 1..12 : earlier < rule => ~Fits(earlier, u, shout)
<1> DEFINE S == {rule \in 1..12 : Fits(rule, u, shout)}
<1>1. 12 \in S /\ S \in SUBSET Nat
  BY DEF Fits
<1>2. First(S) \in S /\ \A i \in S : First(S) <= i
  BY <1>1, FirstOfNaturals
<1>3. \A earlier \in 1..12 : earlier < First(S) => ~Fits(earlier, u, shout)
  <2> SUFFICES ASSUME NEW earlier \in 1..12, earlier < First(S), earlier \in S PROVE FALSE
    OBVIOUS
  <2>1. First(S) <= earlier /\ First(S) \in 1..12
    BY <1>2
  <2> HIDE DEF S
  <2> QED
    BY <2>1
<1> QED
  BY <1>2, <1>3 DEF Intent

LEMMA IntentFacts ==
  ASSUME NEW u, NEW shout
  PROVE  /\ Intent(u, shout) \in {"UNKNOWN", "KEEP_LANE", "EMERGENCY_STOP", "PULL_OVER", "SET_SPEED",
                                  "AVOID_OBSTACLE", "TURN", "CHANGE_LANE", "SPEED_UP", "SLOW_DOWN", "STOP"}
         /\ Intent(u, shout) = "SET_SPEED" => SetsSpeed(u)
         /\ Negated(u) => Intent(u, shout) = "UNKNOWN"
         /\ KeepsLane(u) => Intent(u, shout) \in {"UNKNOWN", "KEEP_LANE"}
<1>1. PICK rule \in 1..12 :
        /\ Intent(u, shout) = Rules[rule] /\ Fits(rule, u, shout)
        /\ \A earlier \in 1..12 : earlier < rule => ~Fits(earlier, u, shout)
  BY IntentIsARule
<1>2. \/ rule = 1 \/ rule = 2 \/ rule = 3 \/ rule = 4 \/ rule = 5 \/ rule = 6 \/ rule = 7
      \/ rule = 8 \/ rule = 9 \/ rule = 10 \/ rule = 11 \/ rule = 12
  OBVIOUS
<1>3. Intent(u, shout) \in {"UNKNOWN", "KEEP_LANE", "EMERGENCY_STOP", "PULL_OVER", "SET_SPEED",
                           "AVOID_OBSTACLE", "TURN", "CHANGE_LANE", "SPEED_UP", "SLOW_DOWN", "STOP"}
  BY <1>1, <1>2 DEF Rules
<1>4. ASSUME Intent(u, shout) = "SET_SPEED" PROVE SetsSpeed(u)
  <2>1. rule = 5
    BY <1>1, <1>2, <1>4 DEF Rules
  <2> QED
    BY <1>1, <2>1 DEF Fits
<1>5. ASSUME Negated(u) PROVE Intent(u, shout) = "UNKNOWN"
  <2>1. Fits(1, u, shout)
    BY <1>5 DEF Fits
  <2>2. rule = 1
    BY <1>1, <1>2, <2>1
  <2> QED
    BY <1>1, <2>2 DEF Rules
<1>6. ASSUME KeepsLane(u) PROVE Intent(u, shout) \in {"UNKNOWN", "KEEP_LANE"}
  <2>1. Fits(2, u, shout)
    BY <1>6 DEF Fits
  <2>2. rule = 1 \/ rule = 2
    BY <1>1, <1>2, <2>1
  <2> QED
    BY <1>1, <2>2 DEF Rules
<1> QED
  BY <1>3, <1>4, <1>5, <1>6

LEMMA IntentType ==
  ASSUME NEW u, NEW shout
  PROVE  Intent(u, shout) \in Meanings
  BY IntentIsARule DEF Meanings

LEMMA DirectionFacts ==
  ASSUME NEW u, NEW intent
  PROVE  /\ Direction(u) \in {"CONFLICT", "LEFT", "RIGHT", "STRAIGHT", "NONE"}
         /\ DirectionOf(u, intent) \in {"CONFLICT", "LEFT", "RIGHT", "STRAIGHT", "NONE", "AUTO"}
         /\ intent \in {"CHANGE_LANE", "TURN", "PULL_OVER", "AVOID_OBSTACLE"} /\ Direction(u) = "CONFLICT"
              => DirectionOf(u, intent) = "CONFLICT"
         /\ intent \in {"PULL_OVER", "AVOID_OBSTACLE"} => DirectionOf(u, intent) # "NONE"
<1>1. Direction(u) \in {"CONFLICT", "LEFT", "RIGHT", "STRAIGHT", "NONE"}
  BY DEF Direction
<1>2. intent = "PULL_OVER" =>
        DirectionOf(u, intent) = IF Direction(u) \in {"NONE", "STRAIGHT"} THEN "RIGHT" ELSE Direction(u)
  BY DEF DirectionOf
<1>3. intent = "AVOID_OBSTACLE" =>
        DirectionOf(u, intent) = IF Direction(u) \in {"NONE", "STRAIGHT"} THEN "AUTO" ELSE Direction(u)
  BY DEF DirectionOf
<1>4. intent = "CHANGE_LANE" =>
        DirectionOf(u, intent) = IF Direction(u) \in {"NONE", "STRAIGHT"} THEN "NONE" ELSE Direction(u)
  BY DEF DirectionOf
<1>5. intent = "TURN" => DirectionOf(u, intent) = Direction(u)
  BY DEF DirectionOf
<1>6. intent \notin {"PULL_OVER", "AVOID_OBSTACLE", "CHANGE_LANE", "TURN"} => DirectionOf(u, intent) = "NONE"
  BY DEF DirectionOf
<1> QED
  BY <1>1, <1>2, <1>3, <1>4, <1>5, <1>6

LEMMA SpeedFacts ==
  ASSUME NEW u \in Seq(STRING), NEW intent
  PROVE  /\ SpeedOf(u, intent) \in {None, 30, 90}
         /\ intent = "SET_SPEED" /\ SetsSpeed(u) => SpeedOf(u, intent) # None
<1> DEFINE numbers == {i \in DOMAIN u : u[i] \in Numbers}
<1>0. None \notin Int
  BY NoCommandAssumption
<1>1. numbers \in SUBSET Nat
  OBVIOUS
<1>2. ASSUME numbers # {} PROVE Kmh(u[First(numbers)]) \in {30, 90}
  <2>1. First(numbers) \in numbers
    BY <1>1, <1>2, FirstOfNaturals
  <2> QED
    BY <2>1 DEF Kmh, Numbers
<1>3. SetsSpeed(u) => numbers # {}
  BY DEF SetsSpeed, Then
<1> HIDE DEF numbers
<1>4. SpeedOf(u, intent) = IF /\ numbers # {}
                              /\ \/ intent = "SET_SPEED"
                                 \/ intent \in {"SPEED_UP", "SLOW_DOWN"} /\ ~Has(u, {"abit"})
                           THEN Kmh(u[First(numbers)]) ELSE None
  BY DEF SpeedOf, numbers
<1> QED
  BY <1>0, <1>2, <1>3, <1>4

\* What a valid parse says: an intent, at most one direction and one where it is needed, and no
\* speed above the most that may be driven.
LEMMA UnderstoodFacts ==
  ASSUME NEW u \in Seq(STRING), NEW shout, NEW score
  PROVE  LET p == Understood(u, shout, score) IN
         /\ p.intent = Intent(u, shout) /\ p.intent \in Meanings
         /\ p.direction \in Directions /\ p.speed \in Int \cup {None}
         /\ p.status = "valid" =>
              /\ p.intent # "UNKNOWN"
              /\ p.intent \in {"CHANGE_LANE", "TURN", "PULL_OVER", "AVOID_OBSTACLE"} =>
                   p.direction \notin {"NONE", "CONFLICT"} /\ Direction(u) # "CONFLICT"
              /\ p.intent = "SET_SPEED" => p.speed # None
              /\ p.speed # None => p.speed \in 0..MaxSpeed
<1> DEFINE intent == Intent(u, shout)
           status == Status(u, intent, score)
           direction == DirectionOf(u, intent)
           speed == SpeedOf(u, intent)
<1>0. None \notin Int
  BY NoCommandAssumption
<1>1. /\ intent \in {"UNKNOWN", "KEEP_LANE", "EMERGENCY_STOP", "PULL_OVER", "SET_SPEED",
                     "AVOID_OBSTACLE", "TURN", "CHANGE_LANE", "SPEED_UP", "SLOW_DOWN", "STOP"}
      /\ intent = "SET_SPEED" => SetsSpeed(u)
  BY IntentFacts
<1>2. /\ direction \in {"CONFLICT", "LEFT", "RIGHT", "STRAIGHT", "NONE", "AUTO"}
      /\ intent \in {"CHANGE_LANE", "TURN", "PULL_OVER", "AVOID_OBSTACLE"} /\ Direction(u) = "CONFLICT"
              => direction = "CONFLICT"
      /\ intent \in {"PULL_OVER", "AVOID_OBSTACLE"} => direction # "NONE"
  BY DirectionFacts
<1>3. /\ speed \in {None, 30, 90}
      /\ intent = "SET_SPEED" /\ SetsSpeed(u) => speed # None
  BY SpeedFacts
<1>4. status = "valid" => /\ intent # "UNKNOWN" /\ direction # "CONFLICT"
                          /\ ~(intent \in {"CHANGE_LANE", "TURN"} /\ direction = "NONE")
                          /\ ~(speed # None /\ speed > MaxSpeed)
  BY DEF Status
<1>5. Understood(u, shout, score) =
        [intent |-> intent, status |-> status,
         direction |-> IF status \in {"valid", "unsafe"} THEN direction ELSE "NONE",
         speed |-> IF status \in {"valid", "unsafe"} THEN speed ELSE None]
  BY DEF Understood
<1> HIDE DEF intent, status, direction, speed
<1>6. /\ Understood(u, shout, score).intent = intent /\ Understood(u, shout, score).status = status
      /\ Understood(u, shout, score).direction = IF status \in {"valid", "unsafe"} THEN direction ELSE "NONE"
      /\ Understood(u, shout, score).speed = IF status \in {"valid", "unsafe"} THEN speed ELSE None
  BY <1>5
<1>7. speed # None /\ ~(speed > MaxSpeed) => speed \in 0..MaxSpeed
  BY <1>3 DEF MaxSpeed
<1>8. Understood(u, shout, score).intent = Intent(u, shout) /\ Intent(u, shout) \in Meanings
  BY <1>6, IntentType DEF intent
<1>9. Understood(u, shout, score).direction \in Directions
  BY <1>2, <1>6 DEF Directions
<1>10. Understood(u, shout, score).speed \in Int \cup {None}
  BY <1>3, <1>6
<1>11. status = "valid" => /\ Understood(u, shout, score).direction = direction
                           /\ Understood(u, shout, score).speed = speed
  BY <1>6
<1>12. status = "valid" => /\ intent # "UNKNOWN"
                           /\ intent \in {"CHANGE_LANE", "TURN", "PULL_OVER", "AVOID_OBSTACLE"} =>
                                direction \notin {"NONE", "CONFLICT"} /\ Direction(u) # "CONFLICT"
  BY <1>2, <1>4
<1>13. status = "valid" => /\ intent = "SET_SPEED" => speed # None
                           /\ speed # None => speed \in 0..MaxSpeed
  BY <1>1, <1>3, <1>4, <1>7
<1> QED
  BY <1>6, <1>8, <1>9, <1>10, <1>11, <1>12, <1>13
LEMMA HearingsFacts ==
  ASSUME NEW u \in Seq(STRING), NEW h \in Hearings(u)
  PROVE  h \in Seq(STRING)
<1>0. DOMAIN u = 1..Len(u)
  OBVIOUS
<1>1. \/ h = u
      \/ \E i \in DOMAIN u : h = SubSeq(u, 1, i - 1) \o SubSeq(u, i + 1, Len(u))
      \/ \E i \in DOMAIN u : \E p \in Confused : h = [u EXCEPT ![i] = p[2]]
  <2>1. \/ h \in {u}
        \/ h \in {SubSeq(u, 1, i - 1) \o SubSeq(u, i + 1, Len(u)) : i \in DOMAIN u}
        \/ h \in UNION {{[u EXCEPT ![i] = p[2]] : p \in {q \in Confused : q[1] = u[i]}} : i \in DOMAIN u}
    BY Zenon DEF Hearings
  <2>2. CASE h \in UNION {{[u EXCEPT ![i] = p[2]] : p \in {q \in Confused : q[1] = u[i]}} : i \in DOMAIN u}
    <3>1. PICK i \in DOMAIN u : h \in {[u EXCEPT ![i] = p[2]] : p \in {q \in Confused : q[1] = u[i]}}
      BY <2>2, Zenon
    <3>2. PICK p \in {q \in Confused : q[1] = u[i]} : h = [u EXCEPT ![i] = p[2]]
      BY <3>1, Zenon
    <3> QED
      BY <3>2
  <2>3. CASE h \in {SubSeq(u, 1, i - 1) \o SubSeq(u, i + 1, Len(u)) : i \in DOMAIN u}
    BY <2>3, Zenon
  <2> QED
    BY <2>1, <2>2, <2>3
<1>2. ASSUME NEW i \in 1..Len(u), h = SubSeq(u, 1, i - 1) \o SubSeq(u, i + 1, Len(u))
      PROVE  h \in Seq(STRING)
  <2>1. SubSeq(u, 1, i - 1) \in Seq(STRING) /\ SubSeq(u, i + 1, Len(u)) \in Seq(STRING)
    BY SubSeqProperties
  <2> QED
    BY <1>2, <2>1
<1>3. ASSUME NEW i \in 1..Len(u), NEW p \in Confused, h = [u EXCEPT ![i] = p[2]]
      PROVE  h \in Seq(STRING)
  <2>1. p[2] \in STRING
    BY SpeechAssumption
  <2> QED
    BY <1>3, <2>1
<1> QED
  BY <1>0, <1>1, <1>2, <1>3

\* The command is what was understood of what was heard, but for the confirmation it may need.
ParsedFrom(u) ==
  \E shout \in {FALSE, said.shout}, score \in {"fine", "low"} :
    LET p == Understood(u, shout, score) IN
      /\ command.intent = p.intent /\ command.status = p.status
      /\ command.direction = p.direction /\ command.speed = p.speed

\* One recogniser alone decides only on a stop or the lane, or where both agree.
TwoAgree ==
  \/ command.intent \in {"STOP", "EMERGENCY_STOP", "KEEP_LANE"}
  \/ second # None /\ (~second.sure \/ Signature(second) = Signature(command))

SpeechInv ==
  /\ speechPc \in {"said", "parsed", "done"}
  /\ said \in Sayings /\ said.words \in Seq(STRING) /\ heard \in Seq(STRING)
  /\ speechPc # "said" => /\ ParsedFrom(heard)
                          /\ DOMAIN command = {"intent", "status", "direction", "speed", "confirm"}
  /\ speechPc # "said" /\ ~command.confirm => command.status = "valid"
  /\ Acts => TwoAgree

LEMMA RecogniseKeeps ==
  ASSUME SpeechInv, Recognise
  PROVE  SpeechInv'
<1>1. PICK u \in Hearings(said.words), shout \in {FALSE, said.shout}, score \in {"fine", "low"} :
        /\ heard' = u
        /\ command' = [intent |-> Understood(u, shout, score).intent,
                       status |-> Understood(u, shout, score).status,
                       direction |-> Understood(u, shout, score).direction,
                       speed |-> Understood(u, shout, score).speed,
                       confirm |-> Understood(u, shout, score).status # "valid"]
  BY DEF Recognise
<1>2. speechPc' = "parsed" /\ said' = said /\ heard' \in Seq(STRING)
  BY <1>1, HearingsFacts DEF Recognise, SpeechInv
<1>3. ParsedFrom(heard)'
  BY <1>1, <1>2 DEF ParsedFrom
<1>4. ~command'.confirm => command'.status = "valid"
  BY <1>1
<1>5. DOMAIN command' = {"intent", "status", "direction", "speed", "confirm"}
  BY <1>1
<1> QED
  BY <1>2, <1>3, <1>4, <1>5 DEF SpeechInv, Acts

LEMMA NotVerifiedKeeps ==
  ASSUME SpeechInv, NotVerified
  PROVE  SpeechInv'
<1>1. /\ speechPc = "parsed" /\ speechPc' = "done" /\ UNCHANGED <<said, heard, second, command>>
      /\ command.intent \notin Risky
      /\ command.status # "valid" => command.intent = "UNKNOWN"
  BY DEF NotVerified, NeedsVerification
<1>2. PICK shout \in {FALSE, said.shout}, score \in {"fine", "low"} :
        LET p == Understood(heard, shout, score) IN
          command.intent = p.intent /\ command.status = p.status
  BY <1>1 DEF SpeechInv, ParsedFrom
<1>3. heard \in Seq(STRING)
  BY DEF SpeechInv
<1>4. command.intent = Intent(heard, shout) /\ (command.status = "valid" => command.intent # "UNKNOWN")
  BY <1>2, <1>3, UnderstoodFacts
<1>5. command.status = "valid" => command.intent \in {"STOP", "EMERGENCY_STOP", "KEEP_LANE"}
  BY <1>1, <1>4, IntentFacts DEF Risky
<1>6. ParsedFrom(heard)'
  BY <1>1 DEF SpeechInv, ParsedFrom
<1>7. Acts' => TwoAgree'
  BY <1>1, <1>5 DEF SpeechInv, Acts, TwoAgree
<1> QED
  BY <1>1, <1>6, <1>7 DEF SpeechInv

LEMMA VerifiedKeeps ==
  ASSUME SpeechInv, Verified
  PROVE  SpeechInv'
<1>1. PICK u \in Hearings(said.words), shout \in {FALSE, said.shout},
           calibrated \in {"none", "low", "doubtful", "sure"} :
        LET other == Understood(u, shout, IF calibrated = "low" THEN "low" ELSE "fine") IN
          /\ command' = [command EXCEPT !.confirm =
                            \/ @
                            \/ /\ Signature(command) # Signature(other)
                               /\ calibrated = "sure"
                               /\ command.intent \notin {"STOP", "EMERGENCY_STOP"}]
          /\ second' = [intent |-> other.intent, direction |-> other.direction,
                        speed |-> other.speed, sure |-> calibrated = "sure"]
  BY DEF Verified
<1> DEFINE other == Understood(u, shout, IF calibrated = "low" THEN "low" ELSE "fine")
<1>2. speechPc = "parsed" /\ speechPc' = "done" /\ UNCHANGED <<said, heard>>
  BY DEF Verified
<1>3. u \in Seq(STRING)
  BY HearingsFacts DEF SpeechInv
<1>4. other.intent \in Meanings /\ other.direction \in Directions /\ other.speed \in Int \cup {None}
  BY <1>3, UnderstoodFacts
<1> HIDE DEF other
<1>5. second' # None
  <2>1. second' \in [intent : Meanings, direction : Directions, speed : Int \cup {None}, sure : BOOLEAN]
    BY <1>1, <1>4 DEF other
  <2> QED
    BY <2>1, NoCommandAssumption
<1>6. command' = [command EXCEPT !.confirm =
                    \/ command.confirm
                    \/ /\ Signature(command) # Signature(other)
                       /\ calibrated = "sure"
                       /\ command.intent \notin {"STOP", "EMERGENCY_STOP"}]
  BY <1>1 DEF other
<1>7. DOMAIN command = {"intent", "status", "direction", "speed", "confirm"}
  BY <1>2 DEF SpeechInv
<1>8. /\ command'.intent = command.intent /\ command'.status = command.status
      /\ command'.direction = command.direction /\ command'.speed = command.speed
      /\ DOMAIN command' = DOMAIN command
  BY <1>6, <1>7
<1>9. ASSUME ~command'.confirm
      PROVE  /\ ~command.confirm
             /\ \/ Signature(command) = Signature(other) \/ calibrated # "sure"
                \/ command.intent \in {"STOP", "EMERGENCY_STOP"}
  BY <1>6, <1>7, <1>9
<1>10. /\ second'.intent = other.intent /\ second'.direction = other.direction
       /\ second'.speed = other.speed
  BY <1>1 DEF other
<1>11. calibrated # "sure" => ~second'.sure
  BY <1>1
<1>12. Signature(second)' = Signature(other) /\ Signature(command)' = Signature(command)
  BY <1>8, <1>10 DEF Signature
<1>13. ParsedFrom(heard)'
  BY <1>2, <1>8 DEF SpeechInv, ParsedFrom
<1>14. ~command'.confirm => command'.status = "valid"
  BY <1>2, <1>8, <1>9 DEF SpeechInv
<1>15. ~command'.confirm => TwoAgree'
  BY <1>5, <1>8, <1>9, <1>11, <1>12 DEF TwoAgree
<1> QED
  BY <1>2, <1>7, <1>8, <1>13, <1>14, <1>15 DEF SpeechInv, Acts

LEMMA VerifierFailsKeeps ==
  ASSUME SpeechInv, VerifierFails
  PROVE  SpeechInv'
<1>1. /\ speechPc = "parsed" /\ speechPc' = "done" /\ UNCHANGED <<said, heard, second>>
      /\ command' = [command EXCEPT !.confirm = TRUE]
      /\ DOMAIN command = {"intent", "status", "direction", "speed", "confirm"}
  BY DEF VerifierFails, SpeechInv
<1>2. /\ command'.intent = command.intent /\ command'.status = command.status
      /\ command'.direction = command.direction /\ command'.speed = command.speed
      /\ DOMAIN command' = DOMAIN command
  BY <1>1
<1>3. command'.confirm
  BY <1>1
<1>4. ParsedFrom(heard)'
  BY <1>1, <1>2 DEF SpeechInv, ParsedFrom
<1> QED
  BY <1>1, <1>2, <1>3, <1>4 DEF SpeechInv, Acts

LEMMA SpeechStep ==
  ASSUME SpeechInv, [SpeechNext]_speechVars
  PROVE  SpeechInv'
<1>1. CASE UNCHANGED speechVars
  BY <1>1 DEF speechVars, SpeechInv, ParsedFrom, Acts, TwoAgree, Signature
<1> QED
  BY <1>1, RecogniseKeeps, NotVerifiedKeeps, VerifiedKeeps, VerifierFailsKeeps DEF SpeechNext

LEMMA SpeechInvHolds == SpeechInit => SpeechInv
  BY SpeechAssumption DEF SpeechInit, SpeechInv, Acts

LEMMA SpeechSuffices == SpeechInv => SpeechSound
<1> SUFFICES ASSUME SpeechInv PROVE SpeechSound
  OBVIOUS
<1>1. TwoMishear
  BY DEF SpeechInv, TwoAgree, TwoMishear
<1>2. ASSUME Acts
      PROVE  \E shout \in {FALSE, said.shout}, score \in {"fine", "low"} :
               LET p == Understood(heard, shout, score) IN
                 /\ command.intent = p.intent /\ command.status = p.status
                 /\ command.direction = p.direction /\ command.speed = p.speed /\ p.status = "valid"
  BY <1>2 DEF SpeechInv, ParsedFrom, Acts
<1>3. heard \in Seq(STRING)
  BY DEF SpeechInv
<1>4. ActsOnlyComplete
  <2> SUFFICES ASSUME Acts
               PROVE  /\ command.status = "valid" /\ command.intent # "UNKNOWN"
                      /\ command.intent \in {"CHANGE_LANE", "TURN", "PULL_OVER", "AVOID_OBSTACLE"} =>
                           command.direction \notin {"NONE", "CONFLICT"} /\ Direction(heard) # "CONFLICT"
                      /\ command.intent = "SET_SPEED" => command.speed # None
                      /\ command.speed # None => command.speed \in 0..MaxSpeed
    BY DEF ActsOnlyComplete
  <2>1. PICK shout \in {FALSE, said.shout}, score \in {"fine", "low"} :
          LET p == Understood(heard, shout, score) IN
            /\ command.intent = p.intent /\ command.status = p.status
            /\ command.direction = p.direction /\ command.speed = p.speed /\ p.status = "valid"
    BY <1>2
  <2> DEFINE p == Understood(heard, shout, score)
  <2>2. /\ p.intent # "UNKNOWN"
        /\ p.intent \in {"CHANGE_LANE", "TURN", "PULL_OVER", "AVOID_OBSTACLE"} =>
             p.direction \notin {"NONE", "CONFLICT"} /\ Direction(heard) # "CONFLICT"
        /\ p.intent = "SET_SPEED" => p.speed # None
        /\ p.speed # None => p.speed \in 0..MaxSpeed
    BY <2>1, <1>3, UnderstoodFacts
  <2>3. /\ command.intent = p.intent /\ command.status = "valid"
        /\ command.direction = p.direction /\ command.speed = p.speed
    BY <2>1
  <2> HIDE DEF p
  <2> QED
    BY <2>2, <2>3
<1>5. Forbidden
  <2> SUFFICES ASSUME Acts, heard = said.words
               PROVE  /\ ~Then(heard, {"not"}, {"stop", "brake", "faster"})
                      /\ Then(heard, {"not"}, {"change"}) => command.intent = "KEEP_LANE"
    BY DEF Forbidden
  <2>1. PICK shout \in {FALSE, said.shout} : command.intent = Intent(heard, shout) /\ command.intent # "UNKNOWN"
    <3>1. PICK shout \in {FALSE, said.shout}, score \in {"fine", "low"} :
            LET p == Understood(heard, shout, score) IN command.intent = p.intent /\ p.status = "valid"
      BY <1>2
    <3>2. /\ Understood(heard, shout, score).intent = Intent(heard, shout)
          /\ Understood(heard, shout, score).intent # "UNKNOWN"
      BY <3>1, <1>3, UnderstoodFacts
    <3> QED
      BY <3>1, <3>2
  <2>2. ~Negated(heard)
    BY <2>1, IntentFacts
  <2>3. {"stop", "brake", "faster"} = Halting \cup {"faster"}
    BY DEF Halting
  <2>4. ~Then(heard, {"not"}, {"stop", "brake", "faster"})
    BY <2>2, <2>3 DEF Negated
  <2>5. Then(heard, {"not"}, {"change"}) => KeepsLane(heard)
    BY DEF KeepsLane
  <2> QED
    BY <2>1, <2>4, <2>5, IntentFacts
<1> QED
  BY <1>1, <1>4, <1>5 DEF SpeechSound

\* A command that needs no confirmation is complete, does nothing that was forbidden, and was not
\* misheard by one recogniser alone unless it is a stop or keeps the lane.
THEOREM UnderstandingIsSound == SpeechInit /\ [][SpeechNext]_speechVars => []SpeechSound
<1>1. SpeechInit => SpeechInv
  BY SpeechInvHolds
<1>2. SpeechInv /\ [SpeechNext]_speechVars => SpeechInv'
  BY SpeechStep
<1>3. SpeechInv => SpeechSound
  BY SpeechSuffices
<1> QED
  BY <1>1, <1>2, <1>3, PTL

\* From the sound to the command: what the run of the voice checks, for every microphone, queue
\* and set of sayings.
THEOREM VoiceIsSound ==
  /\ SpeechInit /\ [][SpeechNext]_speechVars
  /\ LiveInit /\ [][LiveNext]_voiceVars
  => []VoiceSound
<1>1. SpeechSound /\ LiveSound => VoiceSound
  BY DEF VoiceSound
<1> QED
  BY <1>1, UnderstandingIsSound, MicrophoneIsSound, PTL
=============================================================================
