------------------------ MODULE CommandRuntimeProofs ------------------------
(***************************************************************************)
(* Theorems about CommandRuntime, for every set of commands, whatever they *)
(* ask for and however often they are delivered.                           *)
(*                                                                         *)
(* First what the operations of BehaviorFSM do to a lifecycle record: none  *)
(* of them invents a holder, and a command loses its holder and gains its   *)
(* end together.  From these follows Owner, the ownership invariant, one    *)
(* action at a time; from Owner the other invariants.                      *)
(***************************************************************************)
EXTENDS CommandRuntime, TLAPS

(* What the operations of the FSM do.                                      *)

\* _finish removes the holders it is given and ends exactly their commands.
LEMMA FinishFacts ==
  ASSUME NEW f \in Fsm, NEW gone \in SUBSET f.holders, NEW status \in [gone -> Ended]
  PROVE  /\ Finish(f, gone, status) \in Fsm
         /\ Finish(f, gone, status).holders = f.holders \ gone
         /\ \A c \in Command :
              /\ f.terminal[c] # "NONE" => Finish(f, gone, status).terminal[c] = f.terminal[c]
              /\ Finish(f, gone, status).terminal[c] = "NONE"
                   <=> f.terminal[c] = "NONE" /\ c \notin Ids(gone)
              /\ f.terminal[c] = "NONE" /\ c \in Ids(gone) =>
                   \E h \in gone : h.id = c /\ Finish(f, gone, status).terminal[c] = status[h]
<1> DEFINE g == Finish(f, gone, status)
<1>1. ASSUME NEW c \in Command, f.terminal[c] = "NONE", c \in Ids(gone)
      PROVE  \E h \in gone : h.id = c /\ g.terminal[c] = status[h]
  <2>1. \E h \in gone : h.id = c
    BY <1>1 DEF Ids
  <2>2. (CHOOSE h \in gone : h.id = c) \in gone /\ (CHOOSE h \in gone : h.id = c).id = c
    BY <2>1
  <2> QED BY <1>1, <2>2 DEF Finish
<1>2. ASSUME NEW c \in Command, ~(f.terminal[c] = "NONE" /\ c \in Ids(gone))
      PROVE  g.terminal[c] = f.terminal[c]
  BY <1>2 DEF Finish
<1>3. "NONE" \notin Ended
  BY DEF Ended
<1>4. f.holders \in SUBSET Holder /\ f.terminal \in [Command -> Ended \cup {"NONE"}]
      /\ f.behaviour \in Behaviours
  BY DEF Fsm
<1>5. g.holders = f.holders \ gone
  BY DEF Finish
<1>6. g.terminal \in [Command -> Ended \cup {"NONE"}]
  <2>1. g.terminal = [c \in Command |-> g.terminal[c]]
    BY DEF Finish
  <2>2. \A c \in Command : g.terminal[c] \in Ended \cup {"NONE"}
    BY <1>1, <1>2, <1>4
  <2> QED BY <2>1, <2>2
<1>7. g.behaviour \in Behaviours
  BY <1>4 DEF Finish, Behaviours
<1>8. g \in Fsm
  <2>1. g = [holders |-> g.holders, terminal |-> g.terminal, behaviour |-> g.behaviour]
    BY DEF Finish
  <2>2. g.holders \in SUBSET Holder
    BY <1>4, <1>5
  <2> HIDE DEF g
  <2> QED BY <2>1, <2>2, <1>6, <1>7 DEF Fsm
<1> QED BY <1>1, <1>2, <1>3, <1>5, <1>8

LEMMA DueFacts == ASSUME NEW h PROVE Due(h) \in {"EXPIRED", "TIMED_OUT", "NONE"}
BY DEF Due

\* complete, fail, safety_override and a declined confirm: the command's holder goes, its
\* end comes, elapsed authority first, and no other command is touched.
LEMMA EndFacts ==
  ASSUME NEW f \in Fsm, NEW c \in Command, NEW outcome \in Ended
  PROVE  /\ End(f, c, outcome) \in Fsm
         /\ End(f, c, outcome).holders = {h \in f.holders : h.id # c}
         /\ \A d \in Command :
              /\ f.terminal[d] # "NONE" => End(f, c, outcome).terminal[d] = f.terminal[d]
              /\ End(f, c, outcome).terminal[d] = "NONE"
                   <=> f.terminal[d] = "NONE" /\ ~(d = c /\ c \in Ids(f.holders))
              /\ f.terminal[d] = "NONE" /\ d = c /\ c \in Ids(f.holders) =>
                   \E h \in f.holders :
                      h.id = c /\ End(f, c, outcome).terminal[c] = Verdict(h, outcome)
<1> DEFINE gone == {h \in f.holders : h.id = c}
<1> DEFINE status == [h \in gone |-> Verdict(h, outcome)]
<1>1. status \in [gone -> Ended]
  <2>1. \A h \in gone : Verdict(h, outcome) \in Ended
    BY DueFacts DEF Verdict, Ended
  <2> QED BY <2>1
<1>2. End(f, c, outcome) = Finish(f, gone, status)
  BY DEF End
<1>3. \A d : d \in Ids(gone) <=> d = c /\ c \in Ids(f.holders)
  BY DEF Ids
<1>4. f.holders \ gone = {h \in f.holders : h.id # c}
  OBVIOUS
<1>5. gone \in SUBSET f.holders
  OBVIOUS
<1>6. \A h \in gone : status[h] = Verdict(h, outcome)
  OBVIOUS
<1> HIDE DEF status
<1> HIDE DEF gone
<1> DEFINE g == Finish(f, gone, status)
<1>7. /\ g \in Fsm /\ g.holders = f.holders \ gone
      /\ \A d \in Command :
           /\ f.terminal[d] # "NONE" => g.terminal[d] = f.terminal[d]
           /\ g.terminal[d] = "NONE" <=> f.terminal[d] = "NONE" /\ d \notin Ids(gone)
           /\ f.terminal[d] = "NONE" /\ d \in Ids(gone) =>
                \E h \in gone : h.id = d /\ g.terminal[d] = status[h]
  BY <1>1, <1>5, FinishFacts
<1> HIDE DEF g
<1>8. g \in Fsm /\ g.holders = {h \in f.holders : h.id # c}
  BY <1>4, <1>7
<1>9. ASSUME NEW d \in Command
      PROVE  /\ f.terminal[d] # "NONE" => g.terminal[d] = f.terminal[d]
             /\ g.terminal[d] = "NONE" <=> f.terminal[d] = "NONE" /\ ~(d = c /\ c \in Ids(f.holders))
  BY <1>3, <1>7
<1>10. ASSUME f.terminal[c] = "NONE", c \in Ids(f.holders)
       PROVE  \E h \in f.holders : h.id = c /\ g.terminal[c] = Verdict(h, outcome)
  <2>1. PICK h \in gone : h.id = c /\ g.terminal[c] = status[h]
    BY <1>3, <1>7, <1>10
  <2> QED BY <1>5, <1>6, <2>1
<1>11. End(f, c, outcome) = g
  BY <1>2 DEF g
<1> QED BY <1>8, <1>9, <1>10, <1>11

\* tick: the holders that are due go, and their commands end as they are due.
LEMMA ExpireFacts ==
  ASSUME NEW f \in Fsm
  PROVE  /\ Expire(f) \in Fsm
         /\ Expire(f).holders = {h \in f.holders : Due(h) = "NONE"}
         /\ \A d \in Command :
              /\ f.terminal[d] # "NONE" => Expire(f).terminal[d] = f.terminal[d]
              /\ Expire(f).terminal[d] = "NONE"
                   <=> /\ f.terminal[d] = "NONE"
                       /\ d \notin Ids({h \in f.holders : Due(h) # "NONE"})
              /\ f.terminal[d] = "NONE" /\ Expire(f).terminal[d] # "NONE" =>
                   \E h \in f.holders : h.id = d /\ Due(h) # "NONE" /\ Expire(f).terminal[d] = Due(h)
<1> DEFINE gone == {h \in f.holders : Due(h) # "NONE"}
<1> DEFINE status == [h \in gone |-> Due(h)]
<1>1. status \in [gone -> Ended]
  <2>1. \A h \in gone : Due(h) \in Ended
    BY DueFacts DEF Ended
  <2> QED BY <2>1
<1>2. Expire(f) = Finish(f, gone, status)
  BY DEF Expire
<1>3. f.holders \ gone = {h \in f.holders : Due(h) = "NONE"}
  OBVIOUS
<1>4. gone \in SUBSET f.holders
  OBVIOUS
<1>5. \A h \in gone : status[h] = Due(h)
  OBVIOUS
<1> HIDE DEF status
<1>6. gone = {h \in f.holders : Due(h) # "NONE"}
  OBVIOUS
<1> HIDE DEF gone
<1> DEFINE g == Finish(f, gone, status)
<1>7. /\ g \in Fsm /\ g.holders = f.holders \ gone
      /\ \A d \in Command :
           /\ f.terminal[d] # "NONE" => g.terminal[d] = f.terminal[d]
           /\ g.terminal[d] = "NONE" <=> f.terminal[d] = "NONE" /\ d \notin Ids(gone)
           /\ f.terminal[d] = "NONE" /\ d \in Ids(gone) =>
                \E h \in gone : h.id = d /\ g.terminal[d] = status[h]
  BY <1>1, <1>4, FinishFacts
<1> HIDE DEF g
<1>8. g \in Fsm /\ g.holders = {h \in f.holders : Due(h) = "NONE"}
  BY <1>3, <1>7
<1>9. ASSUME NEW d \in Command
      PROVE  /\ f.terminal[d] # "NONE" => g.terminal[d] = f.terminal[d]
             /\ g.terminal[d] = "NONE" <=> f.terminal[d] = "NONE" /\ d \notin Ids(gone)
  BY <1>7
<1>10. ASSUME NEW d \in Command, f.terminal[d] = "NONE", g.terminal[d] # "NONE"
       PROVE  \E h \in f.holders : h.id = d /\ Due(h) # "NONE" /\ g.terminal[d] = Due(h)
  <2>1. PICK h \in gone : h.id = d /\ g.terminal[d] = status[h]
    BY <1>7, <1>10
  <2> QED BY <1>5, <1>6, <2>1
<1>11. Expire(f) = g
  BY <1>2 DEF g
<1> QED BY <1>6, <1>8, <1>9, <1>10, <1>11

LEMMA EnvelopeType ==
  ASSUME NEW c \in Command
  PROVE  /\ Envelope[c].action \in Actions /\ Envelope[c].gated \in BOOLEAN
         /\ Envelope[c].plan \in BOOLEAN /\ Envelope[c].target \in Speeds
         /\ Envelope[c].life \in Nat
BY EnvelopeAssumption

LEMMA StateForType == ASSUME NEW a \in Actions PROVE StateFor(a) \in Behaviours
BY DEF StateFor, Actions, Behaviours

\* submit of a new command over an empty record, and of one that already holds.
LEMMA AdmitFacts ==
  ASSUME NEW f \in Fsm, NEW c \in Command, Ids(f.holders) \in {{}, {c}}
  PROVE  /\ Admit(f, c) \in Fsm
         /\ Ids(Admit(f, c).holders) = {c}
         /\ Admit(f, c).terminal = f.terminal
         /\ (\A g, h \in f.holders : g = h) => \A g, h \in Admit(f, c).holders : g = h
<1>1. CASE c \in Ids(f.holders)
  BY <1>1 DEF Admit
<1>2. CASE c \notin Ids(f.holders)
  <2> DEFINE h == [id |-> c, left |-> Envelope[c].life, age |-> 0]
  <2> DEFINE g == Finish(f, f.holders, [x \in f.holders |-> "FAILED"])
  <2>1. f.holders = {} /\ Ids(f.holders) = {}
    BY <1>2 DEF Ids
  <2>2. g \in Fsm
    <3>1. [x \in f.holders |-> "FAILED"] \in [f.holders -> Ended]
      BY DEF Ended
    <3> QED BY <3>1, FinishFacts
  <2>3. g.terminal = f.terminal
    <3>1. g.terminal = [d \in Command |-> f.terminal[d]]
      BY <2>1 DEF Finish
    <3> QED BY <3>1 DEF Fsm
  <2>4. Admit(f, c) = [g EXCEPT !.holders = {h},
                                !.behaviour = IF Envelope[c].gated THEN "CONFIRMING"
                                              ELSE StateFor(Envelope[c].action)]
    BY <1>2 DEF Admit
  <2>5. h \in Holder
    BY EnvelopeType, TimeoutAssumption DEF Holder
  <2>6. (IF Envelope[c].gated THEN "CONFIRMING" ELSE StateFor(Envelope[c].action)) \in Behaviours
    BY EnvelopeType, StateForType DEF Behaviours
  <2> DEFINE b == IF Envelope[c].gated THEN "CONFIRMING" ELSE StateFor(Envelope[c].action)
  <2>9. {h} \in SUBSET Holder
    BY <2>5
  <2>10. Ids({h}) = {c}
    BY DEF Ids
  <2> HIDE DEF g, h, b
  <2>7. Admit(f, c) \in Fsm
    BY <2>2, <2>4, <2>6, <2>9 DEF Fsm, b
  <2>8. Admit(f, c).holders = {h} /\ Admit(f, c).terminal = f.terminal
    BY <2>2, <2>3, <2>4 DEF Fsm
  <2> QED BY <2>7, <2>8, <2>10
<1> QED BY <1>1, <1>2

\* Feedback is made of ends.
LEMMA FeedbackType ==
  ASSUME NEW f \in Fsm, NEW c \in Command
  PROVE  Feedback(f, c) \in SUBSET (Command \X Ended)
BY DEF Feedback, Fsm
-----------------------------------------------------------------------------
(* Ownership.                                                              *)

\* The FSM keeps its holders under their ids, and there is one holder at most.
OneHolder == \A g, h \in fsm.holders : g = h

Owner == TypeOK /\ OneOwner /\ EndedNeverReturns /\ OneHolder

Feedbacks == SUBSET (Command \X Ended)

\* Ending the command in force, in whatever way, leaves the vehicle without a holder.
LEMMA EndActive ==
  ASSUME Owner, active # None, NEW outcome \in Ended
  PROVE  /\ active.id \in Command
         /\ End(fsm, active.id, outcome) \in Fsm
         /\ End(fsm, active.id, outcome).holders = {}
         /\ End(fsm, active.id, outcome).terminal[active.id] # "NONE"
         /\ Feedback(End(fsm, active.id, outcome), active.id) \in Feedbacks
<1>1. active.id \in Command /\ fsm \in Fsm
  BY DEF Owner, TypeOK, Order
<1>2. \A h \in fsm.holders : h.id = active.id
  BY DEF Owner, OneOwner, Ids
<1>3. active.id \in Ids(fsm.holders)
  BY DEF Owner, OneOwner
<1> DEFINE g == End(fsm, active.id, outcome)
<1>4. /\ g \in Fsm /\ g.holders = {h \in fsm.holders : h.id # active.id}
      /\ g.terminal[active.id] # "NONE"
  BY <1>1, <1>3, EndFacts
<1> HIDE DEF g
<1>5. Feedback(g, active.id) \in Feedbacks
  BY <1>1, <1>4, FeedbackType DEF Feedbacks
<1>6. g.holders = {}
  BY <1>2, <1>4
<1> QED BY <1>1, <1>4, <1>5, <1>6 DEF g

\* Ending a command that is not in force changes nothing.
LEMMA IdsEmpty == Ids({}) = {}
BY DEF Ids

\* Without a holder and without a command in force, ownership is in order.
LEMMA Vacant ==
  ASSUME fsm'.holders = {}, active' = None
  PROVE  OneOwner' /\ EndedNeverReturns' /\ OneHolder'
<1>1. Ids(fsm'.holders) = {}
  BY IdsEmpty
<1> QED BY <1>1 DEF OneOwner, EndedNeverReturns, OneHolder

LEMMA InitOwner == ASSUME Init PROVE Owner
<1>1. fsm \in Fsm
  BY DEF Init, Fsm, Behaviours
<1>2. Ids(fsm.holders) = {}
  BY IdsEmpty DEF Init
<1>3. TypeOK
  <2>1. requested \in Speeds /\ successFrames \in 0 .. 2
    BY SpeedAssumption DEF Init
  <2>2. latched \in SUBSET Alerts /\ pending \in SUBSET (Command \X Ended)
        /\ reported \in SUBSET (Command \X Ended)
    BY DEF Init
  <2> QED BY <1>1, <2>1, <2>2 DEF Init, TypeOK
<1> QED BY <1>2, <1>3 DEF Owner, OneOwner, EndedNeverReturns, OneHolder, Init

\* Operations that leave the FSM and the command in force alone.
LEMMA KeepsOwner ==
  ASSUME Owner, TypeOK', UNCHANGED <<fsm, active>>
  PROVE  Owner'
BY DEF Owner, OneOwner, EndedNeverReturns, OneHolder

LEMMA SubmitRejectedOwner == ASSUME Owner, NEW c \in Command, SubmitRejected(c) PROVE Owner'
<1>1. TypeOK'
  BY DEF Owner, TypeOK, SubmitRejected, commandVars, speedVars, Ended
<1> QED BY <1>1, KeepsOwner DEF SubmitRejected, commandVars

LEMMA ClearAlertsOwner ==
  ASSUME Owner, NEW recovered \in SUBSET Alerts, ClearAlerts(recovered) PROVE Owner'
<1>1. TypeOK'
  BY DEF Owner, TypeOK, ClearAlerts, commandVars, speedVars
<1> QED BY <1>1, KeepsOwner DEF ClearAlerts, commandVars

LEMMA ReleaseStopHoldOwner ==
  ASSUME Owner, NEW speed \in Speeds, ReleaseStopHold(speed) PROVE Owner'
<1>1. TypeOK'
  BY DEF Owner, TypeOK, ReleaseStopHold, commandVars
<1> QED BY <1>1, KeepsOwner DEF ReleaseStopHold, commandVars

LEMMA FailActiveOwner ==
  ASSUME Owner, NEW resume \in Speeds \cup {None}, FailActive(resume) PROVE Owner'
<1>1. /\ active # None /\ fsm' = End(fsm, active.id, "FAILED")
      /\ active' = None /\ approach' = None /\ successFrames' = 0
  BY DEF FailActive, ClearActive
<1>2. /\ fsm' \in Fsm /\ fsm'.holders = {}
      /\ Feedback(fsm', active.id) \in Feedbacks
  BY <1>1, EndActive DEF Ended
<1>3. TypeOK'
  <2>1. requested' \in Speeds /\ stopHold' \in BOOLEAN /\ authority' = None
    BY SpeedAssumption DEF FailActive
  <2>2. reported' \in SUBSET (Command \X Ended)
    BY <1>2 DEF FailActive, Owner, TypeOK, Feedbacks
  <2> QED BY <1>1, <1>2, <2>1, <2>2 DEF Owner, TypeOK, FailActive
<1> QED BY <1>1, <1>2, <1>3, Vacant DEF Owner

LEMMA CompleteActiveOwner == ASSUME Owner, CompleteActive PROVE Owner'
<1>1. /\ active # None /\ fsm' = End(fsm, active.id, "SUCCEEDED")
      /\ active' = None /\ approach' = None /\ successFrames' = 0
  BY DEF CompleteActive, ClearActive
<1>2. /\ fsm' \in Fsm /\ fsm'.holders = {}
      /\ Feedback(fsm', active.id) \in Feedbacks
  BY <1>1, EndActive DEF Ended
<1>3. TypeOK'
  <2>1. reported' \in SUBSET (Command \X Ended)
    BY <1>2 DEF CompleteActive, Owner, TypeOK, Feedbacks
  <2> QED BY <1>1, <1>2, <2>1 DEF Owner, TypeOK, CompleteActive, speedVars
<1> QED BY <1>1, <1>2, <1>3, Vacant DEF Owner

\* The clock ages the holders; it neither makes nor removes one.
LEMMA AdvanceClockOwner == ASSUME Owner, AdvanceClock PROVE Owner'
<1> DEFINE older(h) == [h EXCEPT !.left = IF h.left = 0 THEN 0 ELSE h.left - 1,
                                 !.age = IF h.age > Timeout THEN h.age ELSE h.age + 1]
<1>1. fsm \in Fsm /\ Timeout \in Nat
  BY TimeoutAssumption DEF Owner, TypeOK
<1>2. fsm' = [fsm EXCEPT !.holders = {older(h) : h \in fsm.holders}]
  BY DEF AdvanceClock
<1>3. \A h \in Holder : older(h) \in Holder /\ older(h).id = h.id
  <2> SUFFICES ASSUME NEW h \in Holder PROVE older(h) \in Holder /\ older(h).id = h.id
    OBVIOUS
  <2>1. h.left \in Nat /\ h.age \in 0 .. Timeout + 1 /\ h = [id |-> h.id, left |-> h.left, age |-> h.age]
    BY DEF Holder
  <2> DEFINE l == IF h.left = 0 THEN 0 ELSE h.left - 1
  <2> DEFINE a == IF h.age > Timeout THEN h.age ELSE h.age + 1
  <2>2. l \in Nat /\ a \in 0 .. Timeout + 1
    BY <1>1, <2>1
  <2>3. older(h) = [h EXCEPT !.left = l, !.age = a]
    OBVIOUS
  <2> HIDE DEF l, a, older
  <2> QED BY <2>2, <2>3 DEF Holder
<1>4. fsm.holders \in SUBSET Holder
  BY <1>1 DEF Fsm
<1> HIDE DEF older
<1>5. {older(h) : h \in fsm.holders} \in SUBSET Holder
  BY <1>3, <1>4
<1>6. fsm' \in Fsm /\ fsm'.holders = {older(h) : h \in fsm.holders} /\ fsm'.terminal = fsm.terminal
  BY <1>1, <1>2, <1>5 DEF Fsm
<1>7. Ids(fsm'.holders) = Ids(fsm.holders)
  BY <1>3, <1>4, <1>6 DEF Ids
<1>8. /\ active' \in Order \cup {None}
      /\ (active' = None <=> active = None) /\ (active # None => active'.id = active.id)
  <2>1. CASE active = None
    BY <2>1 DEF AdvanceClock
  <2>2. CASE active # None
    <3>1. active \in Order
      BY <2>2 DEF Owner, TypeOK
    <3>2. active' = [active EXCEPT !.left = IF @ = 0 THEN 0 ELSE @ - 1]
      BY <2>2 DEF AdvanceClock
    <3>3. active' \in Order /\ active'.id = active.id
      BY <3>1, <3>2 DEF Order
    <3>4. active' # None
      BY <3>3, NoneAssumption
    <3> QED BY <2>2, <3>3, <3>4
  <2> QED BY <2>1, <2>2
<1>9. TypeOK'
  BY <1>6, <1>8 DEF Owner, TypeOK, AdvanceClock, speedVars
<1>10. OneHolder'
  BY <1>6 DEF Owner, OneHolder
<1> QED BY <1>6, <1>7, <1>8, <1>9, <1>10 DEF Owner, OneOwner, EndedNeverReturns

\* submit_voice: whoever held the vehicle is ended before the new command is admitted.
LEMMA SubmitVoiceOwner == ASSUME Owner, NEW c \in Command, SubmitVoice(c) PROVE Owner'
<1> DEFINE old == IF Replaces(c) THEN End(fsm, active.id, "FAILED") ELSE fsm
<1>1. fsm \in Fsm /\ pending \in Feedbacks /\ c \in Command
  BY DEF Owner, TypeOK, Feedbacks
<1>2. old \in Fsm /\ Ids(old.holders) \in {{}, {c}} /\ SupersededFeedback(old, c) \in Feedbacks
  <2>1. CASE Replaces(c)
    <3>1. active # None /\ "FAILED" \in Ended
      BY <2>1 DEF Replaces, Ended
    <3>2. /\ End(fsm, active.id, "FAILED") \in Fsm /\ End(fsm, active.id, "FAILED").holders = {}
          /\ Feedback(End(fsm, active.id, "FAILED"), active.id) \in Feedbacks
      BY <3>1, EndActive
    <3>3. old = End(fsm, active.id, "FAILED")
      BY <2>1
    <3> HIDE DEF old
    <3> QED BY <2>1, <3>2, <3>3, IdsEmpty DEF SupersededFeedback
  <2>2. CASE ~Replaces(c)
    BY <1>1, <2>2 DEF Replaces, Owner, OneOwner, SupersededFeedback, Feedbacks
  <2> QED BY <2>1, <2>2
<1>3. Replaces(c) => Ids(old.holders) = {} /\ old.holders = {}
  BY EndActive, IdsEmpty DEF Replaces, Ended
<1>4. ~Replaces(c) => old = fsm
  OBVIOUS
<1>5. /\ \A d \in Ids(old.holders) : old.terminal[d] = "NONE"
      /\ \A g, h \in old.holders : g = h
  BY <1>3, <1>4 DEF Owner, EndedNeverReturns, OneHolder
<1>6. CASE AlreadyEnded(old, c)
  <2>1. /\ fsm' = old
        /\ pending' = pending \cup SupersededFeedback(old, c) \cup Feedback(old, c)
        /\ IF Replaces(c) THEN ClearActive ELSE UNCHANGED commandVars
        /\ UNCHANGED <<speedVars, stopHold, latched, reported, stage, alerts, drove>>
    BY <1>6 DEF SubmitVoice
  <2> HIDE DEF old
  <2>2. Feedback(old, c) \in Feedbacks
    BY <1>2, FeedbackType DEF Feedbacks
  <2>3. pending' \in SUBSET (Command \X Ended)
    BY <1>1, <1>2, <2>1, <2>2 DEF Feedbacks
  <2>4. /\ active' \in Order \cup {None} /\ approach' \in Speeds \cup {None}
        /\ successFrames' \in 0 .. 2
    BY <2>1 DEF ClearActive, commandVars, Owner, TypeOK
  <2>5. TypeOK'
    BY <1>2, <2>1, <2>3, <2>4 DEF Owner, TypeOK, speedVars
  <2>6. OneOwner' /\ EndedNeverReturns' /\ OneHolder'
    <3>1. CASE Replaces(c)
      BY <1>3, <2>1, <3>1, Vacant DEF ClearActive
    <3>2. CASE ~Replaces(c)
      BY <1>4, <2>1, <3>2 DEF commandVars, Owner, OneOwner, EndedNeverReturns, OneHolder
    <3> QED BY <3>1, <3>2
  <2> QED BY <2>5, <2>6 DEF Owner
<1>7. CASE ~AlreadyEnded(old, c)
  <2>1. /\ fsm' = Admit(old, c)
        /\ pending' = pending \cup SupersededFeedback(old, c)
        /\ active' = [id |-> c, gated |-> Envelope[c].gated, left |-> Envelope[c].life]
        /\ successFrames' = 0
        /\ approach' = IF Envelope[c].action = "STOP" /\ Envelope[c].plan THEN requested ELSE None
        /\ UNCHANGED <<latched, reported, stage, alerts, drove>>
    BY <1>7 DEF SubmitVoice
  <2>2. requested' \in Speeds /\ stopHold' \in BOOLEAN /\ authority' \in Command \cup {None}
    <3>1. requested \in Speeds /\ stopHold \in BOOLEAN /\ authority \in Command \cup {None}
      BY DEF Owner, TypeOK
    <3> QED BY <1>1, <1>7, <3>1, EnvelopeType, SpeedAssumption DEF SubmitVoice, Adopt, speedVars
  <2> HIDE DEF old
  <2>3. fsm' \in Fsm /\ Ids(fsm'.holders) = {c} /\ fsm'.terminal = old.terminal /\ OneHolder'
    BY <1>2, <1>5, <2>1, AdmitFacts DEF OneHolder
  <2>4. pending' \in SUBSET (Command \X Ended)
    BY <1>1, <1>2, <2>1 DEF Feedbacks
  <2>5. active' \in Order /\ active'.id = c /\ active' # None
    BY <2>1, EnvelopeType, NoneAssumption DEF Order
  <2>6. approach' \in Speeds \cup {None} /\ successFrames' \in 0 .. 2
    BY <2>1 DEF Owner, TypeOK
  <2>7. TypeOK'
    BY <2>1, <2>2, <2>3, <2>4, <2>5, <2>6 DEF Owner, TypeOK
  <2>8. OneOwner' /\ EndedNeverReturns'
    BY <1>7, <2>3, <2>5 DEF OneOwner, EndedNeverReturns, AlreadyEnded
  <2> QED BY <2>3, <2>7, <2>8 DEF Owner
<1> QED BY <1>6, <1>7

\* confirm_voice: a gate that opens changes no owner; one that fails leaves none.
LEMMA ConfirmVoiceOwner ==
  ASSUME Owner, NEW c \in Command, NEW approved \in BOOLEAN, ConfirmVoice(c, approved)
  PROVE  Owner'
<1> DEFINE holder == {h \in fsm.holders : h.id = c}
<1> DEFINE ends == \E h \in holder : Due(h) # "NONE" \/ ~approved
<1> DEFINE after == IF ends THEN End(fsm, c, "REJECTED") ELSE fsm
<1> DEFINE mine == active # None /\ active.id = c
<1> DEFINE confirmed == IF holder = {} THEN fsm
                        ELSE [fsm EXCEPT !.behaviour = StateFor(Envelope[c].action)]
<1> DEFINE failed == End(confirmed, c, "FAILED")
<1>1. /\ fsm \in Fsm /\ pending \in Feedbacks /\ reported \in Feedbacks
      /\ "REJECTED" \in Ended /\ "FAILED" \in Ended
  BY DEF Owner, TypeOK, Feedbacks, Ended
<1>2. Ids(fsm.holders) = IF active = None THEN {} ELSE {active.id}
  BY DEF Owner, OneOwner
<1>3. mine <=> holder # {}
  BY <1>2 DEF Ids
<1>4. mine => \A h \in fsm.holders : h.id = c
  BY <1>2 DEF Ids
<1>5. /\ after \in Fsm /\ (ends => mine)
      /\ (ends => after.holders = {}) /\ (~ends => after = fsm)
  <2>1. ends => mine
    BY <1>3
  <2>2. End(fsm, c, "REJECTED") \in Fsm
        /\ End(fsm, c, "REJECTED").holders = {h \in fsm.holders : h.id # c}
    BY <1>1, EndFacts
  <2> QED BY <1>1, <1>4, <2>1, <2>2
<1>6. /\ confirmed \in Fsm /\ confirmed.holders = fsm.holders
      /\ confirmed.terminal = fsm.terminal
  BY <1>1, EnvelopeType, StateForType DEF Fsm
<1>7. CASE after.terminal[c] # "NONE"
  <2>1. /\ fsm' = after
        /\ pending' = pending \cup Feedback(after, c)
        /\ reported' = reported \cup Feedback(after, c)
        /\ IF mine THEN ClearActive /\ Stand ELSE UNCHANGED <<commandVars, speedVars, stopHold>>
        /\ UNCHANGED <<latched, stage, alerts, drove>>
    BY <1>7 DEF ConfirmVoice
  <2>2. mine => ends
    <3>1. SUFFICES ASSUME mine, ~ends PROVE FALSE
      OBVIOUS
    <3>2. c \in Ids(fsm.holders) /\ after = fsm
      BY <1>2, <1>5, <3>1
    <3> QED BY <1>7, <3>2 DEF Owner, EndedNeverReturns
  <2> HIDE DEF after, ends
  <2>3. Feedback(after, c) \in Feedbacks
    BY <1>5, FeedbackType DEF Feedbacks
  <2>4. pending' \in SUBSET (Command \X Ended) /\ reported' \in SUBSET (Command \X Ended)
    BY <1>1, <2>1, <2>3 DEF Feedbacks
  <2>5. TypeOK'
    <3>1. CASE mine
      BY <1>5, <2>1, <2>4, <3>1, SpeedAssumption DEF Owner, TypeOK, ClearActive, Stand
    <3>2. CASE ~mine
      BY <1>5, <2>1, <2>4, <3>2 DEF Owner, TypeOK, commandVars, speedVars
    <3> QED BY <3>1, <3>2
  <2>6. OneOwner' /\ EndedNeverReturns' /\ OneHolder'
    <3>1. CASE mine
      BY <1>5, <2>1, <2>2, <3>1, Vacant DEF ClearActive
    <3>2. CASE ~mine
      BY <1>5, <2>1, <3>2 DEF Owner, OneOwner, EndedNeverReturns, OneHolder, commandVars
    <3> QED BY <3>1, <3>2
  <2> QED BY <2>5, <2>6 DEF Owner
<1>8. CASE after.terminal[c] = "NONE" /\ mine /\ Envelope[c].action = "MULTIMODAL_DECISION"
  <2>1. /\ fsm' = failed
        /\ pending' = pending \cup Feedback(failed, c)
        /\ reported' = reported \cup Feedback(failed, c)
        /\ ClearActive /\ Stand
        /\ UNCHANGED <<latched, stage, alerts, drove>>
    BY <1>8 DEF ConfirmVoice
  <2>2. failed \in Fsm /\ failed.holders = {}
    <3> HIDE DEF confirmed
    <3>1. failed \in Fsm /\ failed.holders = {h \in confirmed.holders : h.id # c}
      BY <1>1, <1>6, EndFacts
    <3> QED BY <1>4, <1>6, <1>8, <3>1
  <2> HIDE DEF failed
  <2>3. Feedback(failed, c) \in Feedbacks
    BY <2>2, FeedbackType DEF Feedbacks
  <2>4. pending' \in SUBSET (Command \X Ended) /\ reported' \in SUBSET (Command \X Ended)
    BY <1>1, <2>1, <2>3 DEF Feedbacks
  <2>5. TypeOK'
    BY <2>1, <2>2, <2>4, SpeedAssumption DEF Owner, TypeOK, ClearActive, Stand
  <2> QED BY <2>1, <2>2, <2>5, Vacant DEF Owner, ClearActive
<1>9. CASE after.terminal[c] = "NONE" /\ ~(mine /\ Envelope[c].action = "MULTIMODAL_DECISION")
  <2>1. /\ fsm' = confirmed
        /\ IF mine THEN active' = [active EXCEPT !.gated = FALSE] ELSE UNCHANGED active
        /\ UNCHANGED <<approach, successFrames, pending, reported, latched, stage, alerts, drove>>
    BY <1>9 DEF ConfirmVoice
  <2>2. requested' \in Speeds /\ stopHold' \in BOOLEAN /\ authority' \in Command \cup {None}
    <3>1. requested \in Speeds /\ stopHold \in BOOLEAN /\ authority \in Command \cup {None}
      BY DEF Owner, TypeOK
    <3> QED BY <1>9, <3>1, EnvelopeType, SpeedAssumption DEF ConfirmVoice, Adopt, speedVars
  <2> HIDE DEF confirmed, after, ends, holder
  <2>3. /\ active' \in Order \cup {None} /\ (active' = None <=> active = None)
        /\ (active # None => active'.id = active.id)
    <3>1. active \in Order \cup {None}
      BY DEF Owner, TypeOK
    <3> QED BY <2>1, <3>1, NoneAssumption DEF Order
  <2>4. TypeOK'
    BY <1>6, <2>1, <2>2, <2>3 DEF Owner, TypeOK
  <2>5. OneOwner' /\ EndedNeverReturns' /\ OneHolder'
    BY <1>6, <2>1, <2>3 DEF Owner, OneOwner, EndedNeverReturns, OneHolder
  <2> QED BY <2>4, <2>5 DEF Owner
<1> QED BY <1>7, <1>8, <1>9
-----------------------------------------------------------------------------
(* The stages of a frame.                                                  *)

\* step() after tick: what lapsed is cleared, what the watchdog seizes is overridden.
LEMMA FrameTickOwner ==
  ASSUME Owner, NEW watch \in SUBSET Alerts, FrameTick(watch) PROVE Owner'
<1> DEFINE ticked == Expire(fsm)
<1> DEFINE finished == UNION {Feedback(ticked, c) : c \in Ids(fsm.holders) \ Ids(ticked.holders)}
<1> DEFINE seized == watch # {} /\ active # None
<1> DEFINE lapsed == watch = {} /\ Lapsed(ticked)
<1>1. /\ fsm' = IF seized THEN End(ticked, active.id, "SAFETY_OVERRIDE") ELSE ticked
      /\ reported' = reported \cup pending \cup finished
                       \cup (IF seized THEN OverrideFeedback(fsm') ELSE {})
      /\ pending' = {}
      /\ alerts' = FrameAlerts(watch, lapsed)
      /\ IF Cuts(watch, lapsed) THEN requested' = 0 /\ authority' = None ELSE UNCHANGED speedVars
      /\ IF seized \/ lapsed THEN ClearActive ELSE UNCHANGED commandVars
      /\ latched' = latched \cup watch /\ stage' = "lateral"
      /\ UNCHANGED <<stopHold, drove>>
  BY DEF FrameTick
<1>2. /\ fsm \in Fsm /\ active \in Order \cup {None}
      /\ Ids(fsm.holders) = IF active = None THEN {} ELSE {active.id}
      /\ Ids(fsm.holders) \in SUBSET Command
  BY DEF Owner, TypeOK, OneOwner, Order
<1>3. /\ ticked \in Fsm
      /\ ticked.holders \in SUBSET fsm.holders
      /\ \A h \in fsm.holders \ ticked.holders : Due(h) # "NONE"
      /\ \A d \in Command : d \in Ids(ticked.holders) /\ fsm.terminal[d] = "NONE"
            /\ d \notin Ids({h \in fsm.holders : Due(h) # "NONE"}) => ticked.terminal[d] = "NONE"
      /\ ticked.holders = {h \in fsm.holders : Due(h) = "NONE"}
  BY <1>2, ExpireFacts
<1> HIDE DEF ticked
<1>4. finished \in Feedbacks
  <2>1. \A c \in Ids(fsm.holders) : Feedback(ticked, c) \in Feedbacks
    BY <1>2, <1>3, FeedbackType DEF Feedbacks
  <2> QED BY <2>1 DEF Feedbacks
<1>5. Ids(ticked.holders) \in SUBSET Ids(fsm.holders)
  BY <1>3 DEF Ids
<1>6. CASE seized
  <2>1. active.id \in Command /\ "SAFETY_OVERRIDE" \in Ended
    BY <1>2, <1>6 DEF Order, Ended
  <2>2. fsm' \in Fsm /\ fsm'.holders = {h \in ticked.holders : h.id # active.id}
    BY <1>1, <1>3, <1>6, <2>1, EndFacts
  <2>3. fsm'.holders = {}
    <3>1. \A h \in fsm.holders : h.id = active.id
      BY <1>2, <1>6 DEF Ids
    <3> QED BY <1>3, <2>2, <3>1
  <2>4. OverrideFeedback(fsm') \in Feedbacks
    BY <2>1, <2>2, FeedbackType DEF OverrideFeedback, Feedbacks
  <2> HIDE DEF finished, lapsed
  <2>5. reported' \in SUBSET (Command \X Ended)
    BY <1>1, <1>4, <1>6, <2>4 DEF Owner, TypeOK, Feedbacks
  <2>6. active' = None /\ approach' = None /\ successFrames' = 0
    BY <1>1, <1>6 DEF ClearActive
  <2>7. requested' = 0 /\ authority' = None
    BY <1>1, <1>6 DEF Cuts
  <2>8. TypeOK'
    BY <1>1, <2>2, <2>5, <2>6, <2>7, SpeedAssumption DEF Owner, TypeOK, FrameAlerts
  <2> QED BY <2>3, <2>6, <2>8, Vacant DEF Owner
<1>7. CASE ~seized
  <2>1. fsm' = ticked
    BY <1>1, <1>7
  <2>2. reported' \in SUBSET (Command \X Ended)
    BY <1>1, <1>4, <1>7 DEF Owner, TypeOK, Feedbacks
  <2> HIDE DEF finished
  <2>3. /\ active' \in Order \cup {None} /\ approach' \in Speeds \cup {None}
        /\ successFrames' \in 0 .. 2
    BY <1>1, <1>7 DEF ClearActive, commandVars, Owner, TypeOK
  <2>4. requested' \in Speeds /\ authority' \in Command \cup {None}
    BY <1>1, SpeedAssumption DEF Owner, TypeOK, speedVars
  <2>5. TypeOK'
    BY <1>1, <1>3, <2>1, <2>2, <2>3, <2>4 DEF Owner, TypeOK, FrameAlerts
  <2>6. CASE active = None
    <3>1. fsm'.holders = {}
      BY <1>2, <1>3, <2>1, <2>6 DEF Ids
    <3>2. active' = None
      BY <1>1, <1>7, <2>6 DEF ClearActive, commandVars
    <3> QED BY <2>5, <3>1, <3>2, Vacant DEF Owner
  <2>7. CASE active # None /\ Lapsed(ticked)
    <3>1. lapsed /\ active' = None
      BY <1>1, <1>7, <2>7 DEF ClearActive
    <3>2. fsm'.holders = {}
      <4>1. active.id \notin Ids(ticked.holders)
        BY <2>7 DEF Lapsed
      <4> QED BY <1>2, <1>5, <2>1, <2>7, <4>1 DEF Ids
    <3> QED BY <2>5, <3>1, <3>2, Vacant DEF Owner
  <2>8. CASE active # None /\ ~Lapsed(ticked)
    <3>1. active' = active
      BY <1>1, <1>7, <2>8 DEF commandVars
    <3>2. Ids(ticked.holders) = {active.id}
      BY <1>2, <1>5, <2>8 DEF Lapsed
    <3>3. OneOwner'
      BY <2>1, <2>8, <3>1, <3>2 DEF OneOwner
    <3>4. EndedNeverReturns'
      <4>1. active.id \in Command /\ fsm.terminal[active.id] = "NONE"
        BY <1>2, <2>8 DEF Owner, EndedNeverReturns, Order
      <4>2. ticked.terminal[active.id] = "NONE"
        <5>1. \A h \in fsm.holders : Due(h) = "NONE"
          BY <1>3, <3>2 DEF Ids, Owner, OneHolder
        <5>2. active.id \notin Ids({h \in fsm.holders : Due(h) # "NONE"})
          BY <5>1 DEF Ids
        <5> QED BY <1>3, <3>2, <4>1, <5>2
      <4> QED BY <2>1, <3>2, <4>2 DEF EndedNeverReturns
    <3>5. OneHolder'
      BY <1>3, <2>1 DEF Owner, OneHolder
    <3> QED BY <2>5, <3>3, <3>4, <3>5 DEF Owner
  <2> QED BY <2>6, <2>7, <2>8
<1> QED BY <1>6, <1>7

\* A frame whose lateral control or integration fails takes the vehicle from its command.
LEMMA FailInFrameOwner ==
  ASSUME Owner, FailInFrame
  PROVE  /\ fsm' \in Fsm /\ active' \in Order \cup {None} /\ approach' \in Speeds \cup {None}
         /\ successFrames' \in 0 .. 2 /\ requested' = 0 /\ authority' = None
         /\ reported' \in Feedbacks
         /\ OneOwner' /\ EndedNeverReturns' /\ OneHolder'
<1>1. CASE active = None
  <2>1. requested' = 0 /\ authority' = None /\ UNCHANGED <<fsm, commandVars, reported>>
    BY <1>1 DEF FailInFrame
  <2> QED
    BY <2>1 DEF commandVars, Owner, TypeOK, OneOwner, EndedNeverReturns, OneHolder, Feedbacks
<1>2. CASE active # None
  <2>1. /\ requested' = 0 /\ authority' = None /\ fsm' = End(fsm, active.id, "FAILED")
        /\ reported' = reported \cup Feedback(fsm', active.id)
        /\ active' = None /\ approach' = None /\ successFrames' = 0
    BY <1>2 DEF FailInFrame, ClearActive
  <2>2. fsm' \in Fsm /\ fsm'.holders = {} /\ Feedback(fsm', active.id) \in Feedbacks
    BY <1>2, <2>1, EndActive DEF Ended
  <2>3. reported' \in Feedbacks
    BY <2>1, <2>2 DEF Owner, TypeOK, Feedbacks
  <2> QED BY <2>1, <2>2, <2>3, Vacant
<1> QED BY <1>1, <1>2

LEMMA FrameLateralOwner == ASSUME Owner, FrameLateral PROVE Owner'
<1>1. CASE FailInFrame /\ latched' = latched \cup {"LATERAL"} /\ alerts' = TRUE
  <2>1. stage' = "arbitrate" /\ UNCHANGED <<stopHold, pending, drove>>
    BY DEF FrameLateral
  <2>2. TypeOK'
    BY <1>1, <2>1, FailInFrameOwner, SpeedAssumption DEF Owner, TypeOK, Feedbacks, Alerts
  <2> QED BY <1>1, <2>2, FailInFrameOwner DEF Owner
<1>2. CASE UNCHANGED <<fsm, commandVars, speedVars, latched, reported, alerts>>
  <2>1. TypeOK'
    BY <1>2 DEF FrameLateral, Owner, TypeOK, commandVars, speedVars
  <2> QED BY <1>2, <2>1, KeepsOwner DEF commandVars
<1> QED BY <1>1, <1>2 DEF FrameLateral

LEMMA FrameFailsOwner == ASSUME Owner, FrameFails PROVE Owner'
<1>1. FailInFrame
  BY DEF FrameFails
<1>2. TypeOK'
  BY <1>1, FailInFrameOwner, SpeedAssumption DEF FrameFails, Owner, TypeOK, Feedbacks, Alerts
<1> QED BY <1>1, <1>2, FailInFrameOwner DEF Owner

\* Arbitration and completion: an override that owns the command, or its success, ends it.
LEMMA FrameArbitrateOwner ==
  ASSUME Owner, NEW v \in Speeds, NEW near \in BOOLEAN, NEW semantic \in BOOLEAN,
         NEW hazard \in Hazards, FrameArbitrate(v, near, hazard, semantic)
  PROVE  Owner'
<1> DEFINE audit == IF Unconfirmed /\ active.left = 0 THEN {<<active.id, "EXPIRED">>} ELSE {}
<1> DEFINE owned == active # None /\ (TerminalReason(hazard) \/ semantic)
<1> DEFINE completed == ~owned /\ Completed(v, near)
<1>1. /\ stage' = "after" /\ drove' \in BOOLEAN
      /\ fsm' = IF owned THEN End(fsm, active.id, "SAFETY_OVERRIDE")
                ELSE IF completed THEN End(fsm, active.id, "SUCCEEDED") ELSE fsm
      /\ reported' = reported \cup audit
                       \cup (IF owned \/ completed THEN Feedback(fsm', active.id) ELSE {})
      /\ IF owned THEN Stand
         ELSE /\ stopHold' = (stopHold \/ (completed /\ InForce \in {"STOP", "EMERGENCY_BRAKE"}))
              /\ UNCHANGED speedVars
      /\ IF owned \/ completed THEN ClearActive
         ELSE /\ successFrames' = IF Approaching(near) THEN successFrames ELSE Counted(v)
              /\ UNCHANGED <<active, approach>>
      /\ UNCHANGED <<latched, pending, alerts>>
  BY DEF FrameArbitrate
<1>2. completed => active # None
  BY DEF Completed, InForce
<1>3. audit \in Feedbacks
  BY DEF Unconfirmed, Owner, TypeOK, Order, Feedbacks, Ended
<1>4. requested' \in Speeds /\ authority' \in Command \cup {None} /\ stopHold' \in BOOLEAN
  BY <1>1, SpeedAssumption DEF Stand, speedVars, Owner, TypeOK
<1>5. CASE owned \/ completed
  <2>1. active # None /\ active' = None /\ approach' = None /\ successFrames' = 0
    BY <1>1, <1>2, <1>5 DEF ClearActive
  <2>2. PICK outcome \in Ended : fsm' = End(fsm, active.id, outcome)
    BY <1>1, <1>5 DEF Ended
  <2>3. fsm' \in Fsm /\ fsm'.holders = {} /\ Feedback(fsm', active.id) \in Feedbacks
    BY <2>1, <2>2, EndActive
  <2> HIDE DEF audit
  <2>4. reported' \in SUBSET (Command \X Ended)
    BY <1>1, <1>3, <1>5, <2>3 DEF Owner, TypeOK, Feedbacks
  <2>5. TypeOK'
    BY <1>1, <1>4, <2>1, <2>3, <2>4 DEF Owner, TypeOK
  <2> QED BY <2>1, <2>3, <2>5, Vacant DEF Owner
<1>6. CASE ~(owned \/ completed)
  <2>1. successFrames' \in 0 .. 2
    <3>1. successFrames \in 0 .. 2
      BY DEF Owner, TypeOK
    <3>2. CASE Approaching(near)
      BY <1>1, <1>6, <3>1, <3>2
    <3>3. CASE ~Approaching(near)
      <4>1. successFrames' = Counted(v) /\ ~Completed(v, near)
        BY <1>1, <1>6, <3>3
      <4>2. CASE InForce = "SET_SPEED"
        BY <3>1, <4>1, <4>2 DEF Counted, Completed, Enough
      <4>3. CASE InForce = "KEEP_LANE"
        BY <3>1, <4>1, <4>3 DEF Counted, Completed, Enough
      <4>4. CASE InForce \notin {"SET_SPEED", "KEEP_LANE"}
        BY <3>1, <4>1, <4>4 DEF Counted
      <4> QED BY <4>2, <4>3, <4>4
    <3> QED BY <3>2, <3>3
  <2>2. UNCHANGED <<fsm, active, approach>>
    BY <1>1, <1>6
  <2> HIDE DEF audit
  <2>3. reported' \in SUBSET (Command \X Ended)
    BY <1>1, <1>3, <1>6 DEF Owner, TypeOK, Feedbacks
  <2>4. TypeOK'
    BY <1>1, <1>4, <2>1, <2>2, <2>3 DEF Owner, TypeOK
  <2> QED BY <2>2, <2>4, KeepsOwner
<1> QED BY <1>5, <1>6

LEMMA StutterOwner == ASSUME Owner, UNCHANGED vars PROVE Owner'
BY DEF vars, commandVars, speedVars, Owner, TypeOK, OneOwner, EndedNeverReturns, OneHolder

LEMMA OwnerStep == ASSUME Owner, [Next]_vars PROVE Owner'
<1>1. CASE Frame
  <2>1. CASE \E watch \in {{}, {"WATCHDOG"}} : FrameTick(watch)
    <3>1. {} \in SUBSET Alerts /\ {"WATCHDOG"} \in SUBSET Alerts
      BY DEF Alerts
    <3> QED BY <2>1, <3>1, FrameTickOwner
  <2> QED BY <1>1, <2>1, FrameLateralOwner, FrameFailsOwner, FrameArbitrateOwner DEF Frame
<1>2. CASE Callers
  BY <1>2, SubmitVoiceOwner, SubmitRejectedOwner, ConfirmVoiceOwner, FailActiveOwner,
     CompleteActiveOwner, ClearAlertsOwner, ReleaseStopHoldOwner DEF Callers
<1>3. CASE AdvanceClock
  BY <1>3, AdvanceClockOwner
<1>4. CASE UNCHANGED vars
  BY <1>4, StutterOwner
<1> QED BY <1>1, <1>2, <1>3, <1>4 DEF Next

\* The FSM and the runtime name the same owner at all times, an ended command never holds
\* the vehicle again, and every variable keeps its type: runtime_loop.py and
\* behavior_fsm.py stay in step whatever is delivered, confirmed or failed, and when.
THEOREM OwnerCorrect == Spec => []Owner
<1>1. Init => Owner
  BY InitOwner
<1>2. Owner /\ [Next]_vars => Owner'
  BY OwnerStep
<1> QED BY <1>1, <1>2, PTL DEF Spec

\* Every variable keeps its type; the success counter never stores a three.
THEOREM TypeCorrect == Spec => []TypeOK
<1>1. Owner => TypeOK
  BY DEF Owner
<1> QED BY <1>1, OwnerCorrect, PTL

\* The FSM's holder and the runtime's command in force are the same command.
THEOREM OneOwnerCorrect == Spec => []OneOwner
<1>1. Owner => OneOwner
  BY DEF Owner
<1> QED BY <1>1, OwnerCorrect, PTL

\* A command that has ended never holds the vehicle again, however often it is delivered.
THEOREM EndedNeverReturnsCorrect == Spec => []EndedNeverReturns
<1>1. Owner => EndedNeverReturns
  BY DEF Owner
<1> QED BY <1>1, OwnerCorrect, PTL
-----------------------------------------------------------------------------
(* Latched alerts.                                                         *)

\* Between tick and arbitration the frame's alerts stand for the latch.
AlertsCoverLatch == stage \in {"lateral", "arbitrate"} => alerts \/ latched = {}

LatchInv == AlertsCoverLatch /\ LatchBrakes

LEMMA LatchStep == ASSUME LatchInv, [Next]_vars PROVE LatchInv'
<1>1. CASE \E watch \in {{}, {"WATCHDOG"}} : FrameTick(watch)
  BY <1>1 DEF FrameTick, FrameAlerts, LatchInv, AlertsCoverLatch, LatchBrakes
<1>2. CASE FrameLateral
  <2>1. /\ stage = "lateral" /\ stage' = "arbitrate"
        /\ (latched' = latched /\ alerts' = alerts) \/ alerts' = TRUE
    BY <1>2 DEF FrameLateral
  <2> QED BY <2>1 DEF LatchInv, AlertsCoverLatch, LatchBrakes
<1>3. CASE FrameFails
  BY <1>3 DEF FrameFails, LatchInv, AlertsCoverLatch, LatchBrakes
<1>4. ASSUME NEW v \in Speeds, NEW near \in BOOLEAN, NEW semantic \in BOOLEAN,
             NEW hazard \in Hazards, FrameArbitrate(v, near, hazard, semantic)
      PROVE  LatchInv'
  <2>1. /\ stage = "arbitrate" /\ stage' = "after" /\ latched' = latched
        /\ drove' => ~Overridden(hazard)
    BY <1>4 DEF FrameArbitrate
  <2> QED BY <2>1 DEF Overridden, LatchInv, AlertsCoverLatch, LatchBrakes
<1>5. CASE AdvanceClock
  BY <1>5 DEF AdvanceClock, LatchInv, AlertsCoverLatch, LatchBrakes
<1>6. CASE Callers
  <2>1. /\ stage \in {"commands", "after"} /\ stage' = stage /\ drove' = drove
        /\ latched' \in SUBSET latched
    BY <1>6 DEF Callers, SubmitVoice, SubmitRejected, ConfirmVoice, FailActive, CompleteActive,
                ClearAlerts, ReleaseStopHold, Between
  <2> QED BY <2>1 DEF LatchInv, AlertsCoverLatch, LatchBrakes
<1>7. CASE UNCHANGED vars
  BY <1>7 DEF vars, LatchInv, AlertsCoverLatch, LatchBrakes
<1> QED BY <1>1, <1>2, <1>3, <1>4, <1>5, <1>6, <1>7 DEF Next, Frame

\* A latched alert brakes every frame until it is cleared explicitly: neither healthy
\* frames nor new commands release what step() latched.
THEOREM LatchBrakesCorrect == Spec => []LatchBrakes
<1>1. Init => LatchInv
  BY DEF Init, LatchInv, AlertsCoverLatch, LatchBrakes
<1>2. LatchInv /\ [Next]_vars => LatchInv'
  BY LatchStep
<1>3. LatchInv => LatchBrakes
  BY DEF LatchInv
<1> QED BY <1>1, <1>2, <1>3, PTL DEF Spec
-----------------------------------------------------------------------------
(* Stops.                                                                  *)

Stopping == {"STOP", "EMERGENCY_BRAKE"}

\* Speed, hold and command in force as they were, or no command any more.
LEMMA StopKept ==
  ASSUME StopMeansZero, UNCHANGED <<requested, stopHold>>,
         active' = None \/ (active # None /\ active' # None /\ active'.id = active.id)
  PROVE  StopMeansZero'
BY DEF StopMeansZero, InForce

LEMMA StopAtZero == ASSUME requested' = 0 PROVE StopMeansZero'
BY DEF StopMeansZero

\* The hold is released and the command in force, if any, is no stop.
LEMMA StopReleased ==
  ASSUME stopHold' = FALSE,
         active' = None \/ Envelope[active'.id].action \notin Stopping
  PROVE  StopMeansZero'
BY DEF StopMeansZero, InForce, Stopping

LEMMA StopSubmit ==
  ASSUME Owner, StopMeansZero, NEW c \in Command, SubmitVoice(c) PROVE StopMeansZero'
<1> DEFINE old == IF Replaces(c) THEN End(fsm, active.id, "FAILED") ELSE fsm
<1>1. CASE AlreadyEnded(old, c)
  <2>1. IF Replaces(c) THEN ClearActive ELSE UNCHANGED commandVars
    BY <1>1 DEF SubmitVoice
  <2>2. UNCHANGED <<requested, stopHold>>
    BY <1>1 DEF SubmitVoice, speedVars
  <2> QED BY <2>1, <2>2, StopKept DEF ClearActive, commandVars
<1>2. CASE ~AlreadyEnded(old, c)
  <2>1. active' = [id |-> c, gated |-> Envelope[c].gated, left |-> Envelope[c].life]
    BY <1>2 DEF SubmitVoice
  <2>2. active'.id = c /\ active' # None
    BY <2>1, EnvelopeType, NoneAssumption DEF Order
  <2>3. \/ stopHold' = FALSE /\ Envelope[c].action \in {"SET_SPEED", "KEEP_LANE"}
        \/ requested' = 0
        \/ /\ Envelope[c].action \in {"SET_SPEED", "KEEP_LANE", "MULTIMODAL_DECISION"}
           /\ UNCHANGED <<requested, stopHold>>
    BY <1>2 DEF SubmitVoice, speedVars
  <2> QED BY <2>2, <2>3 DEF StopMeansZero, InForce
<1> QED BY <1>1, <1>2

LEMMA StopConfirm ==
  ASSUME Owner, StopMeansZero, NEW c \in Command, NEW approved \in BOOLEAN,
         ConfirmVoice(c, approved)
  PROVE  StopMeansZero'
<1> DEFINE mine == active # None /\ active.id = c
<1>1. \/ requested' = 0
      \/ UNCHANGED <<active, requested, stopHold>>
      \/ /\ mine /\ active' = [active EXCEPT !.gated = FALSE]
         /\ Envelope[c].action \in {"SET_SPEED", "KEEP_LANE"} /\ stopHold' = FALSE
  BY DEF ConfirmVoice, Stand, commandVars, speedVars
<1>2. ASSUME mine, active' = [active EXCEPT !.gated = FALSE]
      PROVE  active'.id = c
  BY <1>2 DEF Owner, TypeOK, Order
<1>3. CASE UNCHANGED <<active, requested, stopHold>>
  BY <1>3, StopKept DEF StopMeansZero, InForce
<1> QED BY <1>1, <1>2, <1>3, StopAtZero, StopReleased DEF Stopping

LEMMA StopFrame ==
  ASSUME Owner, StopMeansZero, Frame PROVE StopMeansZero'
<1>1. ASSUME NEW watch, FrameTick(watch) PROVE StopMeansZero'
  <2>1. /\ requested' = 0 \/ UNCHANGED requested
        /\ UNCHANGED stopHold
        /\ active' = None \/ active' = active
    BY <1>1 DEF FrameTick, ClearActive, commandVars, speedVars
  <2> QED BY <2>1 DEF StopMeansZero, InForce
<1>2. CASE FrameLateral
  <2>1. FailInFrame \/ UNCHANGED <<active, requested, stopHold>>
    BY <1>2 DEF FrameLateral, commandVars, speedVars
  <2> QED BY <2>1, StopAtZero DEF FailInFrame, StopMeansZero, InForce
<1>3. CASE FrameFails
  BY <1>3, StopAtZero DEF FrameFails, FailInFrame
<1>4. ASSUME NEW v \in Speeds, NEW near \in BOOLEAN, NEW semantic \in BOOLEAN,
             NEW hazard \in Hazards, FrameArbitrate(v, near, hazard, semantic)
      PROVE  StopMeansZero'
  <2> DEFINE owned == active # None /\ (TerminalReason(hazard) \/ semantic)
  <2> DEFINE completed == ~owned /\ Completed(v, near)
  <2>1. /\ IF owned THEN Stand
           ELSE /\ stopHold' = (stopHold \/ (completed /\ InForce \in {"STOP", "EMERGENCY_BRAKE"}))
                /\ UNCHANGED speedVars
        /\ IF owned \/ completed THEN active' = None ELSE UNCHANGED active
    BY <1>4 DEF FrameArbitrate, ClearActive
  <2>2. CASE owned
    BY <2>1, <2>2, StopAtZero DEF Stand
  <2>3. CASE ~owned
    <3>1. requested' = requested /\ (active' = None \/ active' = active)
      BY <2>1, <2>3 DEF speedVars
    <3> QED BY <2>1, <2>3, <3>1 DEF StopMeansZero, InForce
  <2> QED BY <2>2, <2>3
<1> QED BY <1>1, <1>2, <1>3, <1>4 DEF Frame

LEMMA StopStep == ASSUME Owner, StopMeansZero, [Next]_vars PROVE StopMeansZero'
<1>1. CASE AdvanceClock
  <2>1. active' = None \/ (active # None /\ active' # None /\ active'.id = active.id)
    <3>1. Owner' /\ (active' # None => active # None)
      BY <1>1, AdvanceClockOwner DEF AdvanceClock
    <3>2. active # None => active \in Order
      BY DEF Owner, TypeOK
    <3> QED BY <1>1, <3>1, <3>2 DEF AdvanceClock, Order
  <2> QED BY <1>1, <2>1, StopKept DEF AdvanceClock, speedVars
<1>2. CASE Callers
  <2>1. ASSUME NEW c, SubmitRejected(c) PROVE StopMeansZero'
    BY <2>1 DEF SubmitRejected, commandVars, speedVars, StopMeansZero, InForce
  <2>2. ASSUME NEW resume, FailActive(resume) PROVE StopMeansZero'
    BY <2>2 DEF FailActive, ClearActive, StopMeansZero, InForce
  <2>3. CASE CompleteActive
    BY <2>3, StopKept DEF CompleteActive, ClearActive, speedVars
  <2>4. ASSUME NEW recovered, ClearAlerts(recovered) PROVE StopMeansZero'
    BY <2>4 DEF ClearAlerts, commandVars, speedVars, StopMeansZero, InForce
  <2>5. ASSUME NEW speed, ReleaseStopHold(speed) PROVE StopMeansZero'
    BY <2>5, StopReleased DEF ReleaseStopHold, ReleaseBlocked, commandVars
  <2> QED BY <1>2, <2>1, <2>2, <2>3, <2>4, <2>5, StopSubmit, StopConfirm DEF Callers
<1>3. CASE UNCHANGED vars
  BY <1>3 DEF vars, commandVars, speedVars, StopMeansZero, InForce
<1> QED BY <1>1, <1>2, <1>3, StopFrame DEF Next

\* While the stop hold is on or a stop is in force no speed is requested, whatever was
\* accepted, confirmed, failed or released in between.
THEOREM StopMeansZeroCorrect == Spec => []StopMeansZero
<1>1. Init => StopMeansZero
  BY DEF Init, StopMeansZero, InForce
<1>2. Owner /\ StopMeansZero /\ [Next]_vars => StopMeansZero'
  BY StopStep
<1> QED BY <1>1, <1>2, OwnerCorrect, PTL DEF Spec
-----------------------------------------------------------------------------
(* Elapsed authority.                                                      *)

\* Whatever is reported of c, a holder that is due ends as it is due or does not end.
LEMMA EndElapsed ==
  ASSUME NEW f \in Fsm, \A g, h \in f.holders : g = h, \A h \in f.holders : f.terminal[h.id] = "NONE",
         NEW c \in Command, NEW outcome \in Ended, NEW h \in f.holders, Due(h) # "NONE"
  PROVE  End(f, c, outcome).terminal[h.id] \in {"NONE", Due(h)}
<1>1. h.id \in Command
  BY DEF Fsm, Holder
<1>2. CASE h.id = c
  <2>1. c \in Ids(f.holders)
    BY <1>2 DEF Ids
  <2>2. PICK g \in f.holders : g.id = c /\ End(f, c, outcome).terminal[c] = Verdict(g, outcome)
    BY <1>1, <1>2, <2>1, EndFacts
  <2>3. g = h
    OBVIOUS
  <2> QED BY <1>2, <2>2, <2>3 DEF Verdict
<1>3. CASE h.id # c
  BY <1>1, <1>3, EndFacts
<1> QED BY <1>2, <1>3

ElapsedStep == \A h \in fsm.holders : Due(h) # "NONE" => fsm'.terminal[h.id] \in {"NONE", Due(h)}

LEMMA OwnerHolders ==
  ASSUME Owner
  PROVE  /\ fsm \in Fsm /\ (\A g, h \in fsm.holders : g = h)
         /\ \A h \in fsm.holders : h.id \in Command /\ fsm.terminal[h.id] = "NONE"
BY DEF Owner, TypeOK, Fsm, Holder, OneHolder, EndedNeverReturns, Ids

LEMMA ElapsedEnd ==
  ASSUME Owner, NEW c \in Command, NEW outcome \in Ended, fsm'.terminal = End(fsm, c, outcome).terminal
  PROVE  ElapsedStep
BY OwnerHolders, EndElapsed DEF ElapsedStep

LEMMA ElapsedKept == ASSUME Owner, fsm'.terminal = fsm.terminal PROVE ElapsedStep
BY OwnerHolders DEF ElapsedStep

LEMMA ElapsedSubmit == ASSUME Owner, NEW c \in Command, SubmitVoice(c) PROVE ElapsedStep
<1> DEFINE old == IF Replaces(c) THEN End(fsm, active.id, "FAILED") ELSE fsm
<1>1. /\ old \in Fsm /\ Ids(old.holders) \in {{}, {c}}
      /\ (Replaces(c) => active.id \in Command)
  <2>1. CASE Replaces(c)
    BY <2>1, EndActive, IdsEmpty DEF Replaces, Ended
  <2>2. CASE ~Replaces(c)
    BY <2>2 DEF Replaces, Owner, TypeOK, OneOwner
  <2> QED BY <2>1, <2>2
<1>2. fsm' = old \/ fsm' = Admit(old, c)
  BY DEF SubmitVoice
<1>3. fsm'.terminal = old.terminal
  <2> HIDE DEF old
  <2> QED BY <1>1, <1>2, AdmitFacts
<1>4. CASE Replaces(c)
  BY <1>1, <1>3, <1>4, ElapsedEnd DEF Ended
<1>5. CASE ~Replaces(c)
  BY <1>3, <1>5, ElapsedKept
<1> QED BY <1>4, <1>5

LEMMA ElapsedConfirm ==
  ASSUME Owner, NEW c \in Command, NEW approved \in BOOLEAN, ConfirmVoice(c, approved)
  PROVE  ElapsedStep
<1> DEFINE holder == {h \in fsm.holders : h.id = c}
<1> DEFINE confirmed == IF holder = {} THEN fsm
                        ELSE [fsm EXCEPT !.behaviour = StateFor(Envelope[c].action)]
<1>1. /\ fsm \in Fsm /\ confirmed \in Fsm
      /\ confirmed.holders = fsm.holders /\ confirmed.terminal = fsm.terminal
  <2>1. fsm \in Fsm
    BY OwnerHolders
  <2> QED BY <2>1, EnvelopeType, StateForType DEF Fsm
<1>2. \/ fsm' = End(fsm, c, "REJECTED") \/ fsm' = fsm
      \/ fsm' = End(confirmed, c, "FAILED") \/ fsm' = confirmed
  BY DEF ConfirmVoice
<1>3. CASE fsm' = End(fsm, c, "REJECTED")
  BY <1>3, ElapsedEnd DEF Ended
<1>4. CASE fsm' = End(confirmed, c, "FAILED")
  <2> HIDE DEF confirmed
  <2> QED BY <1>1, <1>4, OwnerHolders, EndElapsed DEF Ended, ElapsedStep
<1>5. CASE fsm' = fsm \/ fsm' = confirmed
  BY <1>1, <1>5, ElapsedKept
<1> QED BY <1>2, <1>3, <1>4, <1>5

LEMMA ElapsedTick == ASSUME Owner, NEW watch, FrameTick(watch) PROVE ElapsedStep
<1> DEFINE ticked == Expire(fsm)
<1>1. ticked \in Fsm
      /\ \A h \in fsm.holders : Due(h) # "NONE" => ticked.terminal[h.id] = Due(h)
  <2>1. ticked \in Fsm
    BY OwnerHolders, ExpireFacts
  <2>2. ASSUME NEW h \in fsm.holders, Due(h) # "NONE" PROVE ticked.terminal[h.id] = Due(h)
    <3>1. h.id \in Ids({g \in fsm.holders : Due(g) # "NONE"})
      BY <2>2 DEF Ids
    <3>2. h.id \in Command /\ fsm.terminal[h.id] = "NONE" /\ fsm \in Fsm
      BY OwnerHolders
    <3>3. ticked.terminal[h.id] # "NONE"
      BY <3>1, <3>2, ExpireFacts
    <3>4. PICK g \in fsm.holders : ticked.terminal[h.id] = Due(g)
      BY <3>2, <3>3, ExpireFacts
    <3> QED BY <3>4, OwnerHolders
  <2> QED BY <2>1, <2>2
<1>2. fsm' = ticked \/ (active # None /\ fsm' = End(ticked, active.id, "SAFETY_OVERRIDE"))
  BY DEF FrameTick
<1>3. active # None => active.id \in Command
  BY DEF Owner, TypeOK, Order
<1> HIDE DEF ticked
<1>4. ASSUME NEW h \in fsm.holders, Due(h) # "NONE" PROVE fsm'.terminal[h.id] = Due(h)
  <2>1. h.id \in Command /\ ticked.terminal[h.id] = Due(h)
    BY <1>1, <1>4, OwnerHolders
  <2>2. CASE active # None /\ fsm' = End(ticked, active.id, "SAFETY_OVERRIDE")
    <3>1. ticked.terminal[h.id] # "NONE" /\ "SAFETY_OVERRIDE" \in Ended
      BY <1>4, <2>1 DEF Ended
    <3>2. End(ticked, active.id, "SAFETY_OVERRIDE").terminal[h.id] = ticked.terminal[h.id]
      BY <1>1, <1>3, <2>1, <2>2, <3>1, EndFacts
    <3> QED BY <2>1, <2>2, <3>2
  <2> QED BY <1>2, <2>1, <2>2
<1> QED BY <1>4 DEF ElapsedStep

LEMMA ElapsedNext == ASSUME Owner, [Next]_vars PROVE ElapsedStep
<1>1. active # None => active.id \in Command
  BY DEF Owner, TypeOK, Order
<1>2. CASE Callers
  <2>1. ASSUME NEW c, SubmitRejected(c) PROVE ElapsedStep
    BY <2>1, ElapsedKept DEF SubmitRejected
  <2>2. ASSUME NEW resume, FailActive(resume) PROVE ElapsedStep
    BY <1>1, <2>2, ElapsedEnd DEF FailActive, Ended
  <2>3. CASE CompleteActive
    BY <1>1, <2>3, ElapsedEnd DEF CompleteActive, Ended
  <2>4. ASSUME NEW recovered, ClearAlerts(recovered) PROVE ElapsedStep
    BY <2>4, ElapsedKept DEF ClearAlerts
  <2>5. ASSUME NEW speed, ReleaseStopHold(speed) PROVE ElapsedStep
    BY <2>5, ElapsedKept DEF ReleaseStopHold
  <2> QED BY <1>2, <2>1, <2>2, <2>3, <2>4, <2>5, ElapsedSubmit, ElapsedConfirm DEF Callers
<1>3. CASE Frame
  <2>1. FailInFrame => ElapsedStep
    BY <1>1, ElapsedEnd, ElapsedKept DEF FailInFrame, Ended
  <2>2. FrameLateral => FailInFrame \/ UNCHANGED fsm
    BY DEF FrameLateral
  <2>3. ASSUME NEW v, NEW near, NEW hazard, NEW semantic, FrameArbitrate(v, near, hazard, semantic)
        PROVE  ElapsedStep
    <3>1. \/ active # None /\ fsm' = End(fsm, active.id, "SAFETY_OVERRIDE")
          \/ active # None /\ fsm' = End(fsm, active.id, "SUCCEEDED")
          \/ fsm' = fsm
      BY <2>3 DEF FrameArbitrate, Completed, InForce
    <3> QED BY <1>1, <3>1, ElapsedEnd, ElapsedKept DEF Ended
  <2> QED BY <1>3, <2>1, <2>2, <2>3, ElapsedTick, ElapsedKept DEF Frame, FrameFails
<1>4. CASE AdvanceClock
  <2>1. fsm'.terminal = fsm.terminal
    BY <1>4, OwnerHolders DEF AdvanceClock, Fsm
  <2> QED BY <2>1, ElapsedKept
<1>5. CASE UNCHANGED vars
  BY <1>5, ElapsedKept DEF vars
<1> QED BY <1>2, <1>3, <1>4, <1>5 DEF Next

\* Elapsed authority wins over every other verdict: an operation that ends a command whose
\* lifetime or execution timeout has passed ends it as expired or timed out, never as
\* succeeded, failed, rejected or overridden (BehaviorFSM._due_feedback).
THEOREM ElapsedWinsCorrect == Spec => ElapsedWins
<1>1. Owner /\ [Next]_vars =>
        [\A h \in fsm.holders : Due(h) # "NONE" => fsm'.terminal[h.id] \in {"NONE", Due(h)}]_vars
  BY ElapsedNext DEF ElapsedStep
<1> QED BY <1>1, OwnerCorrect, PTL DEF Spec, ElapsedWins
-----------------------------------------------------------------------------
(* A speed goes with its command.                                          *)

\* From tick to the end of the frame no holder is due.
NoneDue == stage # "commands" => \A h \in fsm.holders : Due(h) = "NONE"

\* A step in which the command in force loses the vehicle takes its speed away, ends it
\* as succeeded, or is a submission that sets no speed.
SpeedStep ==
  active # None /\ authority = active.id /\ (active' = None \/ active'.id # active.id)
    => \/ authority' # authority
       \/ fsm'.terminal[authority] = "SUCCEEDED"
       \/ DisplacedWithoutASpeed

\* Ending holders leaves none due that was not.
LEMMA NoneDueKept ==
  ASSUME NoneDue, stage # "commands" \/ stage' = stage, fsm'.holders \in SUBSET fsm.holders
  PROVE  NoneDue'
<1>1. \A h \in fsm'.holders : h \in fsm.holders
  OBVIOUS
<1> QED BY <1>1 DEF NoneDue

LEMMA EndHolders ==
  ASSUME Owner, active # None, NEW outcome \in Ended, fsm' = End(fsm, active.id, outcome)
  PROVE  fsm'.holders \in SUBSET fsm.holders
<1>1. fsm'.holders = {}
  BY EndActive
<1> QED BY <1>1

\* No speed of a command is requested any more.
LEMMA SpeedGone == ASSUME Owner, authority' = None PROVE SpeedStep
<1>1. active # None => active.id \in Command
  BY DEF Owner, TypeOK, Order
<1> QED BY <1>1, NoneAssumption DEF SpeedStep

\* A success reported while nothing is due is a success.
LEMMA SpeedOfSuccess ==
  ASSUME Owner, NoneDue, stage # "commands", active # None, fsm' = End(fsm, active.id, "SUCCEEDED")
  PROVE  SpeedStep
<1>1. active.id \in Command /\ active.id \in Ids(fsm.holders) /\ fsm \in Fsm
  BY DEF Owner, TypeOK, OneOwner, Order
<1>2. fsm.terminal[active.id] = "NONE"
  BY <1>1 DEF Owner, EndedNeverReturns
<1>3. PICK h \in fsm.holders : fsm'.terminal[active.id] = Verdict(h, "SUCCEEDED")
  <2>1. "SUCCEEDED" \in Ended
    BY DEF Ended
  <2>2. \E h \in fsm.holders :
           h.id = active.id
           /\ End(fsm, active.id, "SUCCEEDED").terminal[active.id] = Verdict(h, "SUCCEEDED")
    BY <1>1, <1>2, <2>1, EndFacts
  <2> QED BY <2>2
<1>4. Due(h) = "NONE"
  BY DEF NoneDue
<1>5. fsm'.terminal[active.id] = "SUCCEEDED"
  BY <1>3, <1>4 DEF Verdict
<1> QED BY <1>5 DEF SpeedStep

\* A newer command takes the speed over, unless it sets none.
LEMMA SpeedSubmit == ASSUME Owner, NEW c \in Command, SubmitVoice(c) PROVE SpeedStep
<1> DEFINE old == IF Replaces(c) THEN End(fsm, active.id, "FAILED") ELSE fsm
<1>1. SUFFICES ASSUME active # None, authority = active.id, active' = None \/ active'.id # active.id,
                      fsm.terminal[c] = "NONE", ~Envelope[c].gated
               PROVE  authority' # authority
  BY DEF SpeedStep, DisplacedWithoutASpeed
<1>2. active.id \in Command /\ fsm \in Fsm
  BY <1>1 DEF Owner, TypeOK, Order
<1>3. ~AlreadyEnded(old, c)
  <2>1. CASE Replaces(c)
    <3>1. active.id # c /\ "FAILED" \in Ended
      BY <2>1 DEF Replaces, Ended
    <3>2. End(fsm, active.id, "FAILED").terminal[c] = "NONE"
      BY <1>1, <1>2, <3>1, EndFacts
    <3> QED BY <2>1, <3>2 DEF AlreadyEnded
  <2>2. CASE ~Replaces(c)
    BY <1>1, <2>2 DEF AlreadyEnded
  <2> QED BY <2>1, <2>2
<1>4. active' = [id |-> c, gated |-> Envelope[c].gated, left |-> Envelope[c].life]
  BY <1>3 DEF SubmitVoice
<1>5. active'.id = c /\ active' # None
  BY <1>4, EnvelopeType, NoneAssumption DEF Order
<1>6. authority' \in {c, None}
  BY <1>1, <1>3 DEF SubmitVoice, Adopt
<1> QED BY <1>1, <1>2, <1>5, <1>6, NoneAssumption

LEMMA SpeedConfirm ==
  ASSUME Owner, NEW c \in Command, NEW approved \in BOOLEAN, ConfirmVoice(c, approved)
  PROVE  SpeedStep
<1>1. \/ authority' = None
      \/ active' = active
      \/ active # None /\ active' = [active EXCEPT !.gated = FALSE]
  BY DEF ConfirmVoice, Stand, Adopt, commandVars, speedVars
<1>2. CASE active # None /\ active' = [active EXCEPT !.gated = FALSE]
  <2>1. active'.id = active.id /\ active' # None
    BY <1>2, NoneAssumption DEF Owner, TypeOK, Order
  <2> QED BY <2>1 DEF SpeedStep
<1>3. CASE active' = active
  BY <1>3 DEF SpeedStep
<1> QED BY <1>1, <1>2, <1>3, SpeedGone

LEMMA DueTick == ASSUME Owner, NEW watch, FrameTick(watch) PROVE NoneDue' /\ SpeedStep
<1> DEFINE ticked == Expire(fsm)
<1>1. ticked \in Fsm /\ ticked.holders = {h \in fsm.holders : Due(h) = "NONE"}
  BY OwnerHolders, ExpireFacts
<1>2. fsm' = ticked \/ (active # None /\ fsm' = End(ticked, active.id, "SAFETY_OVERRIDE"))
  BY DEF FrameTick
<1>3. active # None => active.id \in Command
  BY DEF Owner, TypeOK, Order
<1>4. authority' = None \/ active' = active
  BY DEF FrameTick, Cuts, speedVars, commandVars
<1> HIDE DEF ticked
<1>5. NoneDue'
  <2>1. fsm'.holders \in SUBSET ticked.holders
    <3>1. CASE active # None /\ fsm' = End(ticked, active.id, "SAFETY_OVERRIDE")
      <4>1. "SAFETY_OVERRIDE" \in Ended
        BY DEF Ended
      <4>2. End(ticked, active.id, "SAFETY_OVERRIDE").holders
              = {h \in ticked.holders : h.id # active.id}
        BY <1>1, <1>3, <3>1, <4>1, EndFacts
      <4> QED BY <3>1, <4>2
    <3> QED BY <1>2, <3>1
  <2> QED BY <1>1, <2>1 DEF NoneDue
<1>6. CASE active' = active
  BY <1>5, <1>6 DEF SpeedStep
<1> QED BY <1>4, <1>5, <1>6, SpeedGone

LEMMA DueFailInFrame ==
  ASSUME Owner, NoneDue, FailInFrame, stage # "commands" PROVE NoneDue' /\ SpeedStep
<1>1. active # None => fsm'.holders \in SUBSET fsm.holders
  BY EndHolders DEF FailInFrame, Ended
<1>2. active = None => fsm' = fsm
  BY DEF FailInFrame
<1> QED BY <1>1, <1>2, NoneDueKept, SpeedGone DEF FailInFrame

LEMMA DueArbitrate ==
  ASSUME Owner, NoneDue, NEW v, NEW near, NEW hazard, NEW semantic,
         FrameArbitrate(v, near, hazard, semantic)
  PROVE  NoneDue' /\ SpeedStep
<1> DEFINE owned == active # None /\ (TerminalReason(hazard) \/ semantic)
<1> DEFINE completed == ~owned /\ Completed(v, near)
<1>1. /\ stage = "arbitrate"
      /\ fsm' = IF owned THEN End(fsm, active.id, "SAFETY_OVERRIDE")
                ELSE IF completed THEN End(fsm, active.id, "SUCCEEDED") ELSE fsm
      /\ owned => authority' = None
      /\ ~owned /\ ~completed => active' = active
  BY DEF FrameArbitrate, Stand, ClearActive, speedVars
<1>2. completed => active # None
  BY DEF Completed, InForce
<1>3. fsm'.holders \in SUBSET fsm.holders
  BY <1>1, <1>2, EndHolders DEF Ended
<1>4. NoneDue'
  BY <1>1, <1>3, NoneDueKept
<1>5. CASE owned
  BY <1>1, <1>4, <1>5, SpeedGone
<1>6. CASE completed
  BY <1>1, <1>2, <1>4, <1>6, SpeedOfSuccess
<1>7. CASE ~owned /\ ~completed
  BY <1>1, <1>4, <1>7 DEF SpeedStep
<1> QED BY <1>5, <1>6, <1>7

LEMMA SpeedNextStep == ASSUME Owner, NoneDue, [Next]_vars PROVE NoneDue' /\ SpeedStep
<1>1. ASSUME UNCHANGED <<fsm, active, stage>> PROVE NoneDue' /\ SpeedStep
  BY <1>1 DEF NoneDue, SpeedStep
<1>2. CASE Callers
  <2>1. ASSUME NEW c, SubmitRejected(c) PROVE NoneDue' /\ SpeedStep
    BY <1>1, <2>1 DEF SubmitRejected, commandVars
  <2>2. ASSUME NEW resume, FailActive(resume) PROVE NoneDue' /\ SpeedStep
    <3>1. stage' = stage /\ authority' = None /\ fsm'.holders \in SUBSET fsm.holders
      BY <2>2, EndHolders DEF FailActive, Ended
    <3> QED BY <3>1, NoneDueKept, SpeedGone
  <2>3. CASE CompleteActive
    <3>1. stage = "after" /\ active # None /\ fsm' = End(fsm, active.id, "SUCCEEDED")
      BY <2>3 DEF CompleteActive
    <3>2. fsm'.holders \in SUBSET fsm.holders
      BY <3>1, EndHolders DEF Ended
    <3> QED BY <3>1, <3>2, NoneDueKept, SpeedOfSuccess
  <2>4. ASSUME NEW recovered, ClearAlerts(recovered) PROVE NoneDue' /\ SpeedStep
    BY <1>1, <2>4 DEF ClearAlerts, commandVars
  <2>5. ASSUME NEW speed, ReleaseStopHold(speed) PROVE NoneDue' /\ SpeedStep
    BY <1>1, <2>5 DEF ReleaseStopHold, commandVars
  <2>6. ASSUME NEW c \in Command, SubmitVoice(c) PROVE NoneDue' /\ SpeedStep
    BY <2>6, SpeedSubmit DEF SubmitVoice, NoneDue
  <2>7. ASSUME NEW c \in Command, NEW approved \in BOOLEAN, ConfirmVoice(c, approved)
        PROVE  NoneDue' /\ SpeedStep
    BY <2>7, SpeedConfirm DEF ConfirmVoice, NoneDue
  <2> QED BY <1>2, <2>1, <2>2, <2>3, <2>4, <2>5, <2>6, <2>7 DEF Callers
<1>3. CASE Frame
  <2>1. CASE FrameLateral
    <3>1. FailInFrame \/ UNCHANGED <<fsm, active>>
      BY <2>1 DEF FrameLateral, commandVars
    <3>2. ASSUME UNCHANGED <<fsm, active>> PROVE NoneDue' /\ SpeedStep
      <4>1. stage # "commands"
        BY <2>1 DEF FrameLateral
      <4> QED BY <3>2, <4>1 DEF NoneDue, SpeedStep
    <3> QED BY <2>1, <3>1, <3>2, DueFailInFrame DEF FrameLateral
  <2>2. CASE FrameFails
    BY <2>2, DueFailInFrame DEF FrameFails
  <2> QED BY <1>3, <2>1, <2>2, DueTick, DueArbitrate DEF Frame
<1>4. CASE AdvanceClock
  <2>1. NoneDue'
    BY <1>4 DEF AdvanceClock, NoneDue
  <2>2. active # None => active' # None /\ active'.id = active.id
    <3>1. SUFFICES ASSUME active # None PROVE active' # None /\ active'.id = active.id
      OBVIOUS
    <3>2. active \in Order /\ active' = [active EXCEPT !.left = IF @ = 0 THEN 0 ELSE @ - 1]
      BY <1>4, <3>1 DEF AdvanceClock, Owner, TypeOK
    <3>3. active' \in Order /\ active'.id = active.id
      BY <3>2 DEF Order
    <3> QED BY <3>3, NoneAssumption
  <2> QED BY <2>1, <2>2 DEF SpeedStep
<1>5. CASE UNCHANGED vars
  BY <1>1, <1>5 DEF vars, commandVars
<1> QED BY <1>2, <1>3, <1>4, <1>5 DEF Next

\* For every set of commands, gated or not, and however often ids are delivered: a command
\* that loses the vehicle takes its speed with it or has succeeded, whatever ended it;
\* only submit_voice of a command that ended before, or that waits for confirmation,
\* clears the command in force and leaves its speed requested.
THEOREM SpeedGoesWithItsCommandCorrect == Spec => SpeedGoesWithItsCommand
<1>1. Init => NoneDue
  BY DEF Init, NoneDue
<1>2. Owner /\ NoneDue /\ [Next]_vars => NoneDue'
  BY SpeedNextStep
<1>3. Owner /\ NoneDue /\ [Next]_vars =>
        [active # None /\ authority = active.id /\ (active' = None \/ active'.id # active.id)
           => \/ authority' # authority
              \/ fsm'.terminal[authority] = "SUCCEEDED"
              \/ DisplacedWithoutASpeed]_vars
  BY SpeedNextStep DEF SpeedStep
<1> QED BY <1>1, <1>2, <1>3, OwnerCorrect, PTL DEF Spec, SpeedGoesWithItsCommand
-----------------------------------------------------------------------------
(* What is told of the commands.                                           *)

\* The record of a command in force ends no earlier than its holder does, and neither
\* outlives the envelope.
LeftOver ==
  \A h \in fsm.holders : h.left <= Envelope[h.id].life /\ (active # None => h.left <= active.left)

Telling == NoneDue /\ LeftOver /\ EndsAreReported

\* What an operation adds to the feedback: every end it brings about, and no other.
LEMMA ReportStep ==
  ASSUME Owner, EndsAreReported, NEW new \in Feedbacks,
         \A d \in Command : fsm.terminal[d] # "NONE" => fsm'.terminal[d] = fsm.terminal[d],
         \A d \in Command : fsm.terminal[d] = "NONE" /\ fsm'.terminal[d] # "NONE"
                              => <<d, fsm'.terminal[d]>> \in new,
         pending' \cup reported' = pending \cup reported \cup new,
         \A r \in new : r[2] \in {fsm'.terminal[r[1]], "REJECTED"}
  PROVE  EndsAreReported'
<1>1. EndsAreTold'
  BY DEF EndsAreReported, EndsAreTold
<1>2. ASSUME NEW r \in pending \cup reported
      PROVE  r[2] \in {fsm'.terminal[r[1]], "REJECTED"}
  <2>1. r[1] \in Command /\ r[2] \in Ended /\ "NONE" \notin Ended
    BY DEF Owner, TypeOK, Ended
  <2>2. r[2] \in {fsm.terminal[r[1]], "REJECTED"}
    BY DEF EndsAreReported, ReportsAgree
  <2> QED BY <2>1, <2>2
<1>3. ReportsAgree'
  BY <1>2 DEF ReportsAgree
<1> QED BY <1>1, <1>3 DEF EndsAreReported

\* Nothing ends and nothing is told.
LEMMA ReportKept ==
  ASSUME Owner, EndsAreReported, fsm'.terminal = fsm.terminal,
         pending' \cup reported' = pending \cup reported
  PROVE  EndsAreReported'
BY DEF EndsAreReported, EndsAreTold, ReportsAgree

\* The feedback of a command that is ended covers what ending it changes.
LEMMA EndReport ==
  ASSUME NEW f \in Fsm, NEW c \in Command, NEW outcome \in Ended
  PROVE  /\ Feedback(End(f, c, outcome), c) \in Feedbacks
         /\ \A d \in Command : f.terminal[d] # "NONE" => End(f, c, outcome).terminal[d] = f.terminal[d]
         /\ \A d \in Command : f.terminal[d] = "NONE" /\ End(f, c, outcome).terminal[d] # "NONE"
              => <<d, End(f, c, outcome).terminal[d]>> \in Feedback(End(f, c, outcome), c)
         /\ \A r \in Feedback(End(f, c, outcome), c) :
              r[1] = c /\ r[2] = End(f, c, outcome).terminal[c]
<1> DEFINE g == End(f, c, outcome)
<1>1. /\ g \in Fsm
      /\ \A d \in Command : f.terminal[d] # "NONE" => g.terminal[d] = f.terminal[d]
      /\ \A d \in Command : f.terminal[d] = "NONE" /\ g.terminal[d] # "NONE" => d = c
  BY EndFacts
<1> HIDE DEF g
<1>2. Feedback(g, c) \in Feedbacks
  BY <1>1, FeedbackType DEF Feedbacks
<1>3. \A d \in Command : f.terminal[d] = "NONE" /\ g.terminal[d] # "NONE"
        => <<d, g.terminal[d]>> \in Feedback(g, c)
  BY <1>1 DEF Feedback
<1>4. \A r \in Feedback(g, c) : r[1] = c /\ r[2] = g.terminal[c]
  BY DEF Feedback
<1> QED BY <1>1, <1>2, <1>3, <1>4 DEF g

\* An operation that ends a command and says so.
LEMMA EndTold ==
  ASSUME Owner, EndsAreReported, NEW f \in Fsm, f.terminal = fsm.terminal,
         NEW c \in Command, NEW outcome \in Ended, fsm'.terminal = End(f, c, outcome).terminal,
         NEW also \in Feedbacks, \A r \in also : r[2] \in {fsm'.terminal[r[1]], "REJECTED"},
         pending' \cup reported' = pending \cup reported \cup Feedback(End(f, c, outcome), c) \cup also
  PROVE  EndsAreReported'
<1> DEFINE told == Feedback(End(f, c, outcome), c)
<1>1. /\ told \in Feedbacks
      /\ \A d \in Command : fsm.terminal[d] # "NONE" => fsm'.terminal[d] = fsm.terminal[d]
      /\ \A d \in Command : fsm.terminal[d] = "NONE" /\ fsm'.terminal[d] # "NONE"
           => <<d, fsm'.terminal[d]>> \in told
      /\ \A r \in told : r[2] = fsm'.terminal[r[1]]
  BY EndReport
<1> HIDE DEF told
<1>2. told \cup also \in Feedbacks
  BY <1>1 DEF Feedbacks
<1>3. pending' \cup reported' = pending \cup reported \cup (told \cup also)
  BY DEF told
<1> QED BY <1>1, <1>2, <1>3, ReportStep

\* The command in force is ended and reported.
LEMMA ActiveEndTold ==
  ASSUME Owner, EndsAreReported, active # None, NEW outcome \in Ended,
         fsm' = End(fsm, active.id, outcome), UNCHANGED pending,
         NEW also \in Feedbacks, \A r \in also : r[2] \in {fsm'.terminal[r[1]], "REJECTED"},
         reported' = reported \cup also \cup Feedback(fsm', active.id)
  PROVE  EndsAreReported'
<1>1. active.id \in Command /\ fsm \in Fsm
  BY EndActive DEF Owner, TypeOK
<1>2. pending' \cup reported' = pending \cup reported \cup Feedback(fsm', active.id) \cup also
  OBVIOUS
<1> QED BY <1>1, <1>2, EndTold

\* Holders that go take their lifetimes with them.
LEMMA LeftOverKept ==
  ASSUME LeftOver, fsm'.holders \in SUBSET fsm.holders,
         active' # None => active # None /\ active'.left = active.left
  PROVE  LeftOver'
<1>1. \A h \in fsm'.holders : h \in fsm.holders
  OBVIOUS
<1> QED BY <1>1 DEF LeftOver

LEMMA NobodyLeft ==
  ASSUME fsm'.holders = {} PROVE LeftOver' /\ NoneDue'
BY DEF LeftOver, NoneDue

\* submit_voice: the superseded command's end and, of an id that has ended, its record.
LEMMA TellingSubmit == ASSUME Owner, Telling, NEW c \in Command, SubmitVoice(c) PROVE Telling'
<1> DEFINE old == IF Replaces(c) THEN End(fsm, active.id, "FAILED") ELSE fsm
<1>1. fsm \in Fsm /\ EndsAreReported /\ LeftOver /\ "FAILED" \in Ended
  BY DEF Owner, TypeOK, Telling, Ended
<1>2. /\ old \in Fsm /\ Ids(old.holders) \in {{}, {c}} /\ SupersededFeedback(old, c) \in Feedbacks
      /\ (Replaces(c) => old.holders = {}) /\ (~Replaces(c) => old = fsm)
      /\ \A d \in Command : fsm.terminal[d] # "NONE" => old.terminal[d] = fsm.terminal[d]
      /\ \A d \in Command : fsm.terminal[d] = "NONE" /\ old.terminal[d] # "NONE"
           => <<d, old.terminal[d]>> \in SupersededFeedback(old, c)
      /\ \A r \in SupersededFeedback(old, c) : r[2] = old.terminal[r[1]]
  <2>1. CASE Replaces(c)
    <3>1. active # None /\ active.id \in Command
      BY <2>1, EndActive, <1>1 DEF Replaces
    <3>2. old = End(fsm, active.id, "FAILED")
      BY <2>1
    <3>3. SupersededFeedback(old, c) = Feedback(old, active.id)
      BY <2>1 DEF SupersededFeedback
    <3>4. old \in Fsm /\ old.holders = {} /\ Feedback(old, active.id) \in Feedbacks
      BY <1>1, <3>1, <3>2, EndActive
    <3>5. /\ \A d \in Command : fsm.terminal[d] # "NONE" => old.terminal[d] = fsm.terminal[d]
          /\ \A d \in Command : fsm.terminal[d] = "NONE" /\ old.terminal[d] # "NONE"
               => <<d, old.terminal[d]>> \in Feedback(old, active.id)
          /\ \A r \in Feedback(old, active.id) : r[2] = old.terminal[r[1]]
      BY <1>1, <3>1, <3>2, EndReport
    <3> HIDE DEF old
    <3> QED BY <2>1, <3>3, <3>4, <3>5, IdsEmpty
  <2>2. CASE ~Replaces(c)
    <3>1. old = fsm /\ SupersededFeedback(old, c) = {}
      BY <2>2 DEF SupersededFeedback
    <3>2. Ids(fsm.holders) \in {{}, {c}}
      BY <2>2 DEF Replaces, Owner, OneOwner
    <3> HIDE DEF old
    <3> QED BY <1>1, <2>2, <3>1, <3>2 DEF Feedbacks
  <2> QED BY <2>1, <2>2
<1>3. stage = "commands" /\ UNCHANGED <<stage, reported>>
  BY DEF SubmitVoice
<1>4. NoneDue'
  BY <1>3 DEF NoneDue
<1>5. CASE AlreadyEnded(old, c)
  <2>1. /\ fsm' = old
        /\ pending' = pending \cup SupersededFeedback(old, c) \cup Feedback(old, c)
        /\ IF Replaces(c) THEN ClearActive ELSE UNCHANGED commandVars
    BY <1>5 DEF SubmitVoice
  <2> HIDE DEF old
  <2>2. Feedback(old, c) \in Feedbacks /\ \A r \in Feedback(old, c) : r[2] = old.terminal[r[1]]
    BY <1>2, FeedbackType DEF Feedbacks, Feedback
  <2> DEFINE new == SupersededFeedback(old, c) \cup Feedback(old, c)
  <2>3. /\ new \in Feedbacks /\ \A r \in new : r[2] \in {fsm'.terminal[r[1]], "REJECTED"}
        /\ \A d \in Command : fsm.terminal[d] = "NONE" /\ fsm'.terminal[d] # "NONE"
             => <<d, fsm'.terminal[d]>> \in new
        /\ pending' \cup reported' = pending \cup reported \cup new
    BY <1>2, <1>3, <2>1, <2>2 DEF Feedbacks
  <2> HIDE DEF new
  <2>4. EndsAreReported'
    BY <1>1, <1>2, <2>1, <2>3, ReportStep
  <2>5. LeftOver'
    <3>1. CASE Replaces(c)
      BY <1>2, <2>1, <3>1, NobodyLeft
    <3>2. CASE ~Replaces(c)
      <4>1. fsm' = fsm /\ active' = active
        BY <1>2, <2>1, <3>2 DEF commandVars
      <4> QED BY <1>1, <4>1, LeftOverKept
    <3> QED BY <3>1, <3>2
  <2> QED BY <1>4, <2>4, <2>5 DEF Telling
<1>6. CASE ~AlreadyEnded(old, c)
  <2>1. /\ fsm' = Admit(old, c)
        /\ pending' = pending \cup SupersededFeedback(old, c)
        /\ active' = [id |-> c, gated |-> Envelope[c].gated, left |-> Envelope[c].life]
    BY <1>6 DEF SubmitVoice
  <2> HIDE DEF old
  <2>2. fsm'.terminal = old.terminal
    BY <1>2, <2>1, AdmitFacts
  <2>3. EndsAreReported'
    <3>1. pending' \cup reported' = pending \cup reported \cup SupersededFeedback(old, c)
      BY <1>3, <2>1
    <3> QED BY <1>1, <1>2, <2>2, <3>1, ReportStep
  <2>4. \A h \in fsm'.holders : h.left <= Envelope[c].life /\ h.id = c
    <3>1. CASE c \in Ids(old.holders)
      <4>1. old = fsm /\ fsm' = old
        BY <1>2, <2>1, <3>1, IdsEmpty DEF Admit
      <4>2. \A h \in fsm.holders : h.id = c
        BY <1>2, <3>1, <4>1 DEF Ids
      <4> QED BY <1>1, <4>1, <4>2 DEF LeftOver
    <3>2. CASE c \notin Ids(old.holders)
      <4> DEFINE new == [id |-> c, left |-> Envelope[c].life, age |-> 0]
      <4>1. fsm'.holders = {new}
        <5> DEFINE base == Finish(old, old.holders, [h \in old.holders |-> "FAILED"])
        <5>1. base = [holders |-> base.holders, terminal |-> base.terminal, behaviour |-> base.behaviour]
          BY DEF Finish
        <5>2. fsm' = [base EXCEPT !.holders = {new},
                        !.behaviour = IF Envelope[c].gated THEN "CONFIRMING"
                                      ELSE StateFor(Envelope[c].action)]
          BY <2>1, <3>2 DEF Admit
        <5> HIDE DEF base, new
        <5> QED BY <5>1, <5>2
      <4>2. new.left = Envelope[c].life /\ new.id = c
        OBVIOUS
      <4>3. Envelope[c].life \in Nat
        BY EnvelopeType
      <4> HIDE DEF new
      <4> QED BY <4>1, <4>2, <4>3
    <3> QED BY <3>1, <3>2
  <2>5. LeftOver'
    <3>1. active'.left = Envelope[c].life
      BY <2>1
    <3> QED BY <2>4, <3>1 DEF LeftOver
  <2> QED BY <1>4, <2>3, <2>5 DEF Telling
<1> QED BY <1>5, <1>6

LEMMA TellingConfirm ==
  ASSUME Owner, Telling, NEW c \in Command, NEW approved \in BOOLEAN, ConfirmVoice(c, approved)
  PROVE  Telling'
<1> DEFINE holder == {h \in fsm.holders : h.id = c}
<1> DEFINE ends == \E h \in holder : Due(h) # "NONE" \/ ~approved
<1> DEFINE after == IF ends THEN End(fsm, c, "REJECTED") ELSE fsm
<1> DEFINE mine == active # None /\ active.id = c
<1> DEFINE confirmed == IF holder = {} THEN fsm
                        ELSE [fsm EXCEPT !.behaviour = StateFor(Envelope[c].action)]
<1> DEFINE failed == End(confirmed, c, "FAILED")
<1>1. /\ fsm \in Fsm /\ EndsAreReported /\ LeftOver /\ {} \in Feedbacks
      /\ "REJECTED" \in Ended /\ "FAILED" \in Ended
  BY DEF Owner, TypeOK, Telling, Ended, Feedbacks
<1>2. stage = "commands" /\ UNCHANGED stage
  BY DEF ConfirmVoice
<1>3. NoneDue'
  BY <1>2 DEF NoneDue
<1>4. /\ confirmed \in Fsm /\ confirmed.holders = fsm.holders
      /\ confirmed.terminal = fsm.terminal
  BY <1>1, EnvelopeType, StateForType DEF Fsm
<1>5. CASE after.terminal[c] # "NONE"
  <2>1. /\ fsm' = after
        /\ pending' = pending \cup Feedback(after, c) /\ reported' = reported \cup Feedback(after, c)
        /\ active' = None \/ active' = active
    BY <1>5 DEF ConfirmVoice, ClearActive, commandVars
  <2>2. fsm'.holders \in SUBSET fsm.holders
    <3>1. End(fsm, c, "REJECTED").holders = {h \in fsm.holders : h.id # c}
      BY <1>1, EndFacts
    <3> QED BY <2>1, <3>1
  <2>3. LeftOver'
    BY <1>1, <2>1, <2>2, LeftOverKept
  <2>4. CASE ends
    <3>1. fsm' = End(fsm, c, "REJECTED")
      BY <2>1, <2>4
    <3>2. pending' \cup reported' = pending \cup reported \cup Feedback(End(fsm, c, "REJECTED"), c) \cup {}
      BY <2>1, <3>1
    <3>3. EndsAreReported'
      BY <1>1, <3>1, <3>2, EndTold
    <3> QED BY <1>3, <2>3, <3>3 DEF Telling
  <2>5. CASE ~ends
    <3>1. fsm' = fsm /\ Feedback(fsm, c) \in Feedbacks
      BY <1>1, <2>1, <2>5, FeedbackType DEF Feedbacks
    <3>2. \A r \in Feedback(fsm, c) : r[2] \in {fsm'.terminal[r[1]], "REJECTED"}
      BY <3>1 DEF Feedback
    <3>3. pending' \cup reported' = pending \cup reported \cup Feedback(fsm, c)
      BY <2>1, <3>1
    <3>4. EndsAreReported'
      BY <1>1, <3>1, <3>2, <3>3, ReportStep
    <3> QED BY <1>3, <2>3, <3>4 DEF Telling
  <2> QED BY <2>4, <2>5
<1>6. CASE after.terminal[c] = "NONE" /\ mine /\ Envelope[c].action = "MULTIMODAL_DECISION"
  <2>1. /\ fsm' = failed /\ active' = None
        /\ pending' = pending \cup Feedback(failed, c) /\ reported' = reported \cup Feedback(failed, c)
    BY <1>6 DEF ConfirmVoice, ClearActive
  <2> HIDE DEF confirmed
  <2>2. fsm'.holders \in SUBSET fsm.holders
    <3>1. failed.holders = {h \in confirmed.holders : h.id # c}
      BY <1>1, <1>4, EndFacts
    <3> QED BY <1>4, <2>1, <3>1
  <2>3. LeftOver'
    BY <1>1, <2>1, <2>2, LeftOverKept
  <2>4. pending' \cup reported' = pending \cup reported \cup Feedback(End(confirmed, c, "FAILED"), c) \cup {}
    BY <2>1
  <2>5. EndsAreReported'
    BY <1>1, <1>4, <2>1, <2>4, EndTold
  <2> QED BY <1>3, <2>3, <2>5 DEF Telling
<1>7. CASE after.terminal[c] = "NONE" /\ ~(mine /\ Envelope[c].action = "MULTIMODAL_DECISION")
  <2>1. /\ fsm' = confirmed /\ UNCHANGED <<pending, reported>>
        /\ active' = IF mine THEN [active EXCEPT !.gated = FALSE] ELSE active
    BY <1>7 DEF ConfirmVoice
  <2> HIDE DEF confirmed
  <2>2. EndsAreReported'
    BY <1>1, <1>4, <2>1, ReportKept
  <2>3. active' # None => active # None /\ active'.left = active.left
    BY <2>1, NoneAssumption DEF Owner, TypeOK, Order
  <2>4. LeftOver'
    BY <1>1, <1>4, <2>1, <2>3, LeftOverKept
  <2> QED BY <1>3, <2>2, <2>4 DEF Telling
<1> QED BY <1>5, <1>6, <1>7

\* A frame's tick: what waited, what lapsed and what the watchdog seized is told.
LEMMA TellingTick ==
  ASSUME Owner, Telling, NEW watch \in SUBSET Alerts, FrameTick(watch) PROVE Telling'
<1> DEFINE ticked == Expire(fsm)
<1> DEFINE finished == UNION {Feedback(ticked, c) : c \in Ids(fsm.holders) \ Ids(ticked.holders)}
<1> DEFINE seized == watch # {} /\ active # None
<1>1. /\ fsm' = IF seized THEN End(ticked, active.id, "SAFETY_OVERRIDE") ELSE ticked
      /\ reported' = reported \cup pending \cup finished
                       \cup (IF seized THEN OverrideFeedback(fsm') ELSE {})
      /\ pending' = {} /\ (active' = None \/ active' = active)
  BY DEF FrameTick, ClearActive, commandVars
<1>2. fsm \in Fsm /\ EndsAreReported /\ LeftOver /\ "SAFETY_OVERRIDE" \in Ended
  BY DEF Owner, TypeOK, Telling, Ended
<1>3. active # None => active.id \in Command
  BY DEF Owner, TypeOK, Order
<1>4. /\ ticked \in Fsm /\ ticked.holders = {h \in fsm.holders : Due(h) = "NONE"}
      /\ \A d \in Command : fsm.terminal[d] # "NONE" => ticked.terminal[d] = fsm.terminal[d]
      /\ \A d \in Command : ticked.terminal[d] = "NONE" <=>
           /\ fsm.terminal[d] = "NONE"
           /\ d \notin Ids({h \in fsm.holders : Due(h) # "NONE"})
  BY <1>2, ExpireFacts
<1> HIDE DEF ticked
<1>5. Ids(fsm.holders) \in SUBSET Command
  BY OwnerHolders DEF Ids
<1>6. /\ finished \in Feedbacks
      /\ \A r \in finished : r[1] \in Command /\ r[2] = ticked.terminal[r[1]] /\ r[2] # "NONE"
  <2>1. \A c \in Ids(fsm.holders) : Feedback(ticked, c) \in Feedbacks
    BY <1>4, <1>5, FeedbackType DEF Feedbacks
  <2>2. finished \in Feedbacks
    BY <2>1 DEF Feedbacks
  <2>3. \A c \in Ids(fsm.holders) : \A r \in Feedback(ticked, c) :
          r[1] \in Command /\ r[2] = ticked.terminal[r[1]] /\ r[2] # "NONE"
    BY <1>5 DEF Feedback
  <2> QED BY <2>2, <2>3
<1>7. ASSUME NEW d \in Command, fsm.terminal[d] = "NONE", ticked.terminal[d] # "NONE"
      PROVE  <<d, ticked.terminal[d]>> \in finished
  <2>1. d \in Ids({h \in fsm.holders : Due(h) # "NONE"})
    BY <1>4, <1>7
  <2>2. PICK h \in fsm.holders : h.id = d /\ Due(h) # "NONE"
    BY <2>1 DEF Ids
  <2>3. d \notin Ids(ticked.holders)
    BY <1>4, <2>2, OwnerHolders DEF Ids
  <2>4. d \in Ids(fsm.holders) \ Ids(ticked.holders)
    BY <2>2, <2>3 DEF Ids
  <2>5. <<d, ticked.terminal[d]>> \in Feedback(ticked, d)
    BY <1>7 DEF Feedback
  <2> QED BY <2>4, <2>5
<1> HIDE DEF finished
<1>8. \A h \in ticked.holders : Due(h) = "NONE" /\ h \in fsm.holders
  BY <1>4
<1>9. CASE seized
  <2> DEFINE seizure == Feedback(fsm', active.id)
  <2>1. fsm' = End(ticked, active.id, "SAFETY_OVERRIDE") /\ active.id \in Command
    BY <1>1, <1>3, <1>9
  <2>2. /\ seizure \in Feedbacks
        /\ \A d \in Command : ticked.terminal[d] # "NONE" => fsm'.terminal[d] = ticked.terminal[d]
        /\ \A d \in Command : ticked.terminal[d] = "NONE" /\ fsm'.terminal[d] # "NONE"
             => <<d, fsm'.terminal[d]>> \in seizure
        /\ \A r \in seizure : r[2] = fsm'.terminal[r[1]]
        /\ fsm'.holders = {h \in ticked.holders : h.id # active.id}
    BY <1>2, <1>4, <2>1, EndReport, EndFacts
  <2>3. reported' = reported \cup pending \cup finished \cup seizure
    BY <1>1, <1>9 DEF OverrideFeedback
  <2> HIDE DEF seizure
  <2> DEFINE new == finished \cup seizure
  <2>4. /\ new \in Feedbacks /\ pending' \cup reported' = pending \cup reported \cup new
        /\ \A r \in new : r[2] \in {fsm'.terminal[r[1]], "REJECTED"}
    BY <1>1, <1>6, <2>2, <2>3 DEF Feedbacks
  <2>5. /\ \A d \in Command : fsm.terminal[d] # "NONE" => fsm'.terminal[d] = fsm.terminal[d]
        /\ \A d \in Command : fsm.terminal[d] = "NONE" /\ fsm'.terminal[d] # "NONE"
             => <<d, fsm'.terminal[d]>> \in new
    BY <1>4, <1>7, <2>2
  <2> HIDE DEF new
  <2>6. EndsAreReported'
    BY <1>2, <2>4, <2>5, ReportStep
  <2>7. fsm'.holders \in SUBSET fsm.holders /\ \A h \in fsm'.holders : Due(h) = "NONE"
    BY <1>8, <2>2
  <2>8. LeftOver'
    BY <1>1, <1>2, <2>7, LeftOverKept
  <2> QED BY <2>6, <2>7, <2>8 DEF Telling, NoneDue
<1>10. CASE ~seized
  <2>1. fsm' = ticked /\ reported' = reported \cup pending \cup finished
    BY <1>1, <1>10
  <2>2. EndsAreReported'
    <3>1. pending' \cup reported' = pending \cup reported \cup finished
      BY <1>1, <2>1
    <3> QED BY <1>2, <1>4, <1>6, <1>7, <2>1, <3>1, ReportStep
  <2>3. fsm'.holders \in SUBSET fsm.holders /\ \A h \in fsm'.holders : Due(h) = "NONE"
    BY <1>8, <2>1
  <2>4. LeftOver'
    BY <1>1, <1>2, <2>3, LeftOverKept
  <2> QED BY <2>2, <2>3, <2>4 DEF Telling, NoneDue
<1> QED BY <1>9, <1>10

LEMMA TellingFailInFrame ==
  ASSUME Owner, Telling, FailInFrame, UNCHANGED pending, stage # "commands" PROVE Telling'
<1>1. CASE active = None
  BY <1>1 DEF FailInFrame, commandVars, Telling, NoneDue, LeftOver, EndsAreReported, EndsAreTold, ReportsAgree
<1>2. CASE active # None
  <2>1. /\ fsm' = End(fsm, active.id, "FAILED") /\ "FAILED" \in Ended
        /\ reported' = reported \cup {} \cup Feedback(fsm', active.id)
    BY <1>2 DEF FailInFrame, Ended
  <2>2. fsm'.holders = {} /\ {} \in Feedbacks
    BY <1>2, <2>1, EndActive DEF Feedbacks
  <2>3. EndsAreReported'
    BY <1>2, <2>1, <2>2, ActiveEndTold DEF Telling
  <2> QED BY <2>2, <2>3, NobodyLeft DEF Telling
<1> QED BY <1>1, <1>2

\* The frame's end: an audit is told only of a command that has lapsed, and in the stages
\* after tick none has.
LEMMA TellingArbitrate ==
  ASSUME Owner, Telling, NEW v, NEW near, NEW hazard, NEW semantic,
         FrameArbitrate(v, near, hazard, semantic)
  PROVE  Telling'
<1> DEFINE audit == IF Unconfirmed /\ active.left = 0 THEN {<<active.id, "EXPIRED">>} ELSE {}
<1> DEFINE owned == active # None /\ (TerminalReason(hazard) \/ semantic)
<1> DEFINE completed == ~owned /\ Completed(v, near)
<1>1. /\ stage = "arbitrate" /\ UNCHANGED pending
      /\ fsm' = IF owned THEN End(fsm, active.id, "SAFETY_OVERRIDE")
                ELSE IF completed THEN End(fsm, active.id, "SUCCEEDED") ELSE fsm
      /\ reported' = reported \cup audit
                       \cup (IF owned \/ completed THEN Feedback(fsm', active.id) ELSE {})
      /\ active' = None \/ active' = active
  BY DEF FrameArbitrate, ClearActive
<1>2. completed => active # None
  BY DEF Completed, InForce
<1>3. audit = {}
  <2>1. SUFFICES ASSUME active # None, active.left = 0 PROVE FALSE
    BY DEF Unconfirmed
  <2>2. PICK h \in fsm.holders : h.id = active.id
    BY <2>1 DEF Owner, OneOwner, Ids
  <2>3. h.left <= 0 /\ Due(h) = "NONE"
    BY <1>1, <2>1 DEF Telling, LeftOver, NoneDue
  <2>4. h.left \in Nat
    BY DEF Owner, TypeOK, Fsm, Holder
  <2> QED BY <2>3, <2>4 DEF Due
<1>4. {} \in Feedbacks
  BY DEF Feedbacks
<1> HIDE DEF audit
<1>5. CASE owned \/ completed
  <2>1. PICK outcome \in Ended : fsm' = End(fsm, active.id, outcome)
    BY <1>1, <1>5 DEF Ended
  <2>2. active # None /\ fsm'.holders = {}
    BY <1>2, <1>5, <2>1, EndActive
  <2>3. reported' = reported \cup {} \cup Feedback(fsm', active.id)
    BY <1>1, <1>3, <1>5
  <2>4. EndsAreReported'
    BY <1>1, <1>4, <2>1, <2>2, <2>3, ActiveEndTold DEF Telling
  <2> QED BY <2>2, <2>4, NobodyLeft DEF Telling
<1>6. CASE ~(owned \/ completed)
  <2>1. fsm' = fsm /\ reported' = reported
    BY <1>1, <1>3, <1>6
  <2>2. EndsAreReported'
    BY <1>1, <2>1, ReportKept DEF Telling
  <2>3. LeftOver'
    BY <1>1, <2>1, LeftOverKept DEF Telling
  <2> QED BY <1>1, <2>1, <2>2, <2>3, NoneDueKept DEF Telling
<1> QED BY <1>5, <1>6

\* The clock shortens the record of the command in force as it does its holder's.
LEMMA TellingClock == ASSUME Owner, Telling, AdvanceClock PROVE Telling'
<1> DEFINE older(h) == [h EXCEPT !.left = IF h.left = 0 THEN 0 ELSE h.left - 1,
                                 !.age = IF h.age > Timeout THEN h.age ELSE h.age + 1]
<1>1. /\ fsm'.holders = {older(h) : h \in fsm.holders} /\ fsm'.terminal = fsm.terminal
      /\ stage' = "commands" /\ UNCHANGED <<pending, reported>>
  BY OwnerHolders DEF AdvanceClock, Fsm
<1>2. EndsAreReported'
  BY <1>1, ReportKept DEF Telling
<1>3. active' # None => /\ active # None /\ active.left \in Nat
                        /\ active'.left = IF active.left = 0 THEN 0 ELSE active.left - 1
  BY DEF AdvanceClock, Owner, TypeOK, Order
<1>4. \A h \in fsm.holders : /\ older(h).id = h.id /\ h.left \in Nat /\ h.id \in Command
                             /\ older(h).left = IF h.left = 0 THEN 0 ELSE h.left - 1
  <2>1. \A h \in Holder : /\ older(h).id = h.id /\ h.left \in Nat /\ h.id \in Command
                          /\ older(h).left = IF h.left = 0 THEN 0 ELSE h.left - 1
    BY DEF Holder
  <2> QED BY <2>1, OwnerHolders DEF Fsm
<1> HIDE DEF older
<1>5. ASSUME NEW h \in fsm.holders
      PROVE  /\ older(h).left <= Envelope[older(h).id].life
             /\ active' # None => older(h).left <= active'.left
  <2>1. h.left <= Envelope[h.id].life /\ (active # None => h.left <= active.left)
    BY DEF Telling, LeftOver
  <2>2. Envelope[h.id].life \in Nat
    BY <1>4, EnvelopeType
  <2>3. older(h).left <= Envelope[older(h).id].life
    BY <1>4, <2>1, <2>2
  <2>4. ASSUME active' # None PROVE older(h).left <= active'.left
    <3>1. active # None /\ active.left \in Nat
          /\ active'.left = IF active.left = 0 THEN 0 ELSE active.left - 1
      BY <1>3, <2>4
    <3>2. h.left <= active.left
      BY <2>1, <3>1
    <3> QED BY <1>4, <3>1, <3>2
  <2> QED BY <2>3, <2>4
<1>6. LeftOver'
  BY <1>1, <1>5 DEF LeftOver
<1> QED BY <1>1, <1>2, <1>6 DEF Telling, NoneDue

LEMMA TellingStep == ASSUME Owner, Telling, [Next]_vars PROVE Telling'
<1>1. {} \in Feedbacks
  BY DEF Feedbacks
<1>2. ASSUME UNCHANGED <<fsm, active, stage, pending, reported>> PROVE Telling'
  BY <1>2 DEF Telling, NoneDue, LeftOver, EndsAreReported, EndsAreTold, ReportsAgree
<1>3. ASSUME active # None, active' = None, stage' = stage, UNCHANGED pending,
             NEW outcome \in Ended, fsm' = End(fsm, active.id, outcome),
             reported' = reported \cup Feedback(fsm', active.id)
      PROVE  Telling'
  <2>1. fsm'.holders = {}
    BY <1>3, EndActive
  <2>2. reported' = reported \cup {} \cup Feedback(fsm', active.id)
    BY <1>3
  <2>3. EndsAreReported'
    BY <1>1, <1>3, <2>2, ActiveEndTold DEF Telling
  <2> QED BY <2>1, <2>3, NobodyLeft DEF Telling
<1>4. CASE Callers
  <2>1. ASSUME NEW c \in Command, SubmitRejected(c) PROVE Telling'
    <3>1. /\ pending' = pending \cup {<<c, "REJECTED">>} /\ UNCHANGED <<fsm, active, stage, reported>>
      BY <2>1 DEF SubmitRejected, commandVars
    <3> DEFINE new == {<<c, "REJECTED">>}
    <3>2. new \in Feedbacks /\ \A r \in new : r[2] = "REJECTED"
      BY DEF Feedbacks, Ended
    <3>3. pending' \cup reported' = pending \cup reported \cup new
      BY <3>1
    <3> HIDE DEF new
    <3>4. EndsAreReported'
      BY <3>1, <3>2, <3>3, ReportStep DEF Telling
    <3> QED BY <3>1, <3>4 DEF Telling, NoneDue, LeftOver
  <2>2. ASSUME NEW resume, FailActive(resume) PROVE Telling'
    BY <1>3, <2>2 DEF FailActive, ClearActive, Ended
  <2>3. CASE CompleteActive
    BY <1>3, <2>3 DEF CompleteActive, ClearActive, Ended
  <2>4. ASSUME NEW recovered, ClearAlerts(recovered) PROVE Telling'
    BY <1>2, <2>4 DEF ClearAlerts, commandVars
  <2>5. ASSUME NEW speed, ReleaseStopHold(speed) PROVE Telling'
    BY <1>2, <2>5 DEF ReleaseStopHold, commandVars
  <2> QED BY <1>4, <2>1, <2>2, <2>3, <2>4, <2>5, TellingSubmit, TellingConfirm DEF Callers
<1>5. CASE Frame
  <2>1. CASE \E watch \in {{}, {"WATCHDOG"}} : FrameTick(watch)
    <3>1. {} \in SUBSET Alerts /\ {"WATCHDOG"} \in SUBSET Alerts
      BY DEF Alerts
    <3> QED BY <2>1, <3>1, TellingTick
  <2>2. CASE FrameLateral
    <3>1. stage = "lateral" /\ UNCHANGED pending
      BY <2>2 DEF FrameLateral
    <3>2. CASE FailInFrame
      BY <3>1, <3>2, TellingFailInFrame
    <3>3. CASE UNCHANGED <<fsm, commandVars, reported>>
      BY <3>1, <3>3 DEF commandVars, Telling, NoneDue, LeftOver, EndsAreReported, EndsAreTold, ReportsAgree
    <3> QED BY <2>2, <3>2, <3>3 DEF FrameLateral
  <2>3. CASE FrameFails
    <3>1. FailInFrame /\ stage # "commands" /\ UNCHANGED pending
      BY <2>3 DEF FrameFails
    <3> QED BY <3>1, TellingFailInFrame
  <2> QED BY <1>5, <2>1, <2>2, <2>3, TellingArbitrate DEF Frame
<1>6. CASE AdvanceClock
  BY <1>6, TellingClock
<1>7. CASE UNCHANGED vars
  BY <1>2, <1>7 DEF vars, commandVars
<1> QED BY <1>4, <1>5, <1>6, <1>7 DEF Next

\* Whichever of the FSM, the runtime, the override and the end of the frame ends a command,
\* its end is told, and as what it was: no operation tells a second or another end.
THEOREM EndsAreReportedCorrect == Spec => []EndsAreReported
<1>1. Init => Telling
  BY DEF Init, Telling, NoneDue, LeftOver, EndsAreReported, EndsAreTold, ReportsAgree
<1>2. Owner /\ Telling /\ [Next]_vars => Telling'
  BY TellingStep
<1>3. Telling => EndsAreReported
  BY DEF Telling
<1> QED BY <1>1, <1>2, <1>3, OwnerCorrect, PTL DEF Spec
-----------------------------------------------------------------------------
(* The confirmation gate, when every id is delivered once.                 *)

LEMMA NeverConfirming == ASSUME NEW a \in Actions PROVE StateFor(a) # "CONFIRMING"
BY DEF StateFor, Actions

LEMMA GateSubmit ==
  ASSUME ~Redelivers, Owner, NEW c \in Command, SubmitVoice(c)
  PROVE  active'.gated = Envelope[c].gated /\ (fsm'.behaviour = "CONFIRMING" <=> Envelope[c].gated)
<1> DEFINE old == IF Replaces(c) THEN End(fsm, active.id, "FAILED") ELSE fsm
<1>1. fsm \in Fsm /\ fsm.terminal[c] = "NONE" /\ c \notin Ids(fsm.holders)
  BY DEF SubmitVoice, Owner, TypeOK
<1>2. old \in Fsm /\ old.terminal[c] = "NONE" /\ c \notin Ids(old.holders)
  <2>1. CASE Replaces(c)
    <3>1. active # None /\ active.id \in Command /\ active.id # c /\ "FAILED" \in Ended
      BY <2>1, EndActive DEF Replaces, Ended
    <3>2. old = End(fsm, active.id, "FAILED")
      BY <2>1
    <3>3. old \in Fsm /\ old.holders = {} /\ old.terminal[c] = "NONE"
      BY <1>1, <3>1, <3>2, EndActive, EndFacts
    <3> QED BY <3>3, IdsEmpty
  <2>2. CASE ~Replaces(c)
    BY <1>1, <2>2
  <2> QED BY <2>1, <2>2
<1>3. /\ fsm' = Admit(old, c)
      /\ active' = [id |-> c, gated |-> Envelope[c].gated, left |-> Envelope[c].life]
  BY <1>2 DEF SubmitVoice, AlreadyEnded
<1> HIDE DEF old
<1> DEFINE base == Finish(old, old.holders, [h \in old.holders |-> "FAILED"])
<1> DEFINE entered == IF Envelope[c].gated THEN "CONFIRMING" ELSE StateFor(Envelope[c].action)
<1>4. fsm' = [base EXCEPT !.holders = {[id |-> c, left |-> Envelope[c].life, age |-> 0]},
                          !.behaviour = entered]
  BY <1>2, <1>3 DEF Admit
<1>5. base = [holders |-> base.holders, terminal |-> base.terminal, behaviour |-> base.behaviour]
  BY DEF Finish
<1>6. entered = "CONFIRMING" <=> Envelope[c].gated
  BY EnvelopeType, NeverConfirming
<1> HIDE DEF base, entered
<1>7. fsm'.behaviour = entered
  BY <1>4, <1>5
<1> QED BY <1>3, <1>6, <1>7

LEMMA GateConfirm ==
  ASSUME Owner, ConfirmingIsGated, NEW c \in Command, NEW approved \in BOOLEAN,
         ConfirmVoice(c, approved)
  PROVE  ConfirmingIsGated'
<1> DEFINE holder == {h \in fsm.holders : h.id = c}
<1> DEFINE ends == \E h \in holder : Due(h) # "NONE" \/ ~approved
<1> DEFINE after == IF ends THEN End(fsm, c, "REJECTED") ELSE fsm
<1> DEFINE mine == active # None /\ active.id = c
<1>1. mine <=> holder # {}
  BY DEF Owner, OneOwner, Ids
<1>2. CASE mine /\ active' = None
  BY <1>2 DEF ConfirmingIsGated
<1>3. CASE ~mine
  <2>1. fsm' = fsm /\ active' = active
    BY <1>1, <1>3 DEF ConfirmVoice, commandVars
  <2> QED BY <2>1 DEF ConfirmingIsGated
<1>4. CASE mine /\ active' # None
  <2>1. /\ fsm' = [fsm EXCEPT !.behaviour = StateFor(Envelope[c].action)]
        /\ active' = [active EXCEPT !.gated = FALSE]
    BY <1>1, <1>4 DEF ConfirmVoice, ClearActive
  <2>2. fsm'.behaviour # "CONFIRMING"
    BY <2>1, EnvelopeType, NeverConfirming, OwnerHolders DEF Fsm
  <2>3. ~active'.gated
    BY <1>4, <2>1 DEF Owner, TypeOK, Order
  <2> QED BY <2>2, <2>3 DEF ConfirmingIsGated
<1> QED BY <1>2, <1>3, <1>4

LEMMA GateStep ==
  ASSUME ~Redelivers, Owner, ConfirmingIsGated, [Next]_vars PROVE ConfirmingIsGated'
<1>1. ASSUME active' = None PROVE ConfirmingIsGated'
  BY <1>1 DEF ConfirmingIsGated
<1>2. ASSUME fsm' = fsm, active' = active PROVE ConfirmingIsGated'
  BY <1>2 DEF ConfirmingIsGated
<1>3. CASE Callers
  <2>1. ASSUME NEW c \in Command, SubmitVoice(c) PROVE ConfirmingIsGated'
    BY <2>1, GateSubmit DEF ConfirmingIsGated
  <2>2. CASE \/ \E c \in Command : SubmitRejected(c)
             \/ \E recovered \in SUBSET Alerts : ClearAlerts(recovered)
             \/ \E speed \in Speeds : ReleaseStopHold(speed)
    BY <1>2, <2>2 DEF SubmitRejected, ClearAlerts, ReleaseStopHold, commandVars
  <2>3. CASE CompleteActive \/ \E resume \in Speeds \cup {None} : FailActive(resume)
    BY <1>1, <2>3 DEF CompleteActive, FailActive, ClearActive
  <2> QED BY <1>3, <2>1, <2>2, <2>3, GateConfirm DEF Callers
<1>4. CASE Frame
  <2>1. ASSUME NEW watch, FrameTick(watch) PROVE ConfirmingIsGated'
    <3>1. CASE active' = None
      BY <1>1, <3>1
    <3>2. CASE active' # None
      <4> DEFINE ticked == Expire(fsm)
      <4> DEFINE gone == {h \in fsm.holders : Due(h) # "NONE"}
      <4>1. /\ active' = active /\ fsm' = ticked
            /\ active.id \in Ids(ticked.holders) \/ active.id \notin Ids(fsm.holders)
        BY <2>1, <3>2 DEF FrameTick, ClearActive, commandVars, Lapsed
      <4>2. active.id \in Ids(ticked.holders)
        BY <3>2, <4>1 DEF Owner, OneOwner
      <4>3. ticked.holders = {h \in fsm.holders : Due(h) = "NONE"}
        BY OwnerHolders, ExpireFacts
      <4>4. gone = {}
        BY <4>2, <4>3, OwnerHolders DEF Ids
      <4>5. ticked.behaviour = fsm.behaviour
        BY <4>4 DEF Expire, Finish
      <4> HIDE DEF ticked
      <4> QED BY <4>1, <4>5 DEF ConfirmingIsGated
    <3> QED BY <3>1, <3>2
  <2>2. FailInFrame => ConfirmingIsGated'
    BY <1>1, <1>2 DEF FailInFrame, ClearActive, commandVars
  <2>3. CASE FrameLateral \/ FrameFails
    BY <1>2, <2>2, <2>3 DEF FrameLateral, FrameFails, commandVars
  <2>4. ASSUME NEW v, NEW near, NEW hazard, NEW semantic, FrameArbitrate(v, near, hazard, semantic)
        PROVE  ConfirmingIsGated'
    <3>1. active' = None \/ (active' = active /\ fsm' = fsm)
      BY <2>4 DEF FrameArbitrate, ClearActive
    <3> QED BY <1>1, <1>2, <3>1
  <2> QED BY <1>4, <2>1, <2>3, <2>4 DEF Frame
<1>5. CASE AdvanceClock
  <2>1. fsm'.behaviour = fsm.behaviour
    BY <1>5, OwnerHolders DEF AdvanceClock, Fsm
  <2>2. active' # None => active # None /\ active'.gated = active.gated
    BY <1>5 DEF AdvanceClock, Owner, TypeOK, Order
  <2> QED BY <2>1, <2>2 DEF ConfirmingIsGated
<1>6. CASE UNCHANGED vars
  BY <1>2, <1>6 DEF vars, commandVars
<1> QED BY <1>3, <1>4, <1>5, <1>6 DEF Next

\* When every id is delivered once, the FSM is CONFIRMING exactly while the runtime's gate
\* is shut: behavior_fsm.py and runtime_loop.py agree on whether the command waits.
THEOREM ConfirmingIsGatedCorrect == ASSUME ~Redelivers PROVE Spec => []ConfirmingIsGated
<1>1. Init => ConfirmingIsGated
  BY DEF Init, ConfirmingIsGated
<1>2. Owner /\ ConfirmingIsGated /\ [Next]_vars => ConfirmingIsGated'
  BY GateStep
<1> QED BY <1>1, <1>2, OwnerCorrect, PTL DEF Spec
=============================================================================
