----------------------------- MODULE QwenProofs -----------------------------
(***************************************************************************)
(* What the asynchronous bridge promises the control loop, for every number *)
(* of submissions, every lifetime of a decision and whatever the model says *)
(* about whatever it is asked; and what the model servers account for, for  *)
(* every number of requests and slots.                                      *)
(*                                                                          *)
(* The bridge: an answer on its way or stored is the answer to the request  *)
(* it is numbered with (BridgeInv).  The sentence: every decision that      *)
(* leaves Checked is the one that was made, normalised, perhaps with the    *)
(* target put in (CheckedKeeps), so the rules, the doubts and the match     *)
(* hold of it, and of the command made of the stored answer (GroundInv).    *)
(* The servers: a request's place decides what future, callback and release *)
(* it can have, so that each release falls due once (Requests), and every   *)
(* step moves at most one request in or out of the sets that are counted    *)
(* (Accounts).                                                              *)
(***************************************************************************)
EXTENDS AsyncQwenBridge, QwenServing, FiniteSetTheorems, TLAPS

BridgeSpec == BridgeInit /\ [][BridgeNext]_bridgeVars
-----------------------------------------------------------------------------
(* The bridge: who holds what, and about which submission.                 *)

Holding ==
  /\ newest \in Nat /\ age \in Nat
  /\ waiting \in {<<>>} \cup {<<n>> : n \in Nat}
  /\ hand.at \in {"free", "put", "drain", "reput"}
  /\ hand = [item |-> hand.item, at |-> hand.at] /\ hand.item \in Nat

\* Only the caller puts, so what it has drained stays empty until it has put again.
DrainedIsEmpty == hand.at = "reput" => waiting = <<>>

Working ==
  /\ worker = [at |-> worker.at, seq |-> worker.seq, answer |-> worker.answer]
  /\ worker.at \in {"get", "infer", "store", "gone"}
  /\ worker.at = "store" => worker.answer.seq = worker.seq

Stored ==
  /\ latest = [seq |-> latest.seq, status |-> latest.status, answer |-> latest.answer]
  /\ latest.status \in {"NONE", "PENDING", "READY", "ERROR", "TIMEOUT"}
  /\ NewestWins

\* A command is only ever given with the terminal result READY, and there is one of those.
ToldOnce == terminal = "NONE" => command = None

BridgeInv == Holding /\ DrainedIsEmpty /\ Working /\ Stored /\ ToldOnce

LEMMA BridgeStarts == BridgeInit => BridgeInv
PROOF BY DEF BridgeInit, BridgeInv, Holding, DrainedIsEmpty, Working, Stored, NewestWins, ToldOnce, Result, NoAnswer

LEMMA NoticedIs ==
  ASSUME BridgeInv
  PROVE /\ Noticed.seq = newest /\ Noticed = [seq |-> Noticed.seq, status |-> Noticed.status, answer |-> Noticed.answer]
        /\ Noticed.status \in {"NONE", "PENDING", "READY", "ERROR", "TIMEOUT"}
        /\ Noticed.status \in {"READY", "ERROR"} => Noticed = latest
        /\ latest.status \notin {"PENDING"} => Noticed = latest
PROOF
  <1>1. latest = [seq |-> newest, status |-> latest.status, answer |-> latest.answer]
    BY DEF BridgeInv, Stored, NewestWins
  <1>2. CASE latest.status = "PENDING" /\ late
    <2>1. Noticed = [seq |-> newest, status |-> "TIMEOUT", answer |-> latest.answer]
      BY <1>1, <1>2 DEF Noticed
    <2>. QED BY <1>1, <1>2, <2>1
  <1>3. CASE ~(latest.status = "PENDING" /\ late)
    <2>1. Noticed = latest
      BY <1>3 DEF Noticed
    <2>. QED BY <1>1, <2>1 DEF BridgeInv, Stored
  <1>. QED BY <1>2, <1>3

LEMMA BridgeKeeps == BridgeInv /\ [BridgeNext]_bridgeVars => BridgeInv'
PROOF
  <1>. SUFFICES ASSUME BridgeInv, [BridgeNext]_bridgeVars PROVE BridgeInv'
    OBVIOUS
  <1>. USE DEF BridgeInv
  <1>1. CASE Submit
    <2>1. /\ latest' = [seq |-> newest + 1, status |-> "PENDING", answer |-> NoAnswer]
          /\ hand' = [item |-> newest + 1, at |-> "put"]
      BY <1>1 DEF Submit, Result
    <2>2. newest' = newest + 1 /\ age' = 0 /\ UNCHANGED <<waiting, worker, terminal, command>>
      BY <1>1 DEF Submit, runnerVars
    <2>3. Holding' /\ DrainedIsEmpty'
      BY <2>1, <2>2 DEF Holding, DrainedIsEmpty
    <2>4. Stored'
      BY <2>1, <2>2 DEF Stored, NewestWins
    <2>. QED BY <2>2, <2>3, <2>4 DEF Working, ToldOnce
  <1>2. CASE Close
    <2>1. /\ hand' = [item |-> 0, at |-> "put"]
          /\ UNCHANGED <<newest, latest, age, waiting, worker, terminal, command>>
      BY <1>2 DEF Close, runnerVars
    <2>. QED BY <2>1 DEF Holding, DrainedIsEmpty, Working, Stored, NewestWins, ToldOnce
  <1>3. CASE Put
    <2>1. UNCHANGED <<newest, latest, age, worker, terminal, command>>
      BY <1>3 DEF Put, callVars, runnerVars
    <2>2. \/ waiting' = <<hand.item>> /\ hand' = [item |-> hand.item, at |-> "free"]
          \/ waiting' = waiting /\ hand' = [item |-> hand.item, at |-> "drain"]
      BY <1>3 DEF Put, Holding
    <2>3. Holding' /\ DrainedIsEmpty'
      BY <2>1, <2>2 DEF Holding, DrainedIsEmpty
    <2>. QED BY <2>1, <2>3 DEF Working, Stored, NewestWins, ToldOnce
  <1>4. CASE Drain
    <2>1. UNCHANGED <<newest, latest, age, worker, terminal, command>> /\ waiting' = <<>>
      BY <1>4 DEF Drain, callVars, runnerVars
    <2>2. hand' = [item |-> hand.item, at |-> "reput"]
      BY <1>4 DEF Drain, Holding
    <2>3. Holding' /\ DrainedIsEmpty'
      BY <2>1, <2>2 DEF Holding, DrainedIsEmpty
    <2>. QED BY <2>1, <2>3 DEF Working, Stored, NewestWins, ToldOnce
  <1>5. CASE Reput
    <2>1. UNCHANGED <<newest, latest, age, worker, terminal, command>>
      BY <1>5 DEF Reput, callVars, runnerVars
    <2>2. waiting' = <<hand.item>> /\ hand' = [item |-> hand.item, at |-> "free"]
      BY <1>5 DEF Reput, DrainedIsEmpty, Holding
    <2>3. Holding' /\ DrainedIsEmpty'
      BY <2>1, <2>2 DEF Holding, DrainedIsEmpty
    <2>. QED BY <2>1, <2>3 DEF Working, Stored, NewestWins, ToldOnce
  <1>6. CASE Get
    <2>1. UNCHANGED <<newest, latest, age, hand, terminal, command>> /\ waiting' = <<>>
      BY <1>6 DEF Get, callVars, runnerVars
    <2>2. \/ worker' = [at |-> "gone", seq |-> worker.seq, answer |-> worker.answer]
          \/ worker' = [at |-> "infer", seq |-> Head(waiting), answer |-> worker.answer]
      BY <1>6 DEF Get, Working
    <2>3. Working'
      BY <2>2 DEF Working
    <2>4. Holding' /\ DrainedIsEmpty'
      BY <2>1 DEF Holding, DrainedIsEmpty
    <2>. QED BY <2>1, <2>3, <2>4 DEF Stored, NewestWins, ToldOnce
  <1>7. CASE Infer
    <2>1. UNCHANGED <<newest, latest, age, hand, waiting, terminal, command>>
      BY <1>7 DEF Infer, callVars, runnerVars
    <2>2. PICK r : worker' = [worker EXCEPT !.at = "store",
                  !.answer = [seq |-> worker.seq, context |-> r.context, decision |-> r.decision]]
      BY <1>7 DEF Infer
    <2>3. worker' = [at |-> "store", seq |-> worker.seq,
                     answer |-> [seq |-> worker.seq, context |-> r.context, decision |-> r.decision]]
      BY <2>2 DEF Working
    <2>4. Working'
      BY <2>3 DEF Working
    <2>. QED BY <2>1, <2>4 DEF Holding, DrainedIsEmpty, Stored, NewestWins, ToldOnce
  <1>8. CASE Store
    <2>1. UNCHANGED <<newest, age, hand, waiting, terminal, command>>
      BY <1>8 DEF Store, runnerVars
    <2>2. worker' = [at |-> "get", seq |-> worker.seq, answer |-> NoAnswer]
      BY <1>8 DEF Store, Working
    <2>3. Working'
      BY <2>2 DEF Working
    <2>4. Stored'
      <3>1. CASE worker.seq = newest /\ latest.status = "PENDING"
        <4>1. latest' = [seq |-> newest, status |-> Status(worker.answer), answer |-> worker.answer]
          BY <1>8, <3>1 DEF Store, Result
        <4>2. Status(worker.answer) \in {"ERROR", "READY"}
          BY DEF Status
        <4>3. worker.answer.seq = newest
          BY <1>8, <3>1 DEF Store, Working
        <4>. QED BY <2>1, <4>1, <4>2, <4>3 DEF Stored, NewestWins
      <3>2. CASE ~(worker.seq = newest /\ latest.status = "PENDING")
        <4>1. latest' = latest
          BY <1>8, <3>2 DEF Store
        <4>. QED BY <2>1, <4>1 DEF Stored, NewestWins
      <3>. QED BY <3>1, <3>2
    <2>. QED BY <2>1, <2>3, <2>4 DEF Holding, DrainedIsEmpty, ToldOnce
  <1>9. CASE Poll
    <2>1. latest' = Noticed /\ UNCHANGED <<newest, age, hand, waiting, worker>> /\ terminal = "NONE"
      BY <1>9 DEF Poll
    <2>2. Stored'
      BY <2>1, NoticedIs DEF Stored, NewestWins
    <2>3. ToldOnce'
      <3>1. CASE caller = "runner" /\ Seen = "READY"
        BY <1>9, <3>1 DEF Poll, TakeResult, ToldOnce
      <3>2. CASE ~(caller = "runner" /\ Seen = "READY")
        <4>1. command' = command
          BY <1>9, <3>2 DEF Poll, TakeResult, runnerVars
        <4>. QED BY <2>1, <4>1 DEF ToldOnce
      <3>. QED BY <3>1, <3>2
    <2>. QED BY <2>1, <2>2, <2>3 DEF Holding, DrainedIsEmpty, Working
  <1>10. CASE Frame
    <2>1. UNCHANGED <<newest, latest, hand, waiting, worker, terminal, command>> /\ age' = age + 1
      BY <1>10 DEF Frame, runnerVars
    <2>. QED BY <2>1 DEF Holding, DrainedIsEmpty, Working, Stored, NewestWins, ToldOnce
  <1>11. CASE WallClock
    <2>1. UNCHANGED <<newest, latest, age, hand, waiting, worker, terminal, command>>
      BY <1>11 DEF WallClock, runnerVars
    <2>. QED BY <2>1 DEF Holding, DrainedIsEmpty, Working, Stored, NewestWins, ToldOnce
  <1>12. CASE UNCHANGED bridgeVars
    <2>1. UNCHANGED <<newest, latest, age, hand, waiting, worker, terminal, command>>
      BY <1>12 DEF bridgeVars, callVars, runnerVars
    <2>. QED BY <2>1 DEF Holding, DrainedIsEmpty, Working, Stored, NewestWins, ToldOnce
  <1>. QED
    BY <1>1, <1>2, <1>3, <1>4, <1>5, <1>6, <1>7, <1>8, <1>9, <1>10, <1>11, <1>12 DEF BridgeNext
-----------------------------------------------------------------------------
\* The latest submission owns the bridge and its put never raises in the control loop, however
\* many requests are made and in whatever order they are answered (NewestOwnsBridge).
THEOREM NewestOwnsTheBridge == BridgeSpec => []NewestOwnsBridge
PROOF
  <1>1. BridgeInv => NewestOwnsBridge
    BY DEF BridgeInv, Holding, Stored, NewestOwnsBridge, PutNeverRaises
  <1>. QED BY BridgeStarts, BridgeKeeps, <1>1, PTL DEF BridgeSpec

LEMMA VerdictStep ==
  ASSUME BridgeInv, BridgeNext
  PROVE /\ latest.status \notin {"NONE", "PENDING"} /\ latest'.seq = latest.seq => latest' = latest
        /\ command' # command => command = None /\ age <= Ttl /\ latest'.answer.seq = newest
PROOF
  <1>. USE DEF BridgeInv
  <1>1. CASE Submit
    <2>1. latest'.seq = newest + 1 /\ command' = command
      BY <1>1 DEF Submit, Result, runnerVars
    <2>2. latest.seq = newest /\ newest \in Nat
      BY DEF Stored, NewestWins, Holding
    <2>. QED BY <2>1, <2>2
  <1>2. CASE Close \/ Put \/ Drain \/ Reput \/ Get \/ Infer \/ Frame \/ WallClock
    <2>1. latest' = latest /\ command' = command
      BY <1>2 DEF Close, Put, Drain, Reput, Get, Infer, Frame, WallClock, callVars, runnerVars
    <2>. QED BY <2>1
  <1>3. CASE Store
    <2>1. latest.status # "PENDING" => latest' = latest
      BY <1>3 DEF Store
    <2>. QED BY <1>3, <2>1 DEF Store, runnerVars
  <1>4. CASE Poll
    <2>1. latest' = Noticed /\ terminal = "NONE"
      BY <1>4 DEF Poll
    <2>2. latest.status # "PENDING" => latest' = latest
      BY <2>1, NoticedIs
    <2>3. ASSUME command' # command
          PROVE  command = None /\ age <= Ttl /\ latest'.answer.seq = newest
      <3>1. Seen = "READY"
        BY <1>4, <2>3 DEF Poll, TakeResult, runnerVars
      <3>2. Noticed.status = "READY" /\ ~(age > Ttl)
        BY <3>1 DEF Seen
      <3>3. Noticed = latest
        BY <3>2, NoticedIs
      <3>4. age <= Ttl
        BY <3>2, BridgeAssumption DEF Holding
      <3>. QED BY <2>1, <3>2, <3>3, <3>4 DEF ToldOnce, Stored, NewestWins
    <2>. QED BY <2>2, <2>3
  <1>. QED BY <1>1, <1>2, <1>3, <1>4 DEF BridgeNext

\* What has been reported of a submission stands, and only a fresh answer of the one request
\* becomes a command, once (VerdictsStand).
THEOREM VerdictsAreFinal == BridgeSpec => VerdictsStand
PROOF
  <1>1. BridgeInv /\ [BridgeNext]_bridgeVars =>
          [latest.status \notin {"NONE", "PENDING"} /\ latest'.seq = latest.seq => latest' = latest]_bridgeVars
    BY VerdictStep
  <1>2. BridgeInv /\ [BridgeNext]_bridgeVars =>
          [command' # command => command = None /\ age <= Ttl /\ latest'.answer.seq = newest]_bridgeVars
    BY VerdictStep
  <1>. QED BY BridgeStarts, BridgeKeeps, <1>1, <1>2, PTL DEF BridgeSpec, VerdictsStand, SettledStays, ToldWhileFresh
-----------------------------------------------------------------------------
(* One sentence: what a decision that leaves Checked can be.               *)

\* The objects meant are sure, of the class named, and where the speaker said they are.
LEMMA MeantAreLikely ==
  ASSUME NEW c, c.names # None
  PROVE  \A o \in ModelCandidates(c) :
           /\ o \in c.objects /\ o.sure /\ o.class = c.names.class
           /\ c.names.how = "left" => o.relation = "left"
PROOF
  <1>. DEFINE likely == {o \in c.objects : o.class = c.names.class /\ o.sure}
  <1>1. CASE c.names.how = "distance"
    BY <1>1 DEF ModelCandidates
  <1>2. CASE c.names.how = "nearest"
    <2>1. ModelCandidates(c) \subseteq likely
      BY <1>2 DEF ModelCandidates, Nearest
    <2>. QED BY <1>2, <2>1
  <1>3. CASE c.names.how \notin {"distance", "nearest"}
    <2>1. ModelCandidates(c) = {o \in likely : o.relation = c.names.how}
      BY <1>3 DEF ModelCandidates
    <2>. QED BY <2>1
  <1>. QED BY <1>1, <1>2, <1>3

\* Nothing but the speed and the target changes between the decision that was made and the one
\* that is checked; the target that is put in is the only object meant.
LEMMA CheckedKeeps ==
  ASSUME NEW d, IsDecision(d), NEW c, Checked(d, c) # None
  PROVE  /\ Checked(d, c).action = d.action /\ Checked(d, c).confidence = d.confidence
         /\ Checked(d, c).confirm = d.confirm /\ Checked(d, c).source = d.source
         /\ d.speed = None => Checked(d, c).speed = None
         /\ ModelCandidates(c) # None =>
              (Checked(d, c).confirm \/ Checked(d, c).target \in Tracks(ModelCandidates(c)))
PROOF
  <1>. DEFINE n == Normalised(d)
              known == Tracks(ModelCandidates(c))
              t == CHOOSE t \in known : TRUE
  <1>1. Checked(d, c) = Grounded(n, c)
    BY DEF Checked
  <1>2. /\ n = [action |-> d.action, confidence |-> d.confidence, confirm |-> d.confirm,
                source |-> d.source, speed |-> n.speed, target |-> d.target]
        /\ d.speed = None => n.speed = None
    BY DEF Normalised, IsDecision
  <1>3. \/ Checked(d, c) = n /\ ModelCandidates(c) = None
        \/ Checked(d, c) = n /\ n.confirm
        \/ Cardinality(known) = 1 /\ Checked(d, c) = [n EXCEPT !.target = t]
    BY <1>1 DEF Grounded
  <1>4. CASE Checked(d, c) = n /\ (ModelCandidates(c) = None \/ n.confirm)
    BY <1>2, <1>4
  <1>5. CASE Cardinality(known) = 1 /\ Checked(d, c) = [n EXCEPT !.target = t]
    <2>1. Checked(d, c) = [action |-> d.action, confidence |-> d.confidence, confirm |-> d.confirm,
                           source |-> d.source, speed |-> n.speed, target |-> t]
      <3>. HIDE DEF n, t
      <3>. QED BY <1>2, <1>5
    <2>2. known # {}
      BY <1>5, FS_EmptySet
    <2>3. t \in known
      BY <2>2
    <2>. QED BY <1>2, <1>5, <2>1, <2>3
  <1>. QED BY <1>3, <1>4, <1>5

-----------------------------------------------------------------------------
(* The sentence, answered: RepliesAreGrounded of one context and decision. *)

Obeys(c, v) ==
  /\ c.danger \/ c.recommended = "EMERGENCY_STOP" => v.action = "EMERGENCY_BRAKE"
  /\ c.red \/ c.recommended = "STOP" => v.action \in {"STOP", "EMERGENCY_BRAKE"}
  /\ c.recommended = "SLOW_DOWN" /\ v.action \in {"SET_SPEED", "KEEP_LANE"} /\ ~v.gated =>
       v.target = SlowDownDefault

Matches(c, d, v) ==
  v.action \in {"SET_SPEED", "KEEP_LANE"} /\ ~v.gated /\ c.names # None =>
    /\ d.target # None
    /\ \A o \in c.objects :
         o.track = d.target =>
           o.sure /\ o.class = c.names.class /\ (c.names.how = "left" => o.relation = "left")

Doubts == {"QWEN_VL_LOW_CONFIDENCE", "QWEN_VL_VISUAL_INVALID", "QWEN_VL_SPEED_UNRESOLVED", "TARGET_GROUNDING"}
Asks(d, v) == d.source \in Doubts => v.gated /\ v.action = "STOP"

Grounding(c, d) ==
  /\ c # None
  /\ Obeys(c, VehicleCommand(d)) /\ Matches(c, d, VehicleCommand(d)) /\ Asks(d, VehicleCommand(d))

LEMMA ConfirmingGates ==
  ASSUME NEW d, d.confirm
  PROVE  VehicleCommand(d).gated
PROOF BY DEF VehicleCommand

\* Whoever chose, a decision about a described object names it or asks.
LEMMA MatchesHolds ==
  ASSUME NEW d, IsDecision(d), NEW c, IsContext(c), Checked(d, c) # None
  PROVE  Matches(c, Checked(d, c), VehicleCommand(Checked(d, c)))
PROOF
  <1>. DEFINE e == Checked(d, c)
              known == Tracks(ModelCandidates(c))
  <1>. SUFFICES ASSUME ~VehicleCommand(e).gated, c.names # None
                PROVE  /\ e.target # None
                       /\ \A o \in c.objects :
                            o.track = e.target =>
                              o.sure /\ o.class = c.names.class /\ (c.names.how = "left" => o.relation = "left")
    BY DEF Matches
  <1>1. ~e.confirm
    BY ConfirmingGates
  <1>2. ModelCandidates(c) \in SUBSET c.objects
    BY MeantAreLikely
  <1>3. e.target \in known
    BY <1>1, <1>2, CheckedKeeps DEF IsContext
  <1>4. PICK m \in ModelCandidates(c) : m.track = e.target /\ e.target # None
    BY <1>3 DEF Tracks
  <1>5. \A o \in c.objects : o.track = e.target => o = m
    BY <1>2, <1>4 DEF IsContext
  <1>. QED BY <1>4, <1>5, MeantAreLikely

\* What the assembly makes of a token: the rule when there is one, doubt only as a question.
LEMMA AssembledIs ==
  ASSUME NEW c, NEW choice
  PROVE  LET d == Assembled(choice, c)
         IN  /\ IsDecision(d)
             /\ d.source \in Doubts => d.confirm /\ d.action = "STOP"
             /\ Rule(c) # None => d.action = Rule(c) /\ d.speed = None
PROOF
  <1>. DEFINE d == Assembled(choice, c)
              rec(a, p, q, s, v) == [action |-> a, confidence |-> p, confirm |-> q, source |-> s,
                                     speed |-> v, target |-> None]
  <1>1. CASE Rule(c) # None
    <2>1. CASE Rule(c) = "STOP" /\ c.missing
      <3>1. d = rec("STOP", 99, TRUE, "TARGET_GROUNDING", None)
        BY <1>1, <2>1 DEF Assembled, Decision
      <3>. QED BY <2>1, <3>1 DEF IsDecision
    <2>2. CASE ~(Rule(c) = "STOP" /\ c.missing)
      <3>1. PICK p : d = rec(Rule(c), p, FALSE, "SAFETY_RULE", None)
        BY <1>1, <2>2 DEF Assembled, Decision
      <3>. QED BY <3>1 DEF IsDecision, Doubts
    <2>. QED BY <2>1, <2>2
  <1>2. CASE Rule(c) = None
    <2>. DEFINE meant == ModelCandidates(c)
                unsure == choice.confidence < ChoiceThreshold
                blind == c.visual = "invalid"
                unmatched == meant # None /\ Cardinality(Tracks(meant)) # 1
                paced == choice.action = "SLOW_DOWN" /\ c.manner = "set" /\ c.pace # None /\ c.pace <= Fastest
                unpaced == c.pace = None \/ c.pace > Fastest
                p == IF choice.confidence > 90 THEN choice.confidence ELSE 90
    <2>1. CASE unsure
      <3>1. d = rec("STOP", choice.confidence, TRUE, "QWEN_VL_LOW_CONFIDENCE", None)
        BY <1>2, <2>1 DEF Assembled, Decision
      <3>. QED BY <1>2, <3>1 DEF IsDecision
    <2>2. CASE ~unsure /\ blind
      <3>1. d = rec("STOP", choice.confidence, TRUE, "QWEN_VL_VISUAL_INVALID", None)
        BY <1>2, <2>2 DEF Assembled, Decision
      <3>. QED BY <1>2, <3>1 DEF IsDecision
    <2>3. CASE ~unsure /\ ~blind /\ unmatched
      <3>1. d = rec("STOP", choice.confidence, TRUE, "TARGET_GROUNDING", None)
        BY <1>2, <2>3 DEF Assembled, Decision
      <3>. QED BY <1>2, <3>1 DEF IsDecision
    <2>4. CASE ~unsure /\ ~blind /\ ~unmatched /\ paced
      <3>1. d = [rec("SET_SPEED", p, FALSE, "VOICE_SPEED_GROUNDED", None) EXCEPT !.speed = c.pace]
        BY <1>2, <2>4 DEF Assembled, Decision
      <3>2. d = rec("SET_SPEED", p, FALSE, "VOICE_SPEED_GROUNDED", c.pace)
        BY <3>1
      <3>. QED BY <1>2, <3>2 DEF IsDecision, Doubts
    <2>5. CASE ~unsure /\ ~blind /\ ~unmatched /\ ~paced /\ choice.action = "SET_SPEED" /\ unpaced
      <3>1. d = rec("STOP", choice.confidence, TRUE, "QWEN_VL_SPEED_UNRESOLVED", None)
        BY <1>2, <2>5 DEF Assembled, Decision
      <3>. QED BY <1>2, <3>1 DEF IsDecision
    <2>6. CASE ~unsure /\ ~blind /\ ~unmatched /\ ~paced /\ choice.action = "SET_SPEED" /\ ~unpaced
      <3>1. d = [rec(choice.action, choice.confidence, FALSE, "QWEN_VL_CHOICE", None) EXCEPT !.speed = c.pace]
        BY <1>2, <2>6 DEF Assembled, Decision
      <3>2. d = rec(choice.action, choice.confidence, FALSE, "QWEN_VL_CHOICE", c.pace)
        BY <3>1
      <3>. QED BY <1>2, <3>2 DEF IsDecision, Doubts
    <2>7. CASE ~unsure /\ ~blind /\ ~unmatched /\ ~paced /\ choice.action # "SET_SPEED"
      <3>1. d = rec(choice.action, choice.confidence, FALSE, "QWEN_VL_CHOICE", None)
        BY <1>2, <2>7 DEF Assembled, Decision
      <3>. QED BY <1>2, <3>1 DEF IsDecision, Doubts
    <2>. QED BY <2>1, <2>2, <2>3, <2>4, <2>5, <2>6, <2>7
  <1>. QED BY <1>1, <1>2

LEMMA ActionsMap ==
  ASSUME NEW d
  PROVE  LET v == VehicleCommand(d)
         IN  /\ d.action = "EMERGENCY_STOP" => v.action = "EMERGENCY_BRAKE"
             /\ d.action = "STOP" => v.action = "STOP"
             /\ d.action = "SLOW_DOWN" /\ d.speed = None => v.target = SlowDownDefault
PROOF BY DEF VehicleCommand, IntentOf

LEMMA RulesAre ==
  ASSUME NEW c
  PROVE  /\ c.danger \/ c.recommended = "EMERGENCY_STOP" => Rule(c) = "EMERGENCY_STOP"
         /\ c.red \/ c.recommended = "STOP" => Rule(c) \in {"EMERGENCY_STOP", "STOP"}
         /\ c.recommended = "SLOW_DOWN" => Rule(c) \in {"EMERGENCY_STOP", "STOP", "SLOW_DOWN"}
PROOF BY DEF Rule

\* Whatever the model picks or writes, the decision that leaves the adapter is grounded.
LEMMA RepliesGround ==
  ASSUME NEW r \in RunnerReplies, r.decision # None
  PROVE  Grounding(r.context, r.decision)
PROOF
  <1>1. CASE \E q \in Asked : r = [context |-> q.context, decision |-> ChoiceInfer(q.choice, q.context)]
    <2>1. PICK q \in Asked : r = [context |-> q.context, decision |-> ChoiceInfer(q.choice, q.context)]
      BY <1>1
    <2>. DEFINE c == q.context
                d == Assembled(q.choice, c)
                e == Checked(d, c)
                v == VehicleCommand(e)
    <2>2. r.context = c /\ r.decision = e /\ IsContext(c)
      BY <2>1, BridgeAssumption DEF ChoiceInfer
    <2>3. /\ IsDecision(d)
          /\ d.source \in Doubts => d.confirm /\ d.action = "STOP"
          /\ Rule(c) # None => d.action = Rule(c) /\ d.speed = None
      BY AssembledIs
    <2>4. /\ e.action = d.action /\ e.confirm = d.confirm /\ e.source = d.source
          /\ d.speed = None => e.speed = None
      BY <2>2, <2>3, CheckedKeeps
    <2>5. Matches(c, e, v)
      BY <2>2, <2>3, MatchesHolds
    <2>6. Asks(e, v)
      BY <2>3, <2>4, ConfirmingGates, ActionsMap DEF Asks
    <2>7. Obeys(c, v)
      <3>1. \A x \in {"EMERGENCY_STOP", "STOP", "SLOW_DOWN"} :
              Rule(c) = x => e.action = x /\ e.speed = None
        BY <2>3, <2>4, BridgeAssumption DEF Moving, Stopping
      <3>2. /\ Rule(c) = "EMERGENCY_STOP" => v.action = "EMERGENCY_BRAKE"
            /\ Rule(c) = "STOP" => v.action = "STOP"
            /\ Rule(c) = "SLOW_DOWN" => v.target = SlowDownDefault
        BY <3>1, ActionsMap
      <3>. QED BY <3>2, RulesAre DEF Obeys
    <2>. QED BY <2>2, <2>5, <2>6, <2>7 DEF Grounding, IsContext
  <1>2. CASE \E q \in Composed : r = [context |-> q.context, decision |-> WritingInfer(q.written, q.context)]
    <2>1. PICK q \in Composed : r = [context |-> q.context, decision |-> WritingInfer(q.written, q.context)]
      BY <1>2
    <2>. DEFINE c == q.context
                e == Checked(q.written, c)
                v == VehicleCommand(e)
    <2>2. /\ r.context = c /\ r.decision = e /\ IsContext(c) /\ Rule(c) = None
          /\ IsDecision(q.written) /\ q.written.source = "QWEN_VL"
      BY <2>1, BridgeAssumption DEF WritingInfer
    <2>3. Matches(c, e, v)
      BY <2>2, MatchesHolds
    <2>4. e.source = "QWEN_VL"
      BY <2>2, CheckedKeeps
    <2>5. Asks(e, v)
      BY <2>4 DEF Asks, Doubts
    <2>6. Obeys(c, v)
      BY <2>2, RulesAre, BridgeAssumption DEF Obeys, Moving, Stopping
    <2>. QED BY <2>2, <2>3, <2>5, <2>6 DEF Grounding, IsContext
  <1>. QED BY <1>1, <1>2 DEF RunnerReplies
-----------------------------------------------------------------------------
(* The answer on its way to the vehicle.                                   *)

Answered(a) == a.decision # None => Grounding(a.context, a.decision)

AnswerInv ==
  caller = "runner" =>
    /\ worker.at = "store" => Answered(worker.answer)
    /\ latest.status = "READY" => Answered(latest.answer) /\ latest.answer.decision # None

CommandInv ==
  command # None =>
    /\ caller = "runner" /\ newest # 0
    /\ latest.status = "READY" /\ command = VehicleCommand(Told)

GroundInv == BridgeInv /\ AnswerInv /\ CommandInv

LEMMA GroundStarts == BridgeInit => GroundInv
PROOF BY BridgeStarts DEF BridgeInit, GroundInv, AnswerInv, CommandInv, Result

LEMMA GroundKeeps == GroundInv /\ [BridgeNext]_bridgeVars => GroundInv'
PROOF
  <1>. SUFFICES ASSUME GroundInv, [BridgeNext]_bridgeVars PROVE AnswerInv' /\ CommandInv'
    BY BridgeKeeps DEF GroundInv
  <1>. USE DEF GroundInv
  <1>1. CASE Submit
    <2>1. latest' = [seq |-> newest + 1, status |-> "PENDING", answer |-> NoAnswer]
      BY <1>1 DEF Submit, Result
    <2>2. /\ caller = "runner" => newest < 1
          /\ newest' = newest + 1 /\ UNCHANGED <<caller, worker, command>>
      BY <1>1 DEF Submit, runnerVars
    <2>3. command = None
      BY <2>2 DEF CommandInv, BridgeInv, Holding
    <2>. QED BY <2>1, <2>2, <2>3 DEF AnswerInv, CommandInv
  <1>2. CASE Close \/ Put \/ Drain \/ Reput \/ Frame \/ WallClock
    <2>1. UNCHANGED <<caller, newest, latest, worker, command>>
      BY <1>2 DEF Close, Put, Drain, Reput, Frame, WallClock, callVars, runnerVars
    <2>. QED BY <2>1 DEF AnswerInv, CommandInv, Told
  <1>3. CASE Get
    <2>1. UNCHANGED <<caller, newest, latest, command>>
      BY <1>3 DEF Get, callVars, runnerVars
    <2>2. worker'.at \in {"gone", "infer"}
      BY <1>3 DEF Get, BridgeInv, Working
    <2>. QED BY <2>1, <2>2 DEF AnswerInv, CommandInv, Told
  <1>4. CASE Infer
    <2>1. UNCHANGED <<caller, newest, latest, command>>
      BY <1>4 DEF Infer, callVars, runnerVars
    <2>2. PICK r \in (IF caller = "runner" THEN RunnerReplies ELSE LibraryReplies) :
            worker' = [worker EXCEPT !.at = "store",
                  !.answer = [seq |-> worker.seq, context |-> r.context, decision |-> r.decision]]
      BY <1>4 DEF Infer
    <2>3. worker'.answer = [seq |-> worker.seq, context |-> r.context, decision |-> r.decision]
      BY <2>2 DEF BridgeInv, Working
    <2>4. caller = "runner" => Answered(worker'.answer)
      BY <2>2, <2>3, RepliesGround DEF Answered
    <2>. QED BY <2>1, <2>4 DEF AnswerInv, CommandInv, Told
  <1>5. CASE Store
    <2>1. UNCHANGED <<caller, newest, command>>
      BY <1>5 DEF Store, runnerVars
    <2>2. worker'.at = "get"
      BY <1>5 DEF Store, BridgeInv, Working
    <2>3. CASE worker.seq = newest /\ latest.status = "PENDING"
      <3>1. latest' = [seq |-> worker.seq, status |-> Status(worker.answer), answer |-> worker.answer]
        BY <1>5, <2>3 DEF Store, Result
      <3>2. latest'.status = "READY" => worker.answer.decision # None
        BY <3>1 DEF Status
      <3>3. command = None
        BY <2>3 DEF CommandInv
      <3>. QED BY <1>5, <2>1, <2>2, <3>1, <3>2, <3>3 DEF Store, AnswerInv, CommandInv
    <2>4. CASE ~(worker.seq = newest /\ latest.status = "PENDING")
      <3>1. latest' = latest
        BY <1>5, <2>4 DEF Store
      <3>. QED BY <2>1, <2>2, <3>1 DEF AnswerInv, CommandInv, Told
    <2>. QED BY <2>3, <2>4
  <1>6. CASE Poll
    <2>1. latest' = Noticed /\ UNCHANGED <<caller, newest, worker>> /\ newest > 0 /\ command = None
      BY <1>6 DEF Poll, BridgeInv, ToldOnce
    <2>2. latest'.status = "READY" => latest' = latest
      BY <2>1, NoticedIs
    <2>3. AnswerInv'
      BY <2>1, <2>2 DEF AnswerInv
    <2>4. command' # None => /\ caller = "runner" /\ Seen = "READY"
                             /\ command' = VehicleCommand(Noticed.answer.decision)
      BY <1>6, <2>1 DEF Poll, TakeResult, runnerVars
    <2>5. Seen = "READY" => Noticed.status = "READY"
      BY DEF Seen
    <2>6. CommandInv'
      BY <2>1, <2>4, <2>5 DEF CommandInv, Told, BridgeInv, Holding
    <2>. QED BY <2>3, <2>6
  <1>7. CASE UNCHANGED bridgeVars
    BY <1>7 DEF bridgeVars, callVars, runnerVars, AnswerInv, CommandInv, Told
  <1>. QED BY <1>1, <1>2, <1>3, <1>4, <1>5, <1>6, <1>7 DEF BridgeNext

\* Whatever the model is asked and whatever it says, the command the vehicle gets obeys the
\* safety rules, names the object the speaker meant and asks where the model was in doubt.
THEOREM RepliesStayGrounded == BridgeSpec => []RepliesAreGrounded
PROOF
  <1>1. GroundInv => RepliesAreGrounded
    <2>. SUFFICES ASSUME GroundInv, command # None PROVE RepliesAreGrounded
      BY DEF RepliesAreGrounded, RulesOverrideTheModel, NamedTargetIsMatched, DoubtIsGated, Drives
    <2>1. Grounding(Under, Told) /\ command = VehicleCommand(Told)
      BY DEF GroundInv, CommandInv, AnswerInv, Answered, Told, Under
    <2>2. RulesOverrideTheModel
      BY <2>1 DEF RulesOverrideTheModel, Grounding, Obeys, Drives
    <2>3. NamedTargetIsMatched
      BY <2>1 DEF NamedTargetIsMatched, Grounding, Matches, Drives
    <2>4. DoubtIsGated
      BY <2>1 DEF DoubtIsGated, Grounding, Asks, Doubts
    <2>. QED BY <2>2, <2>3, <2>4 DEF RepliesAreGrounded
  <1>. QED BY GroundStarts, GroundKeeps, <1>1, PTL DEF BridgeSpec
-----------------------------------------------------------------------------
(* The servers: the slots, the activity and the counters of every request. *)

ServeSpec == ServeInit /\ [][ServeNext]_serveVars

Holders  == {r \in Admitted : release[r] # "done"}
Counting == {r \in Admitted : at[r] # "enter" /\ release[r] \in {"no", "due"}}
InHand   == {r \in Request :
  at[r] \in {"admit", "busy", "enter", "submit", "hook"} \/ (at[r] = "wait" /\ answer[r] = "NONE")
  \/ answer[r] = "DROPPED"}

ServeShape ==
  /\ at \in [Request -> {"none", "arrived", "admit", "busy", "enter", "submit", "hook", "wait",
                         "settle", "leave", "done"}]
  /\ job \in [Request -> {"none", "queued", "running", "CANCELLED"} \cup Judged]
  /\ answer \in [Request -> Outcomes \cup {"NONE"}]
  /\ release \in [Request -> {"no", "due", "half", "done"}]
  /\ counts \in [Outcomes -> Nat]
  /\ call \in [Request -> {"idle", "asleep", "sent", "READY", "ERROR", "GARBLED"}]
  /\ free \in Nat /\ active \in Int /\ total \in Nat /\ hooked \subseteq Request

Early == {"none", "arrived", "admit", "busy", "enter", "submit"}

\* Where a request is, with the future, the callback and the release it can have there.
Place(r) ==
  /\ at[r] \in Early => job[r] = "none"
  /\ at[r] \in {"hook", "wait", "settle", "leave"} => job[r] # "none"
  /\ at[r] \in Early \cup {"hook", "wait"} => answer[r] = "NONE"
  /\ answer[r] = "DROPPED" => at[r] = "done" /\ job[r] = "none"
  /\ call[r] \in {"idle", "asleep"} => at[r] = "none"

\* A release falls due once: by the callback, or by the request that saw the inference end.
Once(r) ==
  /\ job[r] = "none" => r \notin hooked /\ release[r] = "no"
  /\ job[r] \in {"queued", "running"} => release[r] = "no"
  /\ at[r] \in {"hook", "settle"} \/ (at[r] = "wait" /\ service = "runtime") => r \notin hooked
  /\ r \notin hooked /\ at[r] \notin {"leave", "done"} => release[r] = "no"
  /\ at[r] = "settle" /\ answer[r] # "TIMEOUT" => Over(r)
  /\ shut => job[r] # "queued"

Requests == \A r \in Request : Place(r) /\ Once(r)

Accounts ==
  /\ free + Cardinality(Holders) = Slots
  /\ active = Cardinality(Counting)
  /\ total = Counted + Cardinality(InHand)

Unloaded == unloaded => shut /\ Occupied = {}

ServeInv == ServeShape /\ Requests /\ Accounts /\ Unloaded

LEMMA OneMore ==
  ASSUME NEW S \in SUBSET Request, NEW r \in Request, r \notin S
  PROVE  Cardinality(S) \in Nat /\ Cardinality(S \cup {r}) = Cardinality(S) + 1
PROOF
  <1>1. IsFiniteSet(S)
    BY ServeAssumption, FS_Subset
  <1>. QED BY <1>1, FS_AddElement, FS_CardinalityType

LEMMA OneLess ==
  ASSUME NEW S \in SUBSET Request, NEW r \in S
  PROVE  Cardinality(S) \in Nat /\ Cardinality(S \ {r}) = Cardinality(S) - 1
PROOF
  <1>1. IsFiniteSet(S)
    BY ServeAssumption, FS_Subset
  <1>. QED BY <1>1, FS_RemoveElement, FS_CardinalityType

LEMMA SizesAreNat ==
  /\ Cardinality(Holders) \in Nat /\ Cardinality(Counting) \in Nat /\ Cardinality(InHand) \in Nat
  /\ Cardinality(Counting) <= Cardinality(Holders)
PROOF
  <1>1. /\ Holders \in SUBSET Request /\ Counting \in SUBSET Holders /\ InHand \in SUBSET Request
    BY DEF Holders, Counting, InHand, Admitted
  <1>2. IsFiniteSet(Holders) /\ IsFiniteSet(Counting) /\ IsFiniteSet(InHand)
    BY <1>1, ServeAssumption, FS_Subset
  <1>. QED BY <1>1, <1>2, FS_Subset, FS_CardinalityType

LEMMA TallyAddsOne ==
  ASSUME ServeShape, NEW o \in Outcomes, Tally(o)
  PROVE  Counted \in Nat /\ Counted' = Counted + 1 /\ counts' \in [Outcomes -> Nat]
PROOF
  <1>. DEFINE one == [p \in Outcomes |-> IF p = o THEN 1 ELSE 0]
  <1>1. counts \in [Outcomes -> Nat] /\ counts' = [counts EXCEPT ![o] = @ + 1]
    BY DEF ServeShape, Tally
  <1>2. \A p \in Outcomes : counts[p] \in Nat /\ one[p] \in Int /\ counts'[p] = counts[p] + one[p]
    BY <1>1
  <1>3. one["READY"] + one["INVALID"] + one["EXPIRED"] + one["UNAVAILABLE"] + one["BUSY"]
          + one["TIMEOUT"] + one["FAILED"] + one["RAISED"] + one["DROPPED"] = 1
    BY DEF Outcomes
  <1>. HIDE DEF one
  <1>4. /\ counts["READY"] \in Nat /\ one["READY"] \in Int /\ counts'["READY"] = counts["READY"] + one["READY"]
        /\ counts["INVALID"] \in Nat /\ one["INVALID"] \in Int /\ counts'["INVALID"] = counts["INVALID"] + one["INVALID"]
        /\ counts["EXPIRED"] \in Nat /\ one["EXPIRED"] \in Int /\ counts'["EXPIRED"] = counts["EXPIRED"] + one["EXPIRED"]
        /\ counts["UNAVAILABLE"] \in Nat /\ one["UNAVAILABLE"] \in Int /\ counts'["UNAVAILABLE"] = counts["UNAVAILABLE"] + one["UNAVAILABLE"]
        /\ counts["BUSY"] \in Nat /\ one["BUSY"] \in Int /\ counts'["BUSY"] = counts["BUSY"] + one["BUSY"]
        /\ counts["TIMEOUT"] \in Nat /\ one["TIMEOUT"] \in Int /\ counts'["TIMEOUT"] = counts["TIMEOUT"] + one["TIMEOUT"]
        /\ counts["FAILED"] \in Nat /\ one["FAILED"] \in Int /\ counts'["FAILED"] = counts["FAILED"] + one["FAILED"]
        /\ counts["RAISED"] \in Nat /\ one["RAISED"] \in Int /\ counts'["RAISED"] = counts["RAISED"] + one["RAISED"]
        /\ counts["DROPPED"] \in Nat /\ one["DROPPED"] \in Int /\ counts'["DROPPED"] = counts["DROPPED"] + one["DROPPED"]
    BY <1>2 DEF Outcomes
  <1>5. Counted \in Nat /\ Counted' = Counted + 1
    BY <1>3, <1>4 DEF Counted
  <1>. QED BY <1>1, <1>5

LEMMA CountedIsNat ==
  ASSUME ServeShape
  PROVE  Counted \in Nat
PROOF
  <1>1. \A o \in Outcomes : counts[o] \in Nat
    BY DEF ServeShape
  <1>. QED BY <1>1 DEF Counted, Outcomes

LEMMA ServeStarts == ServeInit => ServeInv
PROOF
  <1>. SUFFICES ASSUME ServeInit PROVE ServeInv
    OBVIOUS
  <1>1. ServeShape /\ Requests /\ Unloaded
    BY ServeAssumption DEF ServeInit, ServeShape, Requests, Place, Once, Early, Unloaded, Over, Judged, Outcomes
  <1>2. Holders = {} /\ Counting = {} /\ InHand = {}
    BY DEF ServeInit, Holders, Counting, InHand, Admitted
  <1>3. Counted = 0
    BY DEF ServeInit, Counted, Outcomes
  <1>. QED BY <1>1, <1>2, <1>3, FS_EmptySet, ServeAssumption DEF ServeInv, Accounts, ServeInit

\* What is left to show of a step that moves one request from one place to another.
LEMMA SameAccounts ==
  ASSUME ServeInv, Holders' = Holders, Counting' = Counting, InHand' = InHand, counts' = counts,
         UNCHANGED <<free, active, total>>
  PROVE  Accounts'
PROOF BY DEF ServeInv, Accounts, Counted

LEMMA CallsKeep ==
  ASSUME ServeInv, NEW r \in Request, Calls(r)
  PROVE  ServeInv'
PROOF
  <1>. USE DEF ServeInv
  <1>1. UNCHANGED <<answer, total, counts, job, hooked, free, active, release, stopping, shut, unloaded, service>>
    BY DEF Calls, Dial, WakeUp, HangUp, Receive, handlerVars, slotVars, closeVars
  <1>2. /\ at' = at \/ (at' = [at EXCEPT ![r] = "arrived"] /\ call[r] \in {"idle", "asleep"})
        /\ \E c \in {"asleep", "sent", "READY", "ERROR", "GARBLED"} :
             call' = [call EXCEPT ![r] = c] /\ (c = "asleep" => call[r] = "idle" /\ at' = at)
    BY DEF Calls, Dial, WakeUp, HangUp, Receive, handlerVars, Go
  <1>3. ServeShape'
    BY <1>1, <1>2 DEF ServeShape
  <1>4. \A q \in Request : at'[q] = at[q] \/ (at[q] = "none" /\ at'[q] = "arrived")
    BY <1>2 DEF ServeShape, Requests, Place
  <1>5. \A q \in Request : call'[q] \in {"idle", "asleep"} => at'[q] = "none"
    BY <1>2 DEF ServeShape, Requests, Place
  <1>6. Requests'
    BY <1>1, <1>4, <1>5 DEF Requests, Place, Once, Early, Over
  <1>7. Holders' = Holders /\ Counting' = Counting /\ InHand' = InHand
    BY <1>1, <1>4 DEF Holders, Counting, InHand, Admitted, ServeShape
  <1>8. Accounts'
    BY <1>1, <1>7, SameAccounts
  <1>9. Unloaded'
    BY <1>1 DEF Unloaded, Occupied
  <1>. QED BY <1>3, <1>6, <1>8, <1>9

\* A request that is not yet in hand is counted, and refused at once or taken in hand.
LEMMA ArrivalsKeep ==
  ASSUME ServeInv, NEW r \in Request, DecisionArrives(r) \/ RuntimeArrives(r)
  PROVE  ServeInv'
PROOF
  <1>. USE DEF ServeInv
  <1>1. /\ UNCHANGED <<job, hooked, free, active, release, call, stopping, shut, unloaded, service>>
        /\ at[r] = "arrived"
    BY DEF DecisionArrives, RuntimeArrives, slotVars, closeVars
  <1>2. /\ job[r] = "none" /\ answer[r] = "NONE" /\ r \notin hooked /\ release[r] = "no"
        /\ call[r] \notin {"idle", "asleep"}
    BY <1>1 DEF Requests, Place, Once, Early
  <1>3. Unloaded'
    BY <1>1 DEF Unloaded, Occupied
  <1>4. CASE at' = [at EXCEPT ![r] = "admit"] /\ answer' = answer /\ counts' = counts /\ total' = total + 1
    <2>1. ServeShape'
      BY <1>1, <1>4 DEF ServeShape
    <2>2. Requests'
      BY <1>1, <1>2, <1>4 DEF Requests, Place, Once, Early, Over, ServeShape
    <2>3. /\ Holders' = Holders /\ Counting' = Counting
          /\ InHand' = InHand \cup {r} /\ r \notin InHand /\ InHand \in SUBSET Request
      BY <1>1, <1>2, <1>4 DEF Holders, Counting, InHand, Admitted, ServeShape
    <2>4. Accounts'
      BY <1>1, <1>4, <2>3, OneMore, CountedIsNat DEF Accounts, Counted
    <2>. QED BY <1>3, <2>1, <2>2, <2>4
  <1>5. ASSUME NEW o \in {"INVALID", "UNAVAILABLE", "EXPIRED", "RAISED"}, Reply(r, o),
               \/ Tally(o) /\ total' = total + 1
               \/ UNCHANGED <<counts, total>>
        PROVE  ServeInv'
    <2>1. answer' = [answer EXCEPT ![r] = o] /\ at' = [at EXCEPT ![r] = "done"]
      BY <1>5 DEF Reply, Go
    <2>2. ServeShape'
      BY <1>1, <1>5, <2>1, TallyAddsOne DEF ServeShape, Outcomes
    <2>3. Requests'
      BY <1>1, <1>2, <1>5, <2>1 DEF Requests, Place, Once, Early, Over, ServeShape
    <2>4. Holders' = Holders /\ Counting' = Counting /\ InHand' = InHand
      BY <1>1, <1>2, <1>5, <2>1 DEF Holders, Counting, InHand, Admitted, ServeShape
    <2>5. CASE Tally(o) /\ total' = total + 1
      <3>1. Accounts'
        BY <1>1, <2>4, <2>5, TallyAddsOne, SizesAreNat DEF Accounts, ServeShape, Outcomes
      <3>. QED BY <1>3, <2>2, <2>3, <3>1
    <2>6. CASE UNCHANGED <<counts, total>>
      BY <1>1, <1>3, <2>2, <2>3, <2>4, <2>6, SameAccounts
    <2>. QED BY <1>5, <2>5, <2>6
  <1>. QED
    BY <1>4, <1>5 DEF DecisionArrives, RuntimeArrives, Go

LEMMA AdmitKeeps ==
  ASSUME ServeInv, NEW r \in Request, Admit(r)
  PROVE  ServeInv'
PROOF
  <1>. USE DEF ServeInv
  <1>1. /\ UNCHANGED <<answer, total, counts, job, hooked, active, release, call, stopping, shut, unloaded, service>>
        /\ at[r] = "admit"
    BY DEF Admit, closeVars
  <1>2. \/ free > 0 /\ free' = free - 1 /\ at' = [at EXCEPT ![r] = "enter"]
        \/ free' = free /\ at' = [at EXCEPT ![r] = "busy"]
    BY DEF Admit, Go
  <1>3. /\ job[r] = "none" /\ answer[r] = "NONE" /\ r \notin hooked /\ release[r] = "no"
        /\ call[r] \notin {"idle", "asleep"}
    BY <1>1 DEF Requests, Place, Once, Early
  <1>4. ServeShape' /\ Unloaded'
    BY <1>1, <1>2 DEF ServeShape, Unloaded, Occupied
  <1>5. Requests'
    BY <1>1, <1>2, <1>3 DEF Requests, Place, Once, Early, Over, ServeShape
  <1>6. Counting' = Counting /\ InHand' = InHand
    BY <1>1, <1>2, <1>3 DEF Counting, InHand, Admitted, ServeShape
  <1>7. CASE free' = free - 1 /\ at' = [at EXCEPT ![r] = "enter"]
    <2>1. Holders' = Holders \cup {r} /\ r \notin Holders /\ Holders \in SUBSET Request
      BY <1>1, <1>3, <1>7 DEF Holders, Admitted, ServeShape
    <2>2. Accounts'
      BY <1>1, <1>6, <1>7, <2>1, OneMore DEF Accounts, Counted, ServeShape
    <2>. QED BY <1>4, <1>5, <2>2
  <1>8. CASE free' = free /\ at' = [at EXCEPT ![r] = "busy"]
    <2>1. Holders' = Holders
      BY <1>1, <1>3, <1>8 DEF Holders, Admitted, ServeShape
    <2>. QED BY <1>1, <1>4, <1>5, <1>6, <1>8, <2>1, SameAccounts
  <1>. QED BY <1>2, <1>7, <1>8

LEMMA RefuseBusyKeeps ==
  ASSUME ServeInv, NEW r \in Request, RefuseBusy(r)
  PROVE  ServeInv'
PROOF
  <1>. USE DEF ServeInv
  <1>1. /\ UNCHANGED <<total, job, hooked, free, active, release, call, stopping, shut, unloaded, service>>
        /\ at[r] = "busy" /\ at' = [at EXCEPT ![r] = "done"]
        /\ answer' = [answer EXCEPT ![r] = "BUSY"] /\ Tally("BUSY")
    BY DEF RefuseBusy, slotVars, closeVars, Reply, Go
  <1>2. /\ job[r] = "none" /\ answer[r] = "NONE" /\ r \notin hooked /\ release[r] = "no"
        /\ call[r] \notin {"idle", "asleep"}
    BY <1>1 DEF Requests, Place, Once, Early
  <1>3. ServeShape' /\ Unloaded'
    BY <1>1, TallyAddsOne DEF ServeShape, Outcomes, Unloaded, Occupied
  <1>4. Requests'
    BY <1>1, <1>2 DEF Requests, Place, Once, Early, Over, ServeShape
  <1>5. /\ Holders' = Holders /\ Counting' = Counting
        /\ InHand' = InHand \ {r} /\ r \in InHand /\ InHand \in SUBSET Request
    BY <1>1, <1>2 DEF Holders, Counting, InHand, Admitted, ServeShape
  <1>6. Accounts'
    BY <1>1, <1>5, OneLess, TallyAddsOne DEF Accounts, ServeShape, Outcomes
  <1>. QED BY <1>3, <1>4, <1>6

LEMMA EnterKeeps ==
  ASSUME ServeInv, NEW r \in Request, Enter(r)
  PROVE  ServeInv'
PROOF
  <1>. USE DEF ServeInv
  <1>1. /\ UNCHANGED <<answer, total, counts, job, hooked, free, release, call, stopping, shut, unloaded, service>>
        /\ at[r] = "enter" /\ at' = [at EXCEPT ![r] = "submit"] /\ active' = active + 1
    BY DEF Enter, closeVars, Go
  <1>2. /\ job[r] = "none" /\ answer[r] = "NONE" /\ r \notin hooked /\ release[r] = "no"
        /\ call[r] \notin {"idle", "asleep"}
    BY <1>1 DEF Requests, Place, Once, Early
  <1>3. ServeShape' /\ Unloaded'
    BY <1>1 DEF ServeShape, Unloaded, Occupied
  <1>4. Requests'
    BY <1>1, <1>2 DEF Requests, Place, Once, Early, Over, ServeShape
  <1>5. /\ Holders' = Holders /\ InHand' = InHand
        /\ Counting' = Counting \cup {r} /\ r \notin Counting /\ Counting \in SUBSET Request
    BY <1>1, <1>2 DEF Holders, Counting, InHand, Admitted, ServeShape
  <1>6. Accounts'
    BY <1>1, <1>5, OneMore DEF Accounts, Counted, ServeShape
  <1>. QED BY <1>3, <1>4, <1>6

\* A request the closed executor refuses keeps its slot for ever, and stays in hand.
LEMMA SubmitJobKeeps ==
  ASSUME ServeInv, NEW r \in Request, SubmitJob(r)
  PROVE  ServeInv'
PROOF
  <1>. USE DEF ServeInv
  <1>1. /\ UNCHANGED <<total, counts, hooked, free, active, release, call, stopping, shut, unloaded, service>>
        /\ at[r] = "submit"
    BY DEF SubmitJob, slotVars, closeVars
  <1>2. \/ /\ shut /\ job' = job /\ at' = [at EXCEPT ![r] = "done"]
           /\ answer' = [answer EXCEPT ![r] = "DROPPED"]
        \/ /\ ~shut /\ job' = [job EXCEPT ![r] = "queued"] /\ answer' = answer
           /\ at' = [at EXCEPT ![r] = IF service = "decision" THEN "hook" ELSE "wait"]
    BY DEF SubmitJob, Reply, Go
  <1>3. /\ job[r] = "none" /\ answer[r] = "NONE" /\ r \notin hooked /\ release[r] = "no"
        /\ call[r] \notin {"idle", "asleep"}
    BY <1>1 DEF Requests, Place, Once, Early
  <1>4. ServeShape'
    BY <1>1, <1>2 DEF ServeShape, Outcomes
  <1>5. Requests'
    BY <1>1, <1>2, <1>3 DEF Requests, Place, Once, Early, Over, Judged, ServeShape
  <1>6. Holders' = Holders /\ Counting' = Counting /\ InHand' = InHand
    BY <1>1, <1>2, <1>3 DEF Holders, Counting, InHand, Admitted, ServeShape
  <1>7. Accounts'
    BY <1>1, <1>6, SameAccounts
  <1>8. Occupied' = Occupied
    BY <1>2, <1>3 DEF Occupied, ServeShape
  <1>. QED BY <1>1, <1>4, <1>5, <1>7, <1>8 DEF Unloaded

\* The callback is hooked once, and falls due at once when the future is done already.
LEMMA HookKeeps ==
  ASSUME ServeInv, NEW r \in Request, NEW next \in {"wait", "leave"}, Hook(r, next),
         \/ at[r] = "hook" /\ next = "wait" /\ service = "decision"
         \/ at[r] = "settle" /\ next = "leave",
         UNCHANGED <<answer, total, counts, job, free, active, call, stopping, shut, unloaded, service>>
  PROVE  ServeInv'
PROOF
  <1>. USE DEF ServeInv
  <1>1. /\ hooked' = hooked \cup {r} /\ at' = [at EXCEPT ![r] = next]
        /\ release' = IF Over(r) THEN [release EXCEPT ![r] = "due"] ELSE release
    BY DEF Hook, Go
  <1>2. /\ job[r] # "none" /\ r \notin hooked /\ release[r] = "no" /\ answer[r] # "DROPPED"
        /\ at[r] = "hook" => answer[r] = "NONE"
        /\ call[r] \notin {"idle", "asleep"}
    BY DEF Requests, Place, Once, Early
  <1>3. ServeShape' /\ Unloaded'
    BY <1>1 DEF ServeShape, Unloaded, Occupied
  <1>4. Requests'
    BY <1>1, <1>2 DEF Requests, Place, Once, Early, Over, Judged, ServeShape
  <1>5. Holders' = Holders /\ Counting' = Counting /\ InHand' = InHand
    BY <1>1, <1>2 DEF Holders, Counting, InHand, Admitted, ServeShape
  <1>6. Accounts'
    BY <1>5, SameAccounts
  <1>. QED BY <1>3, <1>4, <1>6

LEMMA DecisionWaitsKeeps ==
  ASSUME ServeInv, NEW r \in Request, DecisionWaits(r)
  PROVE  ServeInv'
PROOF
  <1>. USE DEF ServeInv
  <1>1. PICK o \in Judged : GiveUpOrSee(r, o) /\ Tally(o) /\ Reply(r, o)
    BY DEF DecisionWaits
  <1>2. /\ UNCHANGED <<total, job, hooked, free, active, release, call, stopping, shut, unloaded, service>>
        /\ at[r] = "wait" /\ at' = [at EXCEPT ![r] = "done"] /\ answer' = [answer EXCEPT ![r] = o]
    BY <1>1 DEF DecisionWaits, slotVars, closeVars, Reply, Go
  <1>3. /\ job[r] # "none" /\ answer[r] = "NONE" /\ call[r] \notin {"idle", "asleep"}
        /\ o \in Outcomes /\ o \notin {"DROPPED", "NONE"}
    BY <1>2 DEF Requests, Place, Once, Early, Judged, Outcomes
  <1>4. ServeShape' /\ Unloaded'
    BY <1>1, <1>2, <1>3, TallyAddsOne DEF ServeShape, Unloaded, Occupied
  <1>5. Requests'
    BY <1>2, <1>3 DEF Requests, Place, Once, Early, Over, Judged, ServeShape
  <1>6. /\ Holders' = Holders /\ Counting' = Counting
        /\ InHand' = InHand \ {r} /\ r \in InHand /\ InHand \in SUBSET Request
    BY <1>2, <1>3 DEF Holders, Counting, InHand, Admitted, ServeShape
  <1>7. Accounts'
    BY <1>1, <1>2, <1>3, <1>6, OneLess, TallyAddsOne DEF Accounts, ServeShape
  <1>. QED BY <1>4, <1>5, <1>7

LEMMA RuntimeWaitsKeeps ==
  ASSUME ServeInv, NEW r \in Request, RuntimeWaits(r)
  PROVE  ServeInv'
PROOF
  <1>. USE DEF ServeInv
  <1>1. PICK o \in Judged :
          /\ GiveUpOrSee(r, o) /\ Tally(IF o = "INVALID" THEN "FAILED" ELSE o)
          /\ answer' = [answer EXCEPT ![r] = IF o = "INVALID" THEN "FAILED" ELSE o]
    BY DEF RuntimeWaits
  <1>. DEFINE a == IF o = "INVALID" THEN "FAILED" ELSE o
  <1>2. /\ UNCHANGED <<total, job, hooked, free, active, release, call, stopping, shut, unloaded, service>>
        /\ service = "runtime" /\ at[r] = "wait" /\ at' = [at EXCEPT ![r] = "settle"]
        /\ answer' = [answer EXCEPT ![r] = a] /\ Tally(a)
    BY <1>1 DEF RuntimeWaits, slotVars, closeVars, Go
  <1>3. /\ job[r] # "none" /\ answer[r] = "NONE" /\ call[r] \notin {"idle", "asleep"}
        /\ r \notin hooked /\ release[r] = "no"
        /\ a \in Outcomes /\ a \notin {"DROPPED", "NONE"}
        /\ a # "TIMEOUT" => Over(r)
    BY <1>1, <1>2 DEF Requests, Place, Once, Early, Judged, Outcomes, GiveUpOrSee
  <1>. HIDE DEF a
  <1>4. ServeShape' /\ Unloaded'
    BY <1>2, <1>3, TallyAddsOne DEF ServeShape, Unloaded, Occupied
  <1>5. Requests'
    BY <1>2, <1>3 DEF Requests, Place, Once, Early, Over, Judged, ServeShape
  <1>6. /\ Holders' = Holders /\ Counting' = Counting
        /\ InHand' = InHand \ {r} /\ r \in InHand /\ InHand \in SUBSET Request
    BY <1>2, <1>3 DEF Holders, Counting, InHand, Admitted, ServeShape
  <1>7. Accounts'
    BY <1>2, <1>3, <1>6, OneLess, TallyAddsOne DEF Accounts, ServeShape
  <1>. QED BY <1>4, <1>5, <1>7

\* The request that saw its inference end releases its slot itself; the other leaves a callback.
LEMMA SettlesKeep ==
  ASSUME ServeInv, NEW r \in Request, RuntimeSettles(r)
  PROVE  ServeInv'
PROOF
  <1>. USE DEF ServeInv
  <1>1. /\ UNCHANGED <<answer, total, counts, job, free, active, call, stopping, shut, unloaded, service>>
        /\ at[r] = "settle"
    BY DEF RuntimeSettles, closeVars
  <1>2. CASE answer[r] = "TIMEOUT"
    BY <1>1, <1>2, HookKeeps DEF RuntimeSettles
  <1>3. CASE answer[r] # "TIMEOUT"
    <2>1. /\ release' = [release EXCEPT ![r] = "due"] /\ at' = [at EXCEPT ![r] = "leave"] /\ hooked' = hooked
      BY <1>3 DEF RuntimeSettles, Go
    <2>2. /\ job[r] # "none" /\ Over(r) /\ release[r] = "no" /\ answer[r] # "DROPPED"
          /\ r \notin hooked /\ call[r] \notin {"idle", "asleep"}
      BY <1>1, <1>3 DEF Requests, Place, Once, Early
    <2>3. ServeShape' /\ Unloaded'
      BY <1>1, <2>1 DEF ServeShape, Unloaded, Occupied
    <2>4. Requests'
      BY <1>1, <2>1, <2>2 DEF Requests, Place, Once, Early, Over, Judged, ServeShape
    <2>5. Holders' = Holders /\ Counting' = Counting /\ InHand' = InHand
      BY <1>1, <2>1, <2>2 DEF Holders, Counting, InHand, Admitted, ServeShape
    <2>. QED BY <1>1, <2>3, <2>4, <2>5, SameAccounts
  <1>. QED BY <1>2, <1>3

LEMMA LeavesKeep ==
  ASSUME ServeInv, NEW r \in Request, RuntimeLeaves(r)
  PROVE  ServeInv'
PROOF
  <1>. USE DEF ServeInv
  <1>1. /\ UNCHANGED <<answer, total, counts, job, hooked, free, active, release, call, stopping, shut,
                       unloaded, service>>
        /\ at[r] = "leave" /\ at' = [at EXCEPT ![r] = "done"]
    BY DEF RuntimeLeaves, slotVars, closeVars, Go
  <1>2. job[r] # "none" /\ answer[r] # "DROPPED" /\ call[r] \notin {"idle", "asleep"}
    BY <1>1 DEF Requests, Place, Once, Early
  <1>3. ServeShape' /\ Unloaded'
    BY <1>1 DEF ServeShape, Unloaded, Occupied
  <1>4. Requests'
    BY <1>1, <1>2 DEF Requests, Place, Once, Early, Over, Judged, ServeShape
  <1>5. Holders' = Holders /\ Counting' = Counting /\ InHand' = InHand
    BY <1>1, <1>2 DEF Holders, Counting, InHand, Admitted, ServeShape
  <1>. QED BY <1>1, <1>3, <1>4, <1>5, SameAccounts

LEMMA HandlesKeep ==
  ASSUME ServeInv, NEW r \in Request, Handles(r)
  PROVE  ServeInv'
PROOF
  <1>1. CASE DecisionHooks(r)
    <2>1. /\ UNCHANGED <<answer, total, counts, job, free, active, call, stopping, shut, unloaded, service>>
          /\ at[r] = "hook" /\ service = "decision" /\ Hook(r, "wait")
      BY <1>1 DEF DecisionHooks, closeVars
    <2>. QED BY <2>1, HookKeeps
  <1>. QED BY <1>1, ArrivalsKeep, AdmitKeeps, RefuseBusyKeeps, EnterKeeps, SubmitJobKeeps,
              DecisionWaitsKeeps, RuntimeWaitsKeeps, SettlesKeep, LeavesKeep DEF Handles

\* The executor starts nothing once it is shut down, because nothing is queued any more.
LEMMA JobsKeep ==
  ASSUME ServeInv, NEW r \in Request, StartJob(r) \/ FinishJob(r)
  PROVE  ServeInv'
PROOF
  <1>. USE DEF ServeInv
  <1>1. /\ UNCHANGED <<at, answer, total, counts, hooked, free, active, call, stopping, shut, unloaded, service>>
    BY DEF StartJob, FinishJob, handlerVars, slotVars, closeVars
  <1>2. CASE StartJob(r)
    <2>1. /\ job[r] = "queued" /\ job' = [job EXCEPT ![r] = "running"] /\ release' = release
      BY <1>2 DEF StartJob, slotVars
    <2>2. ServeShape' /\ ~shut
      BY <1>1, <2>1 DEF ServeShape, Requests, Once
    <2>3. Requests'
      BY <1>1, <2>1 DEF Requests, Place, Once, Early, Over, Judged, ServeShape
    <2>4. Holders' = Holders /\ Counting' = Counting /\ InHand' = InHand
      BY <1>1, <2>1 DEF Holders, Counting, InHand, Admitted, ServeShape
    <2>. QED BY <1>1, <2>2, <2>3, <2>4, SameAccounts DEF Unloaded
  <1>3. CASE FinishJob(r)
    <2>1. PICK how \in Judged : job[r] = "running" /\ Finish(r, how)
      BY <1>3 DEF FinishJob
    <2>2. /\ job' = [job EXCEPT ![r] = how] /\ release[r] = "no"
          /\ release' = IF r \in hooked THEN [release EXCEPT ![r] = "due"] ELSE release
      BY <2>1 DEF Finish, Requests, Once
    <2>3. ServeShape'
      BY <1>1, <2>2 DEF ServeShape
    <2>4. Requests'
      BY <1>1, <2>1, <2>2 DEF Requests, Place, Once, Early, Over, Judged, ServeShape
    <2>5. Holders' = Holders /\ Counting' = Counting /\ InHand' = InHand
      BY <1>1, <2>1, <2>2 DEF Holders, Counting, InHand, Admitted, Judged, ServeShape
    <2>6. Unloaded'
      BY <1>1, <2>1, <2>2 DEF Unloaded, Occupied, ServeShape
    <2>. QED BY <1>1, <2>3, <2>4, <2>5, <2>6, SameAccounts
  <1>. QED BY <1>2, <1>3

LEMMA ReleasesKeep ==
  ASSUME ServeInv, NEW r \in Request, Releases(r)
  PROVE  ServeInv'
PROOF
  <1>. USE DEF ServeInv
  <1>1. /\ UNCHANGED <<at, answer, total, counts, job, hooked, call, stopping, shut, unloaded, service>>
        /\ \/ release[r] = "due" /\ active' = active - 1 /\ free' = free
              /\ release' = [release EXCEPT ![r] = "half"]
           \/ release[r] = "half" /\ active' = active /\ free' = free + 1
              /\ release' = [release EXCEPT ![r] = "done"]
    BY DEF Releases, ReleaseCount, ReleaseSlot, handlerVars, closeVars
  <1>2. /\ job[r] # "none" /\ job[r] \notin {"queued", "running"}
        /\ r \in hooked \/ at[r] \in {"leave", "done"}
        /\ at[r] \notin Early
    BY <1>1 DEF Requests, Place, Once
  <1>3. ServeShape' /\ Unloaded'
    BY <1>1 DEF ServeShape, Unloaded, Occupied
  <1>4. Requests'
    BY <1>1, <1>2 DEF Requests, Place, Once, Over, ServeShape
  <1>5. InHand' = InHand /\ Counted' = Counted
    BY <1>1 DEF InHand, Counted
  <1>6. CASE release[r] = "due" /\ active' = active - 1 /\ free' = free /\ release' = [release EXCEPT ![r] = "half"]
    <2>1. /\ Holders' = Holders
          /\ Counting' = Counting \ {r} /\ r \in Counting /\ Counting \in SUBSET Request
      BY <1>1, <1>2, <1>6 DEF Holders, Counting, Admitted, Early, ServeShape
    <2>2. Accounts'
      BY <1>1, <1>5, <1>6, <2>1, OneLess DEF Accounts, ServeShape
    <2>. QED BY <1>3, <1>4, <2>2
  <1>7. CASE release[r] = "half" /\ active' = active /\ free' = free + 1 /\ release' = [release EXCEPT ![r] = "done"]
    <2>1. /\ Counting' = Counting
          /\ Holders' = Holders \ {r} /\ r \in Holders /\ Holders \in SUBSET Request
      BY <1>1, <1>2, <1>7 DEF Holders, Counting, Admitted, ServeShape
    <2>2. Accounts'
      BY <1>1, <1>5, <1>7, <2>1, OneLess DEF Accounts, ServeShape
    <2>. QED BY <1>3, <1>4, <2>2
  <1>. QED BY <1>1, <1>6, <1>7

\* The futures the shutdown cancels release their slots like any other that has ended.
LEMMA ClosingKeeps ==
  ASSUME ServeInv, CloseRuntime \/ Shutdown \/ Unload
  PROVE  ServeInv'
PROOF
  <1>. USE DEF ServeInv
  <1>1. UNCHANGED <<at, answer, total, counts, hooked, free, active, call, service>>
    BY DEF CloseRuntime, Shutdown, Unload, handlerVars, slotVars
  <1>2. CASE CloseRuntime \/ Unload
    <2>1. UNCHANGED <<job, release, shut>>
      BY <1>2 DEF CloseRuntime, Unload, slotVars
    <2>2. ServeShape' /\ Requests'
      BY <1>1, <2>1 DEF ServeShape, Requests, Place, Once, Over
    <2>3. Holders' = Holders /\ Counting' = Counting /\ InHand' = InHand /\ Occupied' = Occupied
      BY <1>1, <2>1 DEF Holders, Counting, InHand, Admitted, Occupied
    <2>4. Unloaded'
      BY <1>2, <2>1, <2>3 DEF Unloaded, CloseRuntime, Unload
    <2>. QED BY <1>1, <2>2, <2>3, <2>4, SameAccounts
  <1>3. CASE Shutdown
    <2>1. /\ job' = [q \in Request |-> IF job[q] = "queued" THEN "CANCELLED" ELSE job[q]]
          /\ release' = [q \in Request |-> IF job[q] = "queued" /\ q \in hooked THEN "due" ELSE release[q]]
          /\ UNCHANGED unloaded
      BY <1>3 DEF Shutdown
    <2>2. ServeShape'
      BY <1>1, <2>1 DEF ServeShape
    <2>3. Requests'
      BY <1>1, <2>1 DEF Requests, Place, Once, Early, Over, Judged, ServeShape
    <2>4. Holders' = Holders /\ Counting' = Counting /\ InHand' = InHand
      BY <1>1, <2>1 DEF Requests, Once, Holders, Counting, InHand, Admitted, ServeShape
    <2>5. Unloaded'
      BY <1>3, <2>1 DEF Unloaded, Occupied, Shutdown
    <2>. QED BY <1>1, <2>2, <2>3, <2>4, <2>5, SameAccounts
  <1>. QED BY <1>2, <1>3

LEMMA ServeKeeps == ServeInv /\ [ServeNext]_serveVars => ServeInv'
PROOF
  <1>. SUFFICES ASSUME ServeInv, [ServeNext]_serveVars PROVE ServeInv'
    OBVIOUS
  <1>1. CASE UNCHANGED serveVars
    <2>1. UNCHANGED <<at, answer, total, counts, job, hooked, free, active, release, call, stopping, shut,
                      unloaded, service>>
      BY <1>1 DEF serveVars, handlerVars, slotVars, closeVars
    <2>. QED BY <2>1 DEF ServeInv, ServeShape, Requests, Place, Once, Over, Accounts, Counted, Holders,
                Counting, InHand, Admitted, Unloaded, Occupied
  <1>. QED BY <1>1, CallsKeep, HandlesKeep, JobsKeep, ReleasesKeep, ClosingKeeps DEF ServeNext

\* Slots, activity and counters always account for the same requests, for any number of
\* requests and slots, whoever gives up and whenever the service closes; and the adapter is
\* never closed under an inference (ServiceAccounts).
THEOREM ServiceAccountsCorrect == ServeSpec => []ServiceAccounts
PROOF
  <1>1. ServeInv => ServiceAccounts
    <2>. SUFFICES ASSUME ServeInv PROVE ServiceAccounts
      OBVIOUS
    <2>1. SlotsBalance
      BY DEF ServeInv, Accounts, Requests, Once, Holders, SlotsBalance
    <2>2. ActiveWithinSlots
      BY SizesAreNat, ServeAssumption DEF ServeInv, ServeShape, Accounts, ActiveWithinSlots
    <2>3. MetricsAddUp
      BY DEF ServeInv, Accounts, InHand, MetricsAddUp
    <2>4. AdapterOutlivesInference
      BY DEF ServeInv, Unloaded, AdapterOutlivesInference
    <2>. QED BY <2>1, <2>2, <2>3, <2>4 DEF ServiceAccounts
  <1>. QED BY ServeStarts, ServeKeeps, <1>1, PTL DEF ServeSpec
=============================================================================
