-------------------------- MODULE AsyncQwenBridge --------------------------
(***************************************************************************)
(* src/integration/qwen_async.py, AsyncQwenDecisionBridge, and the frame    *)
(* loop that owns it (src/integration/carla_runner.py, the qwen_bridge      *)
(* branch).  The loop submits, polls and closes; one worker thread infers.  *)
(* They meet in a queue of one and in the newest result, under a lock, so   *)
(* an action is one lock region, one queue operation, or one inference.     *)
(*                                                                          *)
(* A caller that uses the class as a library submits again whenever it      *)
(* likes; the runner submits once, consumes one terminal result and latches *)
(* an alert in every frame without one.                                     *)
(*                                                                          *)
(* Abstracted: the wall clock is one fact (late: the newest submission is   *)
(* older than max_inference_s); simulation time is the age of the newest    *)
(* submission in frames, counted to just past the decision's lifetime.      *)
(***************************************************************************)
EXTENDS DirectDecision

CONSTANTS
  MaxRequests,   \* bound: submissions a library caller makes
  Ttl,           \* ttl_s, in frames
  Asked,         \* what a backend that picks a token is asked and picks: [context, choice]
  Composed,      \* what one that writes the decision itself is asked and writes: [context, written]
  LibraryReplies \* what inference makes of a library caller's request: [context, decision]

\* One object per track identity; a written decision is only ever asked for under no safety
\* rule, because nothing in the code holds it to one.
IsContext(c) ==
  /\ c # None /\ \A os \in SUBSET c.objects : os # None
  /\ \A o, p \in c.objects : o.track = p.track /\ o.track # None => o = p
IsDecision(d) ==
  d = [action |-> d.action, confidence |-> d.confidence, confirm |-> d.confirm, source |-> d.source,
       speed |-> d.speed, target |-> d.target]

ASSUME BridgeAssumption ==
  /\ MaxRequests \in Nat /\ Ttl \in Nat /\ None \notin Moving \cup Stopping
  /\ \A q \in Asked :
       IsContext(q.context) /\ q.choice \in [action : Moving \cup Stopping, confidence : 0 .. 100]
  /\ \A q \in Composed :
       /\ IsContext(q.context) /\ Rule(q.context) = None
       /\ IsDecision(q.written) /\ q.written.source = "QWEN_VL"

\* What inference may make of the runner's request; the decision is None when it raises.
RunnerReplies ==
  {[context |-> q.context, decision |-> ChoiceInfer(q.choice, q.context)] : q \in Asked}
  \cup {[context |-> q.context, decision |-> WritingInfer(q.written, q.context)] : q \in Composed}
  \cup {[context |-> None, decision |-> None]}

VARIABLES
  caller,    \* "runner" or "library"
  newest,    \* _latest_submitted
  latest,    \* _latest: [seq, status, answer]
  late, age,
  waiting,   \* the queue: request numbers, 0 the sentinel
  hand,      \* what the caller is about to put, and how far it has got
  worker,    \* [at, seq, answer]
  closed,
  terminal,  \* the runner's terminal status (qwen_terminal_recorded)
  latch,     \* the QWEN alerts latched in the runtime
  command    \* the command the runner has submitted

callVars   == <<caller, newest, latest, late, age, closed>>
runnerVars == <<terminal, latch, command>>
bridgeVars == <<callVars, waiting, hand, worker, runnerVars>>

NoAnswer == [seq |-> 0, context |-> None, decision |-> None]
Result(seq, status, answer) == [seq |-> seq, status |-> status, answer |-> answer]

BridgeInit ==
  /\ caller \in {"runner", "library"}
  /\ newest = 0 /\ latest = Result(0, "NONE", NoAnswer) /\ late = FALSE /\ age = 0
  /\ waiting = <<>> /\ hand = [item |-> 0, at |-> "free"]
  /\ worker = [at |-> "get", seq |-> 0, answer |-> NoAnswer] /\ closed = FALSE
  /\ terminal = "NONE" /\ latch = {} /\ command = None
-----------------------------------------------------------------------------
(* submit and close put through the same three queue operations.           *)

Submit ==
  /\ hand.at = "free" /\ ~closed
  /\ newest < (IF caller = "runner" THEN 1 ELSE MaxRequests)
  /\ newest' = newest + 1
  /\ latest' = Result(newest + 1, "PENDING", NoAnswer) /\ late' = FALSE /\ age' = 0
  /\ hand' = [item |-> newest + 1, at |-> "put"]
  /\ UNCHANGED <<caller, waiting, worker, closed, runnerVars>>

Close ==
  /\ hand.at = "free" /\ ~closed /\ closed' = TRUE
  /\ hand' = [item |-> 0, at |-> "put"]
  /\ UNCHANGED <<caller, newest, latest, late, age, waiting, worker, runnerVars>>

Put ==
  /\ hand.at = "put"
  /\ IF waiting = <<>> THEN waiting' = <<hand.item>> /\ hand' = [hand EXCEPT !.at = "free"]
     ELSE UNCHANGED waiting /\ hand' = [hand EXCEPT !.at = "drain"]
  /\ UNCHANGED <<callVars, worker, runnerVars>>

\* get_nowait, or nothing when the worker has been quicker.
Drain ==
  /\ hand.at = "drain" /\ hand' = [hand EXCEPT !.at = "reput"]
  /\ waiting' = <<>>
  /\ UNCHANGED <<callVars, worker, runnerVars>>

\* The second put_nowait; Full is not caught.
Reput ==
  /\ hand.at = "reput"
  /\ IF waiting = <<>> THEN waiting' = <<hand.item>> /\ hand' = [hand EXCEPT !.at = "free"]
     ELSE UNCHANGED waiting /\ hand' = [hand EXCEPT !.at = "raised"]
  /\ UNCHANGED <<callVars, worker, runnerVars>>
-----------------------------------------------------------------------------
(* The worker thread, _run.                                                *)

Get ==
  /\ worker.at = "get" /\ waiting # <<>> /\ waiting' = <<>>
  /\ worker' = IF Head(waiting) = 0 THEN [worker EXCEPT !.at = "gone"]
               ELSE [worker EXCEPT !.at = "infer", !.seq = Head(waiting)]
  /\ UNCHANGED <<callVars, hand, runnerVars>>

Infer ==
  /\ worker.at = "infer"
  /\ \E r \in (IF caller = "runner" THEN RunnerReplies ELSE LibraryReplies) :
       worker' = [worker EXCEPT !.at = "store",
                  !.answer = [seq |-> worker.seq, context |-> r.context, decision |-> r.decision]]
  /\ UNCHANGED <<callVars, waiting, hand, runnerVars>>

Status(answer) == IF answer.decision = None THEN "ERROR" ELSE "READY"
StoreMutant ==
  /\ worker.at = "store"
  /\ latest' = IF latest.status = "PENDING"
               THEN Result(latest.seq, Status(worker.answer), worker.answer) ELSE latest
  /\ worker' = [worker EXCEPT !.at = "get", !.answer = NoAnswer]
  /\ UNCHANGED <<caller, newest, late, age, closed, waiting, hand, runnerVars>>
Store ==
  /\ worker.at = "store"
  /\ latest' = IF worker.seq = newest /\ latest.status = "PENDING"
               THEN Result(worker.seq, Status(worker.answer), worker.answer) ELSE latest
  /\ worker' = [worker EXCEPT !.at = "get", !.answer = NoAnswer]
  /\ UNCHANGED <<caller, newest, late, age, closed, waiting, hand, runnerVars>>
-----------------------------------------------------------------------------
(* latest(): a deadline that has passed is written down, staleness is not. *)

NoticedMutant == latest
Noticed == IF latest.status = "PENDING" /\ late THEN [latest EXCEPT !.status = "TIMEOUT"] ELSE latest
SeenMutant == Noticed.status
Seen == IF Noticed.status = "READY" /\ age > Ttl THEN "STALE" ELSE Noticed.status

\* The runner's frame once it has submitted: nothing is polled after a terminal result.
TakeResult ==
  /\ terminal' = IF Seen = "PENDING" THEN "NONE" ELSE Seen
  /\ IF Seen = "READY"
     THEN latch' = latch \ {"PENDING"} /\ command' = VehicleCommand(Noticed.answer.decision)
     ELSE latch' = latch \cup {Seen} /\ UNCHANGED command

Poll ==
  /\ hand.at = "free" /\ newest > 0 /\ ~closed /\ terminal = "NONE"
  /\ latest' = Noticed
  /\ IF caller = "runner" THEN TakeResult ELSE UNCHANGED runnerVars
  /\ UNCHANGED <<caller, newest, late, age, closed, waiting, hand, worker>>

\* A frame of simulation time; the runner polls in every one of them.
Frame ==
  /\ hand.at = "free" /\ newest > 0 /\ ~closed /\ age <= Ttl /\ age' = age + 1
  /\ UNCHANGED <<caller, newest, latest, late, closed, waiting, hand, worker, runnerVars>>

WallClock ==
  /\ newest > 0 /\ ~late /\ late' = TRUE
  /\ UNCHANGED <<caller, newest, latest, age, closed, waiting, hand, worker, runnerVars>>

BridgeNext ==
  \/ Submit \/ Close \/ Put \/ Drain \/ Reput \/ Get \/ Infer \/ Store
  \/ Poll \/ Frame \/ WallClock

\* The loop keeps running and time passes; inference may hang for ever.
BridgeFairness ==
  /\ WF_bridgeVars(Put) /\ WF_bridgeVars(Drain) /\ WF_bridgeVars(Reput)
  /\ WF_bridgeVars(Poll) /\ WF_bridgeVars(WallClock)
-----------------------------------------------------------------------------
BridgeTypeOK ==
  /\ newest \in 0 .. MaxRequests /\ late \in BOOLEAN /\ age \in 0 .. Ttl + 1 /\ closed \in BOOLEAN
  /\ latest.status \in {"NONE", "PENDING", "READY", "ERROR", "TIMEOUT"} /\ latest.seq \in 0 .. newest
  /\ waiting \in {<<>>} \cup {<<n>> : n \in 0 .. newest}
  /\ worker.at \in {"get", "infer", "store", "gone"} /\ worker.seq \in 0 .. newest
  /\ terminal \in {"NONE", "READY", "ERROR", "TIMEOUT", "STALE"}
  /\ latch \subseteq {"PENDING", "TIMEOUT", "STALE", "ERROR"}

\* The newest request wins: what the bridge holds is about the newest submission, and an answer
\* in it is the answer to that submission, whichever request the worker finished last.
NewestWins ==
  /\ latest.seq = newest
  /\ latest.status \in {"READY", "ERROR"} => latest.answer.seq = newest

\* What the bridge has once reported of a submission stands: a result that arrives after the
\* deadline was noticed does not turn a TIMEOUT back into an answer.
SettledStays ==
  [][latest.status \notin {"NONE", "PENDING"} /\ latest'.seq = latest.seq => latest' = latest]_bridgeVars

\* The queue holds one item and is emptied before the newest is put, so the second put_nowait,
\* whose Full nobody catches, never raises in the control loop.
PutNeverRaises == hand.at # "raised"

\* A decision reaches the vehicle while it is fresh, once, and from the only request made.
ToldWhileFresh ==
  [][command' # command => command = None /\ age <= Ttl /\ latest'.answer.seq = newest]_bridgeVars

\* Whatever inference does, the runner is told of an answer or of its absence, and it then holds
\* either a command or an alert that brakes.
AnswerOrAlert ==
  (caller = "runner" /\ newest = 1) ~>
    (closed \/ command # None \/ latch \cap {"TIMEOUT", "STALE", "ERROR"} # {})

Told == latest.answer.decision
Under == latest.answer.context
Drives == command # None /\ command.action \in {"SET_SPEED", "KEEP_LANE"} /\ ~command.gated

\* A stop the safety rules impose is never answered with a command that moves the vehicle, and
\* advice to slow down never with more than the slow default.
RulesOverrideTheModel ==
  command # None /\ Under # None =>
    /\ Under.danger \/ Under.recommended = "EMERGENCY_STOP" => command.action = "EMERGENCY_BRAKE"
    /\ Under.red \/ Under.recommended = "STOP" => command.action \in {"STOP", "EMERGENCY_BRAKE"}
    /\ Under.recommended = "SLOW_DOWN" /\ Drives => command.target = SlowDownDefault

\* A command about a described object moves the vehicle only when perception holds exactly one
\* such object, sure enough, and it is the one the command names.
NamedTargetIsMatched ==
  Drives /\ Under # None /\ Under.names # None =>
    /\ Told.target # None
    /\ \A o \in Under.objects :
         o.track = Told.target =>
           o.sure /\ o.class = Under.names.class /\ (Under.names.how = "left" => o.relation = "left")

\* Doubt asks: an unsure token, invalid sight, an unknown speed or a missing target never drive.
DoubtIsGated ==
  command # None /\ Told.source \in
    {"QWEN_VL_LOW_CONFIDENCE", "QWEN_VL_VISUAL_INVALID", "QWEN_VL_SPEED_UNRESOLVED", "TARGET_GROUNDING"} =>
    command.gated /\ command.action = "STOP"

\* Whatever the model says, the command it becomes obeys the safety rules, names the object
\* the speaker meant, and asks where the model was in doubt.
RepliesAreGrounded == RulesOverrideTheModel /\ NamedTargetIsMatched /\ DoubtIsGated

\* The latest submission owns the bridge, and submitting never fails in the control loop.
NewestOwnsBridge == NewestWins /\ PutNeverRaises

\* A verdict stands, and only a fresh answer of the one request becomes a command.
VerdictsStand == SettledStays /\ ToldWhileFresh
=============================================================================
