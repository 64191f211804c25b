------------------------------ MODULE SlowPath ------------------------------
(***************************************************************************)
(* runtime/orchestrator.py, PipelineOrchestrator: the caller's thread      *)
(* (submit_command, poll_slow), the private Qwen worker thread             *)
(* (_run_slow_worker) and whoever closes the orchestrator (close).  They   *)
(* share a bounded job queue, a bounded result queue, the job in           *)
(* inference, the set of revoked requests and the closed flag.             *)
(*                                                                         *)
(* One action is one atomic step of the code: an operation of a            *)
(* queue.Queue, or a block under self._lock.  Between two of them the      *)
(* other threads run, so every lock release and every Full/Empty race of   *)
(* the source is an interleaving here.                                     *)
(*                                                                         *)
(* Abstracted: what a plan says.  A finished inference is READY, REJECTED  *)
(* (the validator refused it) or ERROR, and a READY result that arrived in *)
(* time is dispatched or refused by the checks on confidence, targets,     *)
(* perception and feasibility.  Time is two monotone facts per command:    *)
(* its deadline has passed (lapsed), and its age exceeds the model timeout *)
(* (overdue).                                                              *)
(***************************************************************************)
EXTENDS Integers, Sequences

CONSTANTS
  Request,     \* the commands a run submits, each under its own uuid
  QueueSize,   \* OrchestratorConfig.qwen_queue_size
  Outcome,     \* what an inference can come to: READY, REJECTED by the validator, ERROR
  MaxBurst,    \* most commands the caller submits between two polls
  None,        \* no job
  Sentinel     \* the None that close() puts in the job queue

ASSUME QueueAssumption == QueueSize \in Nat \ {0}
ASSUME BurstAssumption == MaxBurst \in Nat
ASSUME OutcomeAssumption == Outcome \subseteq {"READY", "REJECTED", "ERROR"}
ASSUME ValueAssumption == None \notin Request /\ Sentinel \notin Request /\ None # Sentinel

VARIABLES
  qwenQueue,   \* self._qwen_queue
  resultQueue, \* self._result_queue
  activeJob,   \* self._active_job
  revoked,     \* self._revoked_request_ids
  closed,      \* self._closed
  callerPc,    \* where the caller is inside submit_command or poll_slow
  job,         \* the job submit_command is enqueueing
  evicted,     \* the job it displaced
  snapshot,    \* the active job poll_slow saw
  fetched,     \* the results poll_slow has taken and not yet judged
  workerPc,    \* where the worker thread is
  workerJob,   \* the job it holds
  workerResult,\* the result it is about to publish
  closerPc,    \* where close() is
  lapsed,      \* commands whose deadline has passed
  overdue,     \* commands whose age exceeds model_timeout_ms
  accepted,    \* commands that entered the job queue
  latest,      \* the last of them
  refused,     \* commands turned away by submit_command
  answers,     \* every result poll_slow returned, per command
  burst        \* commands submitted since poll_slow last saw the queue empty, or in the
               \* first such burst that was a flood

queueVars  == <<qwenQueue, resultQueue>>
lockVars   == <<activeJob, revoked, closed>>
callerVars == <<callerPc, job, evicted, snapshot, fetched>>
workerVars == <<workerPc, workerJob, workerResult>>
clockVars  == <<lapsed, overdue>>
ledgerVars == <<accepted, latest, refused, answers, burst>>

vars == <<queueVars, lockVars, callerVars, workerVars, closerPc, clockVars, ledgerVars>>

ResultCapacityMutant == QueueSize
ResultCapacity == 2 * QueueSize + 2

\* No burst so far has held more commands than the job queue and the worker can.
Calm == burst <= QueueSize + 1

JobQueueFull == Len(qwenQueue) >= QueueSize
ResultQueueFull == Len(resultQueue) >= ResultCapacity

Result  == [job: Request, status: Outcome \cup {"OVERFLOW"}, inTime: BOOLEAN]
NoResult == [job |-> None, status |-> "NONE", inTime |-> FALSE]
Answer  == {"SLOW_READY", "REJECTED", "FAILED", "EXPIRED", "TIMED_OUT"}

TypeOK ==
  /\ qwenQueue \in Seq(Request \cup {Sentinel}) /\ Len(qwenQueue) <= QueueSize
  /\ resultQueue \in Seq(Result) /\ Len(resultQueue) <= ResultCapacity
  /\ activeJob \in Request \cup {None}
  /\ revoked \in SUBSET Request
  /\ closed \in BOOLEAN
  /\ callerPc \in {"idle", "put", "evict", "restore", "reput", "report", "insert",
                   "makeroom", "reinsert", "inspect", "revoke", "drain", "judge"}
  /\ job \in Request \cup {None}
  /\ evicted \in Request \cup {None}
  /\ snapshot \in Request \cup {None}
  /\ fetched \in Seq(Result)
  /\ workerPc \in {"get", "claim", "infer", "finish", "publish", "insert",
                   "makeroom", "reinsert", "done", "dead"}
  /\ workerJob \in Request \cup {None}
  /\ workerResult \in Result \cup {NoResult}
  /\ closerPc \in {"open", "sentinel", "makeroom", "resend", "done"}
  /\ lapsed \in SUBSET Request
  /\ overdue \in SUBSET Request
  /\ accepted \in SUBSET Request
  /\ latest \in Request \cup {None}
  /\ refused \in SUBSET Request
  /\ answers \in [Request -> Seq(Answer)]
  /\ burst \in Nat

Init ==
  /\ qwenQueue = <<>> /\ resultQueue = <<>>
  /\ activeJob = None /\ revoked = {} /\ closed = FALSE
  /\ callerPc = "idle" /\ job = None /\ evicted = None /\ snapshot = None /\ fetched = <<>>
  /\ workerPc = "get" /\ workerJob = None /\ workerResult = NoResult
  /\ closerPc = "open"
  /\ lapsed = {} /\ overdue = {}
  /\ accepted = {} /\ latest = None /\ refused = {} /\ burst = 0
  /\ answers = [r \in Request |-> <<>>]

New(r) == r \notin accepted \cup refused /\ r # job
-----------------------------------------------------------------------------
(* The caller: submit_command.                                             *)

\* An invalid or expired command, or any command once closed, gets no further.
SubmitRefused(r) ==
  /\ callerPc = "idle" /\ New(r)
  /\ refused' = refused \cup {r}
  /\ UNCHANGED <<queueVars, lockVars, callerVars, workerVars, closerPc, clockVars,
                 accepted, latest, answers, burst>>

\* _enqueue_slow_job sees the orchestrator open.
SubmitBegin(r) ==
  /\ callerPc = "idle" /\ New(r)
  /\ ~closed
  /\ burst < MaxBurst
  /\ callerPc' = "put" /\ job' = r /\ burst' = burst + 1
  /\ UNCHANGED <<queueVars, lockVars, evicted, snapshot, fetched, workerVars, closerPc,
                 clockVars, accepted, latest, refused, answers>>

\* put_nowait(job), or Full.
SubmitPut ==
  /\ callerPc = "put"
  /\ \/ /\ ~JobQueueFull
        /\ qwenQueue' = Append(qwenQueue, job)
        /\ accepted' = accepted \cup {job} /\ latest' = job
        /\ callerPc' = "idle" /\ job' = None
     \/ /\ JobQueueFull
        /\ callerPc' = "evict"
        /\ UNCHANGED <<qwenQueue, accepted, latest, job>>
  /\ UNCHANGED <<resultQueue, lockVars, evicted, snapshot, fetched, workerVars, closerPc,
                 clockVars, refused, answers, burst>>

\* get_nowait(): the worker may have emptied the queue meanwhile, or the oldest
\* entry may be close()'s sentinel.
SubmitEvict ==
  /\ callerPc = "evict"
  /\ IF qwenQueue = <<>>
     THEN callerPc' = "put" /\ UNCHANGED <<qwenQueue, evicted>>
     ELSE /\ qwenQueue' = Tail(qwenQueue)
          /\ IF Head(qwenQueue) = Sentinel
             THEN callerPc' = "restore" /\ UNCHANGED evicted
             ELSE callerPc' = "reput" /\ evicted' = Head(qwenQueue)
  /\ UNCHANGED <<resultQueue, lockVars, job, snapshot, fetched, workerVars, closerPc,
                 clockVars, ledgerVars>>

\* Give the sentinel back and raise; a queue that is full again raises Full.
SubmitRestore ==
  /\ callerPc = "restore"
  /\ qwenQueue' = IF JobQueueFull THEN qwenQueue ELSE Append(qwenQueue, Sentinel)
  /\ callerPc' = "idle" /\ job' = None
  /\ refused' = refused \cup {job}
  /\ UNCHANGED <<resultQueue, lockVars, evicted, snapshot, fetched, workerVars, closerPc,
                 clockVars, accepted, latest, answers, burst>>

\* The second put_nowait(job); it raises Full if close() filled the gap.
SubmitReput ==
  /\ callerPc = "reput"
  /\ IF ~JobQueueFull
     THEN /\ qwenQueue' = Append(qwenQueue, job)
          /\ accepted' = accepted \cup {job} /\ latest' = job
          /\ callerPc' = "report"
          /\ UNCHANGED <<refused, evicted>>
     ELSE /\ refused' = refused \cup {job}
          /\ callerPc' = "idle" /\ evicted' = None
          /\ UNCHANGED <<qwenQueue, accepted, latest>>
  /\ job' = None
  /\ UNCHANGED <<resultQueue, lockVars, snapshot, fetched, workerVars, closerPc, clockVars,
                 answers, burst>>

\* _put_latest for the OVERFLOW result of the displaced job: it raises if closed.
SubmitReport ==
  /\ callerPc = "report"
  /\ IF closed
     THEN callerPc' = "idle" /\ evicted' = None
     ELSE callerPc' = "insert" /\ UNCHANGED evicted
  /\ UNCHANGED <<queueVars, lockVars, job, snapshot, fetched, workerVars, closerPc, clockVars,
                 ledgerVars>>

OverflowResult == [job |-> evicted, status |-> "OVERFLOW", inTime |-> FALSE]

\* put_nowait of that result, or Full.
SubmitInsert ==
  /\ callerPc = "insert"
  /\ IF ~ResultQueueFull
     THEN /\ resultQueue' = Append(resultQueue, OverflowResult)
          /\ callerPc' = "idle" /\ evicted' = None
     ELSE callerPc' = "makeroom" /\ UNCHANGED <<resultQueue, evicted>>
  /\ UNCHANGED <<qwenQueue, lockVars, job, snapshot, fetched, workerVars, closerPc, clockVars,
                 ledgerVars>>

\* The oldest unread result is discarded.
SubmitMakeRoomMutant ==
  /\ callerPc = "makeroom"
  /\ resultQueue' = IF resultQueue = <<>> THEN resultQueue
                    ELSE SubSeq(resultQueue, 1, Len(resultQueue) - 1)
  /\ callerPc' = "reinsert"
  /\ UNCHANGED <<qwenQueue, lockVars, job, evicted, snapshot, fetched, workerVars, closerPc,
                 clockVars, ledgerVars>>
SubmitMakeRoom ==
  /\ callerPc = "makeroom"
  /\ resultQueue' = IF resultQueue = <<>> THEN resultQueue ELSE Tail(resultQueue)
  /\ callerPc' = "reinsert"
  /\ UNCHANGED <<qwenQueue, lockVars, job, evicted, snapshot, fetched, workerVars, closerPc,
                 clockVars, ledgerVars>>

\* The second put_nowait: if the worker took the room, Full escapes to the caller.
SubmitReinsert ==
  /\ callerPc = "reinsert"
  /\ resultQueue' = IF ~ResultQueueFull
                    THEN Append(resultQueue, OverflowResult) ELSE resultQueue
  /\ callerPc' = "idle" /\ evicted' = None
  /\ UNCHANGED <<qwenQueue, lockVars, job, snapshot, fetched, workerVars, closerPc, clockVars,
                 ledgerVars>>

Submit ==
  \/ \E r \in Request : SubmitRefused(r) \/ SubmitBegin(r)
  \/ SubmitPut \/ SubmitEvict \/ SubmitRestore \/ SubmitReput
  \/ SubmitReport \/ SubmitInsert \/ SubmitMakeRoom \/ SubmitReinsert
-----------------------------------------------------------------------------
(* The caller: poll_slow.                                                  *)

\* A positive wait_timeout_ms takes one result first, if one comes in time.
PollBegin ==
  /\ callerPc = "idle"
  /\ callerPc' = "inspect"
  /\ \/ UNCHANGED <<resultQueue, fetched>>
     \/ /\ resultQueue # <<>>
        /\ fetched' = <<Head(resultQueue)>>
        /\ resultQueue' = Tail(resultQueue)
  /\ UNCHANGED <<qwenQueue, lockVars, job, evicted, snapshot, workerVars, closerPc, clockVars,
                 ledgerVars>>

IsOverdueMutant(j) == j \in overdue /\ fetched # <<>>
IsOverdue(j) == j \in overdue

\* Read the active job and its age.
PollInspect ==
  /\ callerPc = "inspect"
  /\ IF activeJob # None /\ IsOverdue(activeJob)
     THEN snapshot' = activeJob /\ callerPc' = "revoke"
     ELSE callerPc' = "drain" /\ UNCHANGED snapshot
  /\ UNCHANGED <<queueVars, lockVars, job, evicted, fetched, workerVars, closerPc, clockVars,
                 ledgerVars>>

\* Under the lock: if that job is still the active one, take its authority away.
StillActive == activeJob = snapshot

MarkRevokedMutant(r) == UNCHANGED revoked
MarkRevoked(r) == revoked' = revoked \cup {r}

PollRevoke ==
  /\ callerPc = "revoke"
  /\ IF StillActive
     THEN /\ MarkRevoked(snapshot)
          /\ activeJob' = None
          /\ answers' = [answers EXCEPT ![snapshot] = Append(@, "TIMED_OUT")]
     ELSE UNCHANGED <<revoked, activeJob, answers>>
  /\ snapshot' = None /\ callerPc' = "drain"
  /\ UNCHANGED <<queueVars, closed, job, evicted, fetched, workerVars, closerPc, clockVars,
                 accepted, latest, refused, burst>>

\* get_nowait() until Empty.
PollDrain ==
  /\ callerPc = "drain"
  /\ IF resultQueue # <<>>
     THEN /\ fetched' = Append(fetched, Head(resultQueue))
          /\ resultQueue' = Tail(resultQueue)
          /\ UNCHANGED <<callerPc, burst>>
     ELSE /\ callerPc' = "judge" /\ burst' = IF Calm THEN 0 ELSE burst
          /\ UNCHANGED <<fetched, resultQueue>>
  /\ UNCHANGED <<qwenQueue, lockVars, job, evicted, snapshot, workerVars, closerPc, clockVars,
                 accepted, latest, refused, answers>>

\* The answers _consume_slow_result can give for a result that is not revoked.
Verdicts(result) ==
  CASE result.status \in {"OVERFLOW", "REJECTED"}   -> {"REJECTED"}
    [] result.status = "ERROR"                      -> {"FAILED"}
    [] result.status = "READY" /\ ~result.inTime    -> {"EXPIRED"}
    [] result.status = "READY" /\ result.inTime     -> {"SLOW_READY", "REJECTED"}

IsRevoked(r) == r \in revoked

RetireMarker(r) == revoked' = revoked \ {r}

\* _consume_slow_result: a revoked result only retires its marker.
PollJudge ==
  /\ callerPc = "judge" /\ fetched # <<>>
  /\ LET r == Head(fetched).job
     IN  IF IsRevoked(r)
         THEN RetireMarker(r) /\ UNCHANGED answers
         ELSE /\ \E a \in Verdicts(Head(fetched)) :
                   answers' = [answers EXCEPT ![r] = Append(@, a)]
              /\ UNCHANGED revoked
  /\ fetched' = Tail(fetched)
  /\ UNCHANGED <<queueVars, activeJob, closed, callerPc, job, evicted, snapshot, workerVars,
                 closerPc, clockVars, accepted, latest, refused, burst>>

PollReturn ==
  /\ callerPc = "judge" /\ fetched = <<>>
  /\ callerPc' = "idle"
  /\ UNCHANGED <<queueVars, lockVars, job, evicted, snapshot, fetched, workerVars, closerPc,
                 clockVars, ledgerVars>>

Poll == PollBegin \/ PollInspect \/ PollRevoke \/ PollDrain \/ PollJudge \/ PollReturn
-----------------------------------------------------------------------------
(* The worker thread: _run_slow_worker.                                    *)

\* get() blocks until there is an entry; the sentinel ends the thread.
WorkerGet ==
  /\ workerPc = "get" /\ qwenQueue # <<>>
  /\ qwenQueue' = Tail(qwenQueue)
  /\ IF Head(qwenQueue) = Sentinel
     THEN workerPc' = "done" /\ UNCHANGED workerJob
     ELSE workerPc' = "claim" /\ workerJob' = Head(qwenQueue)
  /\ UNCHANGED <<resultQueue, lockVars, callerVars, workerResult, closerPc, clockVars, ledgerVars>>

\* Under the lock: become the active job, unless closed.
WorkerClaim ==
  /\ workerPc = "claim"
  /\ IF closed
     THEN workerPc' = "done" /\ workerJob' = None /\ UNCHANGED activeJob
     ELSE workerPc' = "infer" /\ activeJob' = workerJob /\ UNCHANGED workerJob
  /\ UNCHANGED <<queueVars, revoked, closed, callerVars, workerResult, closerPc, clockVars,
                 ledgerVars>>

\* infer, validate and compile, without the lock; the result is stamped now.
WorkerInfer ==
  /\ workerPc = "infer"
  /\ \E o \in Outcome :
       workerResult' = [job |-> workerJob, status |-> o, inTime |-> workerJob \notin lapsed]
  /\ workerPc' = "finish"
  /\ UNCHANGED <<queueVars, lockVars, callerVars, workerJob, closerPc, clockVars, ledgerVars>>

ReleaseActive == activeJob' = IF activeJob = workerJob THEN None ELSE activeJob

\* Under the lock: give up the active slot if a timeout has not already taken it.
WorkerFinish ==
  /\ workerPc = "finish"
  /\ ReleaseActive
  /\ IF closed
     THEN workerPc' = "done" /\ workerJob' = None /\ workerResult' = NoResult
     ELSE workerPc' = "publish" /\ UNCHANGED <<workerJob, workerResult>>
  /\ UNCHANGED <<queueVars, revoked, closed, callerVars, closerPc, clockVars, ledgerVars>>

\* _put_latest raises once closed, and the exception ends the thread.
WorkerPublish ==
  /\ workerPc = "publish"
  /\ IF closed
     THEN workerPc' = "dead" /\ workerJob' = None /\ workerResult' = NoResult
     ELSE workerPc' = "insert" /\ UNCHANGED <<workerJob, workerResult>>
  /\ UNCHANGED <<queueVars, lockVars, callerVars, closerPc, clockVars, ledgerVars>>

WorkerInsert ==
  /\ workerPc = "insert"
  /\ IF ~ResultQueueFull
     THEN /\ resultQueue' = Append(resultQueue, workerResult)
          /\ workerPc' = "get" /\ workerJob' = None /\ workerResult' = NoResult
     ELSE workerPc' = "makeroom" /\ UNCHANGED <<resultQueue, workerJob, workerResult>>
  /\ UNCHANGED <<qwenQueue, lockVars, callerVars, closerPc, clockVars, ledgerVars>>

WorkerMakeRoom ==
  /\ workerPc = "makeroom"
  /\ resultQueue' = IF resultQueue = <<>> THEN resultQueue ELSE Tail(resultQueue)
  /\ workerPc' = "reinsert"
  /\ UNCHANGED <<qwenQueue, lockVars, callerVars, workerJob, workerResult, closerPc, clockVars,
                 ledgerVars>>

\* Nothing catches the Full of the second put_nowait: the thread dies of it.
WorkerReinsert ==
  /\ workerPc = "reinsert"
  /\ IF ~ResultQueueFull
     THEN resultQueue' = Append(resultQueue, workerResult) /\ workerPc' = "get"
     ELSE workerPc' = "dead" /\ UNCHANGED resultQueue
  /\ workerJob' = None /\ workerResult' = NoResult
  /\ UNCHANGED <<qwenQueue, lockVars, callerVars, closerPc, clockVars, ledgerVars>>

\* Everything the thread does by itself, without waiting for the model.
WorkerBookkeeping ==
  \/ WorkerGet \/ WorkerClaim \/ WorkerFinish
  \/ WorkerPublish \/ WorkerInsert \/ WorkerMakeRoom \/ WorkerReinsert

Worker == WorkerInfer \/ WorkerBookkeeping
-----------------------------------------------------------------------------
(* close(), which may run while another thread submits or polls.           *)

CloseBegin ==
  /\ closerPc = "open"
  /\ closed' = TRUE /\ closerPc' = "sentinel"
  /\ UNCHANGED <<queueVars, activeJob, revoked, callerVars, workerVars, clockVars, ledgerVars>>

CloseSentinel ==
  /\ closerPc = "sentinel"
  /\ IF ~JobQueueFull
     THEN qwenQueue' = Append(qwenQueue, Sentinel) /\ closerPc' = "done"
     ELSE closerPc' = "makeroom" /\ UNCHANGED qwenQueue
  /\ UNCHANGED <<resultQueue, lockVars, callerVars, workerVars, clockVars, ledgerVars>>

\* The oldest queued job is dropped to make room for the sentinel.
CloseMakeRoom ==
  /\ closerPc = "makeroom"
  /\ qwenQueue' = IF qwenQueue = <<>> THEN qwenQueue ELSE Tail(qwenQueue)
  /\ closerPc' = "resend"
  /\ UNCHANGED <<resultQueue, lockVars, callerVars, workerVars, clockVars, ledgerVars>>

CloseResend ==
  /\ closerPc = "resend"
  /\ qwenQueue' = IF JobQueueFull THEN qwenQueue ELSE Append(qwenQueue, Sentinel)
  /\ closerPc' = "done"
  /\ UNCHANGED <<resultQueue, lockVars, callerVars, workerVars, clockVars, ledgerVars>>

Close == CloseBegin \/ CloseSentinel \/ CloseMakeRoom \/ CloseResend
-----------------------------------------------------------------------------
(* The clock.  _model_request sets the deadline no later than the model    *)
(* timeout counted from an earlier instant than the age of the job, so an  *)
(* overdue command has always lapsed.  A command that expires before it is *)
(* queued is one of those SubmitRefused turns away.                        *)

DeadlinePasses(r) ==
  /\ r \in accepted \ lapsed
  /\ lapsed' = lapsed \cup {r}
  /\ UNCHANGED <<queueVars, lockVars, callerVars, workerVars, closerPc, overdue, ledgerVars>>

TimeoutElapses(r) ==
  /\ r \in lapsed \ overdue
  /\ overdue' = overdue \cup {r}
  /\ UNCHANGED <<queueVars, lockVars, callerVars, workerVars, closerPc, lapsed, ledgerVars>>

Clock == \E r \in Request : DeadlinePasses(r) \/ TimeoutElapses(r)

Next == Submit \/ Poll \/ Worker \/ Close \/ Clock

Spec == Init /\ [][Next]_vars
-----------------------------------------------------------------------------
(* Safety.                                                                 *)

JobsOf(results) == {results[i].job : i \in DOMAIN results}
QueuedJobs == {qwenQueue[i] : i \in DOMAIN qwenQueue} \ {Sentinel}

\* The commands whose answer is still on its way to the caller.
InFlight == QueuedJobs \cup JobsOf(resultQueue) \cup JobsOf(fetched)
              \cup ({workerJob, evicted} \ {None})

\* No command is ever answered twice: a timeout and the late result of the same
\* inference, or an eviction and a result, never both reach the caller.
AnsweredOnce == \A r \in DOMAIN answers : Len(answers[r]) <= 1

\* While open and not flooded, an accepted command that has no answer is still somewhere
\* in the pipeline: no eviction, overflow or timeout makes it vanish.
NothingLost ==
  Calm /\ ~closed => \A r \in accepted : answers[r] = <<>> => r \in InFlight

\* A revocation marker belongs to a command already answered TIMED_OUT whose late
\* result has not been consumed yet: markers do not outlive the work they mark
\* (the comment on _revoked_request_ids).
MarkersRetire ==
  Calm /\ ~closed => \A r \in revoked : answers[r] = <<"TIMED_OUT">> /\ r \in InFlight

\* As long as the caller has submitted at most QueueSize + 1 commands between polls, no
\* result is discarded: neither thread reaches the branch of _put_latest that drops the
\* oldest one.
NothingDropped ==
  Calm => callerPc \notin {"makeroom", "reinsert"} /\ workerPc \notin {"makeroom", "reinsert"}

\* Without a flood the worker thread is alive until the orchestrator is closed: no race on
\* the full result queue raises out of it.
WorkerSurvives == Calm /\ workerPc = "dead" => closed

\* However many commands are submitted between two polls, the latest one accepted is not
\* dropped while open: queues that are full give up what is oldest (_put_latest,
\* _enqueue_slow_job).  Only a worker that dies of a full result queue answers no more.
LatestKept ==
  latest # None /\ ~closed =>
    answers[latest] # <<>> \/ latest \in InFlight \/ workerPc = "dead"

\* The active slot names exactly the job in inference, and a job in inference loses
\* the slot only to its own timeout, never to the timeout of an earlier job.
ActiveSlot ==
  /\ activeJob # None => workerPc \in {"infer", "finish"} /\ workerJob = activeJob
  /\ workerPc \in {"infer", "finish"} => activeJob = workerJob \/ workerJob \in revoked

\* Evictions, overflows, timeouts and late results between them answer every command that
\* is answered once, make none vanish, leave no marker behind and never mix up two jobs.
Answering == AnsweredOnce /\ NothingLost /\ MarkersRetire /\ ActiveSlot
-----------------------------------------------------------------------------
(* The inductive invariant behind TypeOK, NothingDropped and               *)
(* WorkerSurvives (proved in SlowPathProofs).                              *)

\* A thread in the middle of an operation holds what the operation needs.
Held ==
  /\ callerPc \in {"put", "evict", "restore", "reput"} => job \in Request
  /\ callerPc \in {"reput", "report", "insert", "makeroom", "reinsert"} => evicted \in Request
  /\ workerPc \in {"claim", "infer", "finish", "publish", "insert", "makeroom", "reinsert"}
       => workerJob \in Request
  /\ workerPc \in {"finish", "publish", "insert", "makeroom", "reinsert"} => workerResult \in Result
  /\ closerPc # "open" => closed

\* Results bound for the result queue whatever close() does.
CallerPutting == IF callerPc = "insert" THEN 1 ELSE 0
WorkerPutting == IF workerPc = "insert" THEN 1 ELSE 0
Committed == Len(resultQueue) + CallerPutting + WorkerPutting

\* Commands that can still become results, as long as nobody closes.
CallerHolds ==
  CASE callerPc \in {"put", "evict", "restore", "report"}    -> 1
    [] callerPc = "reput"                                    -> 2
    [] callerPc \notin {"put", "evict", "restore", "report", "reput"} -> 0
WorkerHolds == IF workerPc \in {"claim", "infer", "finish", "publish"} THEN 1 ELSE 0
Prospective == Len(qwenQueue) + CallerHolds + WorkerHolds

\* At a poll at most the queue and the worker hold work; each submission adds one.
BacklogBounded ==
  /\ Committed <= QueueSize + 1 + burst
  /\ ~closed => Committed + Prospective <= QueueSize + 1 + burst

BacklogInv ==
  TypeOK /\ Held /\ (Calm => BacklogBounded) /\ NothingDropped /\ WorkerSurvives
-----------------------------------------------------------------------------
(* Liveness.  The frame loop calls poll_slow every frame and never leaves  *)
(* a submit half done; the clock runs; the worker thread is scheduled.     *)
(* Submitting and closing are the environment's choice.                    *)

SubmitContinues ==
  SubmitPut \/ SubmitEvict \/ SubmitRestore \/ SubmitReput
    \/ SubmitReport \/ SubmitInsert \/ SubmitMakeRoom \/ SubmitReinsert

CallerFairness == WF_vars(SubmitContinues \/ Poll)
ClockFairness  == \A r \in Request : WF_vars(DeadlinePasses(r)) /\ WF_vars(TimeoutElapses(r))

\* The threads around inference run; inference itself may hang for ever.
LiveSpec == Spec /\ CallerFairness /\ WF_vars(WorkerBookkeeping)

\* If the clock runs, a job whose inference hangs is nevertheless answered.
ActiveIsAnswered ==
  ClockFairness => \A r \in Request : activeJob = r ~> (answers[r] # <<>> \/ closed)

\* What the caller has been told about a command.
StatusOf(r) ==
  CASE answers[r] # <<>>                        -> answers[r][Len(answers[r])]
    [] answers[r] = <<>> /\ r \in accepted      -> "pending"
    [] answers[r] = <<>> /\ r \notin accepted   -> IF r \in refused THEN "refused" ELSE "new"

Promise == INSTANCE RequestLifecycle
             WITH status <- [r \in Request |-> StatusOf(r)], open <- ~closed

\* The slow path takes only the steps RequestLifecycle allows, whatever inference does.
Lifecycle == Promise!Safety

\* And it keeps the whole promise, answers included, if inference always returns: the model
\* answers or its client gives up, and no flood discards results.
LifecycleLive == WF_vars(Worker) /\ []Calm => Promise!Answers

\* While the loop is open every accepted command is answered: at the latest by the model
\* returning, and by the clock if it never does.
AnswersCome == LifecycleLive /\ ActiveIsAnswered
=============================================================================
