---------------------------- MODULE SlowPathProofs ----------------------------
(***************************************************************************)
(* What SlowPath guarantees for every set of commands and every queue      *)
(* size, with and without a flood, and that it implements                  *)
(* RequestLifecycle.                                                       *)
(***************************************************************************)
EXTENDS SlowPath, SequenceTheorems, TLAPS

\* What appending to a bounded queue, and taking its head, do to it.
LEMMA Enqueue ==
  ASSUME NEW S, NEW q \in Seq(S), NEW n \in Nat, NEW x \in S, ~(Len(q) >= n)
  PROVE  Append(q, x) \in Seq(S) /\ Len(Append(q, x)) = Len(q) + 1 /\ Len(Append(q, x)) <= n
<1>1. Len(q) \in Nat
  BY LenProperties
<1>2. Append(q, x) \in Seq(S) /\ Len(Append(q, x)) = Len(q) + 1
  OBVIOUS
<1> QED BY <1>1, <1>2

LEMMA Dequeue ==
  ASSUME NEW S, NEW q \in Seq(S), NEW n \in Nat, Len(q) <= n, q # <<>>
  PROVE  /\ Head(q) \in S
         /\ Tail(q) \in Seq(S) /\ Len(Tail(q)) = Len(q) - 1 /\ Len(Tail(q)) <= n
<1>1. Len(q) \in Nat /\ Len(q) > 0
  BY LenProperties, EmptySeq
<1>2. Head(q) \in S /\ Tail(q) \in Seq(S) /\ Len(Tail(q)) = Len(q) - 1
  BY HeadTailProperties
<1> QED BY <1>1, <1>2

\* The part of TypeOK that is about the queues.
QueuesTyped ==
  /\ qwenQueue \in Seq(Request \cup {Sentinel}) /\ Len(qwenQueue) <= QueueSize
  /\ resultQueue \in Seq(Result) /\ Len(resultQueue) <= ResultCapacity
  /\ fetched \in Seq(Result)

\* Every step leaves the job queue alone, puts something that fits, or takes the head.
JobQueueMoves ==
  \/ qwenQueue' = qwenQueue
  \/ ~JobQueueFull /\ \E x \in Request \cup {Sentinel} : qwenQueue' = Append(qwenQueue, x)
  \/ qwenQueue # <<>> /\ qwenQueue' = Tail(qwenQueue)

\* The same for the result queue, and poll_slow moves results from it.
ResultQueueMoves ==
  \/ resultQueue' = resultQueue
  \/ ~ResultQueueFull /\ \E x \in Result : resultQueue' = Append(resultQueue, x)
  \/ resultQueue # <<>> /\ resultQueue' = Tail(resultQueue)

FetchedMoves ==
  \/ fetched' = fetched
  \/ resultQueue # <<>> /\ fetched' = <<Head(resultQueue)>>
  \/ resultQueue # <<>> /\ fetched' = Append(fetched, Head(resultQueue))
  \/ fetched # <<>> /\ fetched' = Tail(fetched)

LEMMA MovesKeepQueuesTyped ==
  ASSUME TypeOK, JobQueueMoves, ResultQueueMoves, FetchedMoves
  PROVE  QueuesTyped'
<1>a. QueueSize \in Nat /\ ResultCapacity \in Nat
  BY QueueAssumption DEF ResultCapacity
<1>b. Request' = Request /\ QueueSize' = QueueSize /\ ResultCapacity' = ResultCapacity /\ Result' = Result
  OBVIOUS
<1>1. (qwenQueue \in Seq(Request \cup {Sentinel}) /\ Len(qwenQueue) <= QueueSize)'
  <2>1. CASE qwenQueue' = qwenQueue
    BY <2>1 DEF TypeOK
  <2>2. CASE ~JobQueueFull /\ \E x \in Request \cup {Sentinel} : qwenQueue' = Append(qwenQueue, x)
    BY <2>2, <1>a, Enqueue DEF TypeOK, JobQueueFull
  <2>3. CASE qwenQueue # <<>> /\ qwenQueue' = Tail(qwenQueue)
    BY <2>3, <1>a, Dequeue DEF TypeOK
  <2> QED BY <2>1, <2>2, <2>3 DEF JobQueueMoves
<1>2. (resultQueue \in Seq(Result) /\ Len(resultQueue) <= ResultCapacity)'
  <2>1. CASE resultQueue' = resultQueue
    BY <2>1 DEF TypeOK
  <2>2. CASE ~ResultQueueFull /\ \E x \in Result : resultQueue' = Append(resultQueue, x)
    BY <2>2, <1>a, Enqueue DEF TypeOK, ResultQueueFull
  <2>3. CASE resultQueue # <<>> /\ resultQueue' = Tail(resultQueue)
    BY <2>3, <1>a, Dequeue DEF TypeOK
  <2> QED BY <2>1, <2>2, <2>3 DEF ResultQueueMoves
<1>3. (fetched \in Seq(Result))'
  <2>1. resultQueue # <<>> => Head(resultQueue) \in Result
    BY <1>a, Dequeue DEF TypeOK
  <2>2. \A x \in Result : Append(fetched, x) \in Seq(Result) /\ <<x>> \in Seq(Result)
    BY DEF TypeOK
  <2>3. fetched # <<>> => Tail(fetched) \in Seq(Result)
    BY HeadTailProperties DEF TypeOK
  <2> QED BY <2>1, <2>2, <2>3 DEF FetchedMoves, TypeOK
<1> QED BY <1>1, <1>2, <1>3 DEF QueuesTyped

\* Recording an answer keeps the ledger well typed.
LEMMA AnswerTyped ==
  ASSUME TypeOK, NEW r, NEW a \in Answer
  PROVE  [answers EXCEPT ![r] = Append(@, a)] \in [Request -> Seq(Answer)]
  BY AppendProperties DEF TypeOK

\* What each step does to the queues.
LEMMA QueueMoves ==
  ASSUME TypeOK, Held, [Next]_vars
  PROVE  JobQueueMoves /\ ResultQueueMoves /\ FetchedMoves
<1> USE DEF JobQueueMoves, ResultQueueMoves, FetchedMoves, queueVars, callerVars
<1>1. ASSUME NEW r \in Request, SubmitRefused(r) PROVE JobQueueMoves /\ ResultQueueMoves /\ FetchedMoves
  BY <1>1 DEF SubmitRefused
<1>2. ASSUME NEW r \in Request, SubmitBegin(r) PROVE JobQueueMoves /\ ResultQueueMoves /\ FetchedMoves
  BY <1>2 DEF SubmitBegin
<1>3. ASSUME NEW r \in Request, DeadlinePasses(r) PROVE JobQueueMoves /\ ResultQueueMoves /\ FetchedMoves
  BY <1>3 DEF DeadlinePasses
<1>4. ASSUME NEW r \in Request, TimeoutElapses(r) PROVE JobQueueMoves /\ ResultQueueMoves /\ FetchedMoves
  BY <1>4 DEF TimeoutElapses
<1>5. CASE SubmitPut
  BY <1>5 DEF SubmitPut, Held
<1>6. CASE SubmitEvict
  BY <1>6 DEF SubmitEvict
<1>7. CASE SubmitRestore
  BY <1>7 DEF SubmitRestore
<1>8. CASE SubmitReput
  BY <1>8 DEF SubmitReput, Held
<1>9. CASE SubmitReport
  BY <1>9 DEF SubmitReport
<1>10. CASE SubmitInsert
  BY <1>10 DEF SubmitInsert, Held, OverflowResult, Result
<1>11. CASE SubmitMakeRoom
  BY <1>11 DEF SubmitMakeRoom
<1>12. CASE SubmitReinsert
  BY <1>12 DEF SubmitReinsert, Held, OverflowResult, Result
<1>13. CASE PollBegin
  BY <1>13 DEF PollBegin
<1>14. CASE PollInspect
  BY <1>14 DEF PollInspect
<1>15. CASE PollRevoke
  BY <1>15 DEF PollRevoke
<1>16. CASE PollDrain
  BY <1>16 DEF PollDrain
<1>17. CASE PollJudge
  BY <1>17 DEF PollJudge
<1>18. CASE PollReturn
  BY <1>18 DEF PollReturn
<1>19. CASE WorkerGet
  BY <1>19 DEF WorkerGet
<1>20. CASE WorkerClaim
  BY <1>20 DEF WorkerClaim
<1>21. CASE WorkerInfer
  BY <1>21 DEF WorkerInfer
<1>22. CASE WorkerFinish
  BY <1>22 DEF WorkerFinish
<1>23. CASE WorkerPublish
  BY <1>23 DEF WorkerPublish
<1>24. CASE WorkerInsert
  BY <1>24 DEF WorkerInsert, Held
<1>25. CASE WorkerMakeRoom
  BY <1>25 DEF WorkerMakeRoom
<1>26. CASE WorkerReinsert
  BY <1>26 DEF WorkerReinsert, Held
<1>27. CASE CloseBegin
  BY <1>27 DEF CloseBegin
<1>28. CASE CloseSentinel
  BY <1>28 DEF CloseSentinel
<1>29. CASE CloseMakeRoom
  BY <1>29 DEF CloseMakeRoom
<1>30. CASE CloseResend
  BY <1>30 DEF CloseResend
<1>31. CASE UNCHANGED vars
  BY <1>31 DEF vars
<1> QED
  BY <1>1, <1>2, <1>3, <1>4, <1>5, <1>6, <1>7, <1>8, <1>9, <1>10, <1>11, <1>12, <1>13, <1>14,
     <1>15, <1>16, <1>17, <1>18, <1>19, <1>20, <1>21, <1>22, <1>23, <1>24, <1>25, <1>26,
     <1>27, <1>28, <1>29, <1>30, <1>31
  DEF Next, Submit, Poll, Worker, WorkerBookkeeping, Close, Clock

\* A step keeps the types, and what a thread in the middle of an operation holds.
LEMMA TypeStep ==
  TypeOK /\ Held /\ [Next]_vars => (TypeOK /\ Held)'
<1> SUFFICES ASSUME TypeOK /\ Held, [Next]_vars PROVE (TypeOK /\ Held)'
  OBVIOUS
<1>a. QueuesTyped'
  BY QueueMoves, MovesKeepQueuesTyped
<1>b. \A r : \A a \in Answer :
        [answers EXCEPT ![r] = Append(@, a)] \in [Request -> Seq(Answer)]
  BY AnswerTyped
<1>h. /\ qwenQueue # <<>> => Head(qwenQueue) \in Request \cup {Sentinel}
      /\ fetched # <<>> => Head(fetched) \in Result
  BY HeadTailProperties DEF TypeOK
<1> USE QueueAssumption, ValueAssumption, OutcomeAssumption
    DEF TypeOK, Held, queueVars, lockVars, callerVars, workerVars, clockVars, ledgerVars
<1>1. ASSUME NEW r \in Request, SubmitRefused(r) PROVE (TypeOK /\ Held)'
  BY <1>1, <1>a DEF QueuesTyped, SubmitRefused, New
<1>2. ASSUME NEW r \in Request, SubmitBegin(r) PROVE (TypeOK /\ Held)'
  BY <1>2, <1>a DEF QueuesTyped, SubmitBegin, New
<1>3. ASSUME NEW r \in Request, DeadlinePasses(r) PROVE (TypeOK /\ Held)'
  BY <1>3, <1>a DEF QueuesTyped, DeadlinePasses
<1>4. ASSUME NEW r \in Request, TimeoutElapses(r) PROVE (TypeOK /\ Held)'
  BY <1>4, <1>a DEF QueuesTyped, TimeoutElapses
<1>5. CASE SubmitPut
  BY <1>5, <1>a DEF QueuesTyped, SubmitPut
<1>6. CASE SubmitEvict
  BY <1>6, <1>a, <1>h DEF QueuesTyped, SubmitEvict
<1>7. CASE SubmitRestore
  BY <1>7, <1>a DEF QueuesTyped, SubmitRestore
<1>8. CASE SubmitReput
  BY <1>8, <1>a DEF QueuesTyped, SubmitReput
<1>9. CASE SubmitReport
  BY <1>9, <1>a DEF QueuesTyped, SubmitReport
<1>10. CASE SubmitInsert
  BY <1>10, <1>a DEF QueuesTyped, SubmitInsert
<1>11. CASE SubmitMakeRoom
  BY <1>11, <1>a DEF QueuesTyped, SubmitMakeRoom
<1>12. CASE SubmitReinsert
  BY <1>12, <1>a DEF QueuesTyped, SubmitReinsert
<1>13. CASE PollBegin
  BY <1>13, <1>a DEF QueuesTyped, PollBegin
<1>14. CASE PollInspect
  BY <1>14, <1>a DEF QueuesTyped, PollInspect, IsOverdue
<1>15. CASE PollRevoke
  BY <1>15, <1>a, <1>b DEF QueuesTyped, PollRevoke, StillActive, MarkRevoked, Answer
<1>16. CASE PollDrain
  <2>1. /\ callerPc' \in {"drain", "judge"} /\ burst' \in Nat
        /\ UNCHANGED <<qwenQueue, lockVars, job, evicted, snapshot, workerVars, closerPc, clockVars,
                       accepted, latest, refused, answers>>
    BY <1>16 DEF PollDrain
  <2> QED BY <2>1, <1>a DEF QueuesTyped
<1>17. CASE PollJudge
  BY <1>17, <1>a, <1>h, <1>b DEF QueuesTyped, PollJudge, IsRevoked, RetireMarker, Verdicts,
     Answer, Result
<1>18. CASE PollReturn
  BY <1>18, <1>a DEF QueuesTyped, PollReturn
<1>19. CASE WorkerGet
  BY <1>19, <1>a, <1>h DEF QueuesTyped, WorkerGet
<1>20. CASE WorkerClaim
  BY <1>20, <1>a DEF QueuesTyped, WorkerClaim
<1>21. CASE WorkerInfer
  BY <1>21, <1>a DEF QueuesTyped, WorkerInfer, Result
<1>22. CASE WorkerFinish
  BY <1>22, <1>a DEF QueuesTyped, WorkerFinish, ReleaseActive, NoResult
<1>23. CASE WorkerPublish
  BY <1>23, <1>a DEF QueuesTyped, WorkerPublish, NoResult
<1>24. CASE WorkerInsert
  BY <1>24, <1>a DEF QueuesTyped, WorkerInsert, NoResult
<1>25. CASE WorkerMakeRoom
  BY <1>25, <1>a DEF QueuesTyped, WorkerMakeRoom
<1>26. CASE WorkerReinsert
  BY <1>26, <1>a DEF QueuesTyped, WorkerReinsert, NoResult
<1>27. CASE CloseBegin
  BY <1>27, <1>a DEF QueuesTyped, CloseBegin
<1>28. CASE CloseSentinel
  BY <1>28, <1>a DEF QueuesTyped, CloseSentinel
<1>29. CASE CloseMakeRoom
  BY <1>29, <1>a DEF QueuesTyped, CloseMakeRoom
<1>30. CASE CloseResend
  BY <1>30, <1>a DEF QueuesTyped, CloseResend
<1>31. CASE UNCHANGED vars
  BY <1>31 DEF vars
<1> QED
  BY <1>1, <1>2, <1>3, <1>4, <1>5, <1>6, <1>7, <1>8, <1>9, <1>10, <1>11, <1>12, <1>13, <1>14,
     <1>15, <1>16, <1>17, <1>18, <1>19, <1>20, <1>21, <1>22, <1>23, <1>24, <1>25, <1>26,
     <1>27, <1>28, <1>29, <1>30, <1>31
  DEF Next, Submit, Poll, Worker, WorkerBookkeeping, Close, Clock

\* Lengths of the queues, as numbers.
LEMMA QueueLengths ==
  ASSUME TypeOK
  PROVE  /\ Len(qwenQueue) \in Nat /\ Len(resultQueue) \in Nat
         /\ \A x : x \in Request \cup {Sentinel} => Len(Append(qwenQueue, x)) = Len(qwenQueue) + 1
         /\ \A x : x \in Result => Len(Append(resultQueue, x)) = Len(resultQueue) + 1
         /\ qwenQueue # <<>> => Len(Tail(qwenQueue)) = Len(qwenQueue) - 1
         /\ resultQueue # <<>> => Len(Tail(resultQueue)) = Len(resultQueue) - 1
         /\ resultQueue = <<>> => Len(resultQueue) = 0
  BY LenProperties, HeadTailProperties, AppendProperties, EmptySeq DEF TypeOK

\* The shares of the two threads are small numbers, given by where they are.
LEMMA Shares ==
  /\ CallerPutting \in {0, 1} /\ WorkerPutting \in {0, 1}
  /\ CallerHolds \in {0, 1, 2} /\ WorkerHolds \in {0, 1} /\ WorkerPutting + WorkerHolds <= 1
  BY DEF CallerPutting, WorkerPutting, CallerHolds, WorkerHolds

\* A flood is never forgotten.
LEMMA CalmBefore ==
  ASSUME TypeOK, [Next]_vars, Calm'
  PROVE  Calm
<1>1. burst' \in {burst, burst + 1} \/ Calm
  BY DEF Next, Submit, Poll, Worker, WorkerBookkeeping, Close, Clock, vars, ledgerVars,
     SubmitRefused, SubmitBegin, SubmitPut, SubmitEvict, SubmitRestore, SubmitReput,
     SubmitReport, SubmitInsert, SubmitMakeRoom, SubmitReinsert,
     PollBegin, PollInspect, PollRevoke, PollDrain, PollJudge, PollReturn,
     WorkerGet, WorkerClaim, WorkerInfer, WorkerFinish, WorkerPublish, WorkerInsert,
     WorkerMakeRoom, WorkerReinsert, CloseBegin, CloseSentinel, CloseMakeRoom, CloseResend,
     DeadlinePasses, TimeoutElapses
<1>2. burst \in Nat /\ QueueSize \in Nat
  BY QueueAssumption DEF TypeOK
<1> QED
  BY <1>1, <1>2 DEF Calm

\* A thread about to put a result finds room for it.
LEMMA RoomForResults ==
  ASSUME BacklogInv, Calm
  PROVE  callerPc = "insert" \/ workerPc = "insert" => ~ResultQueueFull
<1>1. /\ QueueSize \in Nat /\ burst \in Nat
      /\ Len(resultQueue) \in Nat /\ burst <= QueueSize + 1 /\ Committed <= QueueSize + 1 + burst
  BY QueueAssumption, QueueLengths DEF BacklogInv, BacklogBounded, TypeOK, Calm
<1>2. callerPc = "insert" \/ workerPc = "insert" => CallerPutting + WorkerPutting >= 1
  BY DEF CallerPutting, WorkerPutting
<1>3. CallerPutting \in {0, 1} /\ WorkerPutting \in {0, 1}
  BY Shares
<1> QED
  BY <1>1, <1>2, <1>3 DEF Committed, ResultQueueFull, ResultCapacity

\* With at most QueueSize + 1 submissions between polls the work that can still
\* become results fits the result queue.
LEMMA BacklogStep ==
  ASSUME BacklogInv, [Next]_vars, Calm'
  PROVE  BacklogBounded'
<1>c. Calm
  BY CalmBefore DEF BacklogInv
<1>t. /\ QueueSize \in Nat /\ burst \in Nat /\ closed \in BOOLEAN
      /\ burst <= QueueSize + 1
      /\ Committed <= QueueSize + 1 + burst
      /\ ~closed => Committed + Prospective <= QueueSize + 1 + burst
  BY <1>c, QueueAssumption DEF BacklogInv, BacklogBounded, TypeOK, Calm
<1>q. /\ Len(qwenQueue) \in Nat /\ Len(resultQueue) \in Nat
      /\ \A x : x \in Request \cup {Sentinel} => Len(Append(qwenQueue, x)) = Len(qwenQueue) + 1
      /\ \A x : x \in Result => Len(Append(resultQueue, x)) = Len(resultQueue) + 1
      /\ qwenQueue # <<>> => Len(Tail(qwenQueue)) = Len(qwenQueue) - 1
      /\ resultQueue # <<>> => Len(Tail(resultQueue)) = Len(resultQueue) - 1
      /\ resultQueue = <<>> => Len(resultQueue) = 0
  BY QueueLengths DEF BacklogInv
<1>l. /\ Len(qwenQueue) \in Nat /\ Len(resultQueue) \in Nat /\ Len(qwenQueue) <= QueueSize
  BY <1>q DEF BacklogInv, TypeOK
<1>s. /\ CallerPutting \in {0, 1} /\ WorkerPutting \in {0, 1}
      /\ CallerHolds \in {0, 1, 2} /\ WorkerHolds \in {0, 1} /\ WorkerPutting + WorkerHolds <= 1
  BY Shares
<1>n. /\ callerPc \notin {"makeroom", "reinsert"} /\ workerPc \notin {"makeroom", "reinsert"}
      /\ callerPc = "insert" \/ workerPc = "insert" => ~ResultQueueFull
  BY <1>c, RoomForResults DEF BacklogInv, NothingDropped
<1>j. /\ callerPc \in {"put", "evict", "restore", "reput"} => job \in Request
      /\ callerPc = "insert" => OverflowResult \in Result
      /\ workerPc = "insert" => workerResult \in Result
      /\ closerPc # "open" => closed
  BY DEF BacklogInv, Held, OverflowResult, Result
<1>1. ASSUME NEW r \in Request, SubmitBegin(r) PROVE BacklogBounded'
  <2>1. WorkerPutting' = WorkerPutting /\ WorkerHolds' = WorkerHolds
    BY <1>1 DEF SubmitBegin, workerVars, WorkerPutting, WorkerHolds
  <2>2. /\ CallerPutting = 0 /\ CallerHolds = 0 /\ CallerPutting' = 0 /\ CallerHolds' = 1
        /\ qwenQueue' = qwenQueue /\ resultQueue' = resultQueue
        /\ burst' = burst + 1 /\ ~closed /\ ~closed'
    BY <1>1, <1>q, <1>n, <1>j DEF SubmitBegin, CallerPutting, CallerHolds, queueVars,
       lockVars, ledgerVars
  <2> QED BY <1>t, <1>l, <1>s, <2>1, <2>2 DEF BacklogBounded, Committed, Prospective
<1>2. CASE SubmitPut
  <2>1. WorkerPutting' = WorkerPutting /\ WorkerHolds' = WorkerHolds
    BY <1>2 DEF SubmitPut, workerVars, WorkerPutting, WorkerHolds
  <2>2. \/ /\ CallerPutting = 0 /\ CallerHolds = 1 /\ CallerPutting' = 0 /\ CallerHolds' = 0
           /\ Len(qwenQueue') = Len(qwenQueue) + 1 /\ resultQueue' = resultQueue
           /\ burst' = burst /\ closed' = closed
        \/ /\ CallerPutting = 0 /\ CallerHolds = 1 /\ CallerPutting' = 0 /\ CallerHolds' = 1
           /\ qwenQueue' = qwenQueue /\ resultQueue' = resultQueue
           /\ burst' = burst /\ closed' = closed
    BY <1>2, <1>q, <1>n, <1>j DEF SubmitPut, CallerPutting, CallerHolds, queueVars, lockVars,
       ledgerVars
  <2> QED BY <1>t, <1>l, <1>s, <2>1, <2>2 DEF BacklogBounded, Committed, Prospective
<1>3. CASE SubmitEvict
  <2>1. WorkerPutting' = WorkerPutting /\ WorkerHolds' = WorkerHolds
    BY <1>3 DEF SubmitEvict, workerVars, WorkerPutting, WorkerHolds
  <2>2. \/ /\ CallerPutting = 0 /\ CallerHolds = 1 /\ CallerPutting' = 0 /\ CallerHolds' = 1
           /\ qwenQueue' = qwenQueue /\ resultQueue' = resultQueue
           /\ burst' = burst /\ closed' = closed
        \/ /\ CallerPutting = 0 /\ CallerHolds = 1 /\ CallerPutting' = 0 /\ CallerHolds' = 1
           /\ Len(qwenQueue') = Len(qwenQueue) - 1 /\ resultQueue' = resultQueue
           /\ burst' = burst /\ closed' = closed
        \/ /\ CallerPutting = 0 /\ CallerHolds = 1 /\ CallerPutting' = 0 /\ CallerHolds' = 2
           /\ Len(qwenQueue') = Len(qwenQueue) - 1 /\ resultQueue' = resultQueue
           /\ burst' = burst /\ closed' = closed
    BY <1>3, <1>q, <1>n, <1>j DEF SubmitEvict, CallerPutting, CallerHolds, queueVars,
       lockVars, ledgerVars
  <2>3. /\ Committed' = Committed
        /\ ~closed' => Prospective' <= Prospective
        /\ Committed \in Int /\ Prospective \in Int /\ Prospective' \in Int
    BY <1>l, <1>s, <1>q, <2>1, <2>2 DEF Committed, Prospective
  <2> QED BY <1>t, <2>2, <2>3 DEF BacklogBounded
<1>4. CASE SubmitRestore
  <2>1. WorkerPutting' = WorkerPutting /\ WorkerHolds' = WorkerHolds
    BY <1>4 DEF SubmitRestore, workerVars, WorkerPutting, WorkerHolds
  <2>2. \/ /\ CallerPutting = 0 /\ CallerHolds = 1 /\ CallerPutting' = 0 /\ CallerHolds' = 0
           /\ qwenQueue' = qwenQueue /\ resultQueue' = resultQueue
           /\ burst' = burst /\ closed' = closed
        \/ /\ CallerPutting = 0 /\ CallerHolds = 1 /\ CallerPutting' = 0 /\ CallerHolds' = 0
           /\ Len(qwenQueue') = Len(qwenQueue) + 1 /\ resultQueue' = resultQueue
           /\ burst' = burst /\ closed' = closed
    BY <1>4, <1>q, <1>n, <1>j DEF SubmitRestore, CallerPutting, CallerHolds, queueVars,
       lockVars, ledgerVars
  <2> QED BY <1>t, <1>l, <1>s, <2>1, <2>2 DEF BacklogBounded, Committed, Prospective
<1>5. CASE SubmitReput
  <2>1. WorkerPutting' = WorkerPutting /\ WorkerHolds' = WorkerHolds
    BY <1>5 DEF SubmitReput, workerVars, WorkerPutting, WorkerHolds
  <2>2. \/ /\ CallerPutting = 0 /\ CallerHolds = 2 /\ CallerPutting' = 0 /\ CallerHolds' = 1
           /\ Len(qwenQueue') = Len(qwenQueue) + 1 /\ resultQueue' = resultQueue
           /\ burst' = burst /\ closed' = closed
        \/ /\ CallerPutting = 0 /\ CallerHolds = 2 /\ CallerPutting' = 0 /\ CallerHolds' = 0
           /\ qwenQueue' = qwenQueue /\ resultQueue' = resultQueue
           /\ burst' = burst /\ closed' = closed
    BY <1>5, <1>q, <1>n, <1>j DEF SubmitReput, CallerPutting, CallerHolds, queueVars,
       lockVars, ledgerVars
  <2> QED BY <1>t, <1>l, <1>s, <2>1, <2>2 DEF BacklogBounded, Committed, Prospective
<1>6. CASE SubmitReport
  <2>1. WorkerPutting' = WorkerPutting /\ WorkerHolds' = WorkerHolds
    BY <1>6 DEF SubmitReport, workerVars, WorkerPutting, WorkerHolds
  <2>2. \/ /\ CallerPutting = 0 /\ CallerHolds = 1 /\ CallerPutting' = 0 /\ CallerHolds' = 0
           /\ qwenQueue' = qwenQueue /\ resultQueue' = resultQueue
           /\ burst' = burst /\ closed' = closed
        \/ /\ CallerPutting = 0 /\ CallerHolds = 1 /\ CallerPutting' = 1 /\ CallerHolds' = 0
           /\ qwenQueue' = qwenQueue /\ resultQueue' = resultQueue
           /\ burst' = burst /\ closed' = closed /\ ~closed
    BY <1>6, <1>q, <1>n, <1>j DEF SubmitReport, CallerPutting, CallerHolds, queueVars,
       lockVars, ledgerVars
  <2> QED BY <1>t, <1>l, <1>s, <2>1, <2>2 DEF BacklogBounded, Committed, Prospective
<1>7. CASE SubmitInsert
  <2>1. WorkerPutting' = WorkerPutting /\ WorkerHolds' = WorkerHolds
    BY <1>7 DEF SubmitInsert, workerVars, WorkerPutting, WorkerHolds
  <2>2. /\ CallerPutting = 1 /\ CallerHolds = 0 /\ CallerPutting' = 0 /\ CallerHolds' = 0
        /\ qwenQueue' = qwenQueue /\ Len(resultQueue') = Len(resultQueue) + 1
        /\ burst' = burst /\ closed' = closed
    BY <1>7, <1>q, <1>n, <1>j DEF SubmitInsert, CallerPutting, CallerHolds, queueVars,
       lockVars, ledgerVars
  <2> QED BY <1>t, <1>l, <1>s, <2>1, <2>2 DEF BacklogBounded, Committed, Prospective
<1>8. CASE PollBegin
  <2>1. WorkerPutting' = WorkerPutting /\ WorkerHolds' = WorkerHolds
    BY <1>8 DEF PollBegin, workerVars, WorkerPutting, WorkerHolds
  <2>2. \/ /\ CallerPutting = 0 /\ CallerHolds = 0 /\ CallerPutting' = 0 /\ CallerHolds' = 0
           /\ qwenQueue' = qwenQueue /\ resultQueue' = resultQueue
           /\ burst' = burst /\ closed' = closed
        \/ /\ CallerPutting = 0 /\ CallerHolds = 0 /\ CallerPutting' = 0 /\ CallerHolds' = 0
           /\ qwenQueue' = qwenQueue /\ Len(resultQueue') = Len(resultQueue) - 1
           /\ burst' = burst /\ closed' = closed
    BY <1>8, <1>q, <1>n, <1>j DEF PollBegin, CallerPutting, CallerHolds, queueVars, lockVars,
       ledgerVars
  <2> QED BY <1>t, <1>l, <1>s, <2>1, <2>2 DEF BacklogBounded, Committed, Prospective
<1>9. CASE PollInspect
  <2>1. WorkerPutting' = WorkerPutting /\ WorkerHolds' = WorkerHolds
    BY <1>9 DEF PollInspect, workerVars, WorkerPutting, WorkerHolds
  <2>2. /\ CallerPutting = 0 /\ CallerHolds = 0 /\ CallerPutting' = 0 /\ CallerHolds' = 0
        /\ qwenQueue' = qwenQueue /\ resultQueue' = resultQueue
        /\ burst' = burst /\ closed' = closed
    BY <1>9, <1>q, <1>n, <1>j DEF PollInspect, CallerPutting, CallerHolds, queueVars,
       lockVars, ledgerVars
  <2> QED BY <1>t, <1>l, <1>s, <2>1, <2>2 DEF BacklogBounded, Committed, Prospective
<1>10. CASE PollRevoke
  <2>1. WorkerPutting' = WorkerPutting /\ WorkerHolds' = WorkerHolds
    BY <1>10 DEF PollRevoke, workerVars, WorkerPutting, WorkerHolds
  <2>2. /\ CallerPutting = 0 /\ CallerHolds = 0 /\ CallerPutting' = 0 /\ CallerHolds' = 0
        /\ qwenQueue' = qwenQueue /\ resultQueue' = resultQueue
        /\ burst' = burst /\ closed' = closed
    BY <1>10, <1>q, <1>n, <1>j DEF PollRevoke, CallerPutting, CallerHolds, queueVars,
       lockVars, ledgerVars
  <2> QED BY <1>t, <1>l, <1>s, <2>1, <2>2 DEF BacklogBounded, Committed, Prospective
<1>11. CASE PollDrain
  <2>1. WorkerPutting' = WorkerPutting /\ WorkerHolds' = WorkerHolds
    BY <1>11 DEF PollDrain, workerVars, WorkerPutting, WorkerHolds
  <2>2. \/ /\ CallerPutting = 0 /\ CallerHolds = 0 /\ CallerPutting' = 0 /\ CallerHolds' = 0
           /\ qwenQueue' = qwenQueue /\ Len(resultQueue') = Len(resultQueue) - 1
           /\ burst' = burst /\ closed' = closed
        \/ /\ CallerPutting = 0 /\ CallerHolds = 0 /\ CallerPutting' = 0 /\ CallerHolds' = 0
           /\ qwenQueue' = qwenQueue /\ resultQueue' = resultQueue /\ Len(resultQueue) = 0
           /\ burst' = 0 /\ closed' = closed
    BY <1>11, <1>c, <1>q, <1>n, <1>j DEF PollDrain, CallerPutting, CallerHolds, queueVars, lockVars,
       ledgerVars
  <2> QED BY <1>t, <1>l, <1>s, <2>1, <2>2 DEF BacklogBounded, Committed, Prospective
<1>12. CASE PollReturn
  <2>1. WorkerPutting' = WorkerPutting /\ WorkerHolds' = WorkerHolds
    BY <1>12 DEF PollReturn, workerVars, WorkerPutting, WorkerHolds
  <2>2. /\ CallerPutting = 0 /\ CallerHolds = 0 /\ CallerPutting' = 0 /\ CallerHolds' = 0
        /\ qwenQueue' = qwenQueue /\ resultQueue' = resultQueue
        /\ burst' = burst /\ closed' = closed
    BY <1>12, <1>q, <1>n, <1>j DEF PollReturn, CallerPutting, CallerHolds, queueVars,
       lockVars, ledgerVars
  <2> QED BY <1>t, <1>l, <1>s, <2>1, <2>2 DEF BacklogBounded, Committed, Prospective
<1>13. CASE WorkerGet
  <2>1. CallerPutting' = CallerPutting /\ CallerHolds' = CallerHolds
    BY <1>13 DEF WorkerGet, callerVars, CallerPutting, CallerHolds
  <2>2. \/ /\ WorkerPutting = 0 /\ WorkerHolds = 0 /\ WorkerPutting' = 0 /\ WorkerHolds' = 0
           /\ Len(qwenQueue') = Len(qwenQueue) - 1 /\ resultQueue' = resultQueue
           /\ burst' = burst /\ closed' = closed
        \/ /\ WorkerPutting = 0 /\ WorkerHolds = 0 /\ WorkerPutting' = 0 /\ WorkerHolds' = 1
           /\ Len(qwenQueue') = Len(qwenQueue) - 1 /\ resultQueue' = resultQueue
           /\ burst' = burst /\ closed' = closed
    BY <1>13, <1>q, <1>n, <1>j DEF WorkerGet, WorkerPutting, WorkerHolds, queueVars, lockVars,
       ledgerVars
  <2> QED BY <1>t, <1>l, <1>s, <2>1, <2>2 DEF BacklogBounded, Committed, Prospective
<1>14. CASE WorkerClaim
  <2>1. CallerPutting' = CallerPutting /\ CallerHolds' = CallerHolds
    BY <1>14 DEF WorkerClaim, callerVars, CallerPutting, CallerHolds
  <2>2. \/ /\ WorkerPutting = 0 /\ WorkerHolds = 1 /\ WorkerPutting' = 0 /\ WorkerHolds' = 0
           /\ qwenQueue' = qwenQueue /\ resultQueue' = resultQueue
           /\ burst' = burst /\ closed' = closed
        \/ /\ WorkerPutting = 0 /\ WorkerHolds = 1 /\ WorkerPutting' = 0 /\ WorkerHolds' = 1
           /\ qwenQueue' = qwenQueue /\ resultQueue' = resultQueue
           /\ burst' = burst /\ closed' = closed
    BY <1>14, <1>q, <1>n, <1>j DEF WorkerClaim, WorkerPutting, WorkerHolds, queueVars,
       lockVars, ledgerVars
  <2> QED BY <1>t, <1>l, <1>s, <2>1, <2>2 DEF BacklogBounded, Committed, Prospective
<1>15. CASE WorkerInfer
  <2>1. CallerPutting' = CallerPutting /\ CallerHolds' = CallerHolds
    BY <1>15 DEF WorkerInfer, callerVars, CallerPutting, CallerHolds
  <2>2. /\ WorkerPutting = 0 /\ WorkerHolds = 1 /\ WorkerPutting' = 0 /\ WorkerHolds' = 1
        /\ qwenQueue' = qwenQueue /\ resultQueue' = resultQueue
        /\ burst' = burst /\ closed' = closed
    BY <1>15, <1>q, <1>n, <1>j DEF WorkerInfer, WorkerPutting, WorkerHolds, queueVars,
       lockVars, ledgerVars
  <2> QED BY <1>t, <1>l, <1>s, <2>1, <2>2 DEF BacklogBounded, Committed, Prospective
<1>16. CASE WorkerFinish
  <2>1. CallerPutting' = CallerPutting /\ CallerHolds' = CallerHolds
    BY <1>16 DEF WorkerFinish, callerVars, CallerPutting, CallerHolds
  <2>2. \/ /\ WorkerPutting = 0 /\ WorkerHolds = 1 /\ WorkerPutting' = 0 /\ WorkerHolds' = 0
           /\ qwenQueue' = qwenQueue /\ resultQueue' = resultQueue
           /\ burst' = burst /\ closed' = closed
        \/ /\ WorkerPutting = 0 /\ WorkerHolds = 1 /\ WorkerPutting' = 0 /\ WorkerHolds' = 1
           /\ qwenQueue' = qwenQueue /\ resultQueue' = resultQueue
           /\ burst' = burst /\ closed' = closed
    BY <1>16, <1>q, <1>n, <1>j DEF WorkerFinish, WorkerPutting, WorkerHolds, queueVars,
       lockVars, ledgerVars
  <2> QED BY <1>t, <1>l, <1>s, <2>1, <2>2 DEF BacklogBounded, Committed, Prospective
<1>17. CASE WorkerPublish
  <2>1. CallerPutting' = CallerPutting /\ CallerHolds' = CallerHolds
    BY <1>17 DEF WorkerPublish, callerVars, CallerPutting, CallerHolds
  <2>2. \/ /\ WorkerPutting = 0 /\ WorkerHolds = 1 /\ WorkerPutting' = 0 /\ WorkerHolds' = 0
           /\ qwenQueue' = qwenQueue /\ resultQueue' = resultQueue
           /\ burst' = burst /\ closed' = closed /\ closed
        \/ /\ WorkerPutting = 0 /\ WorkerHolds = 1 /\ WorkerPutting' = 1 /\ WorkerHolds' = 0
           /\ qwenQueue' = qwenQueue /\ resultQueue' = resultQueue
           /\ burst' = burst /\ closed' = closed /\ ~closed
    BY <1>17, <1>q, <1>n, <1>j DEF WorkerPublish, WorkerPutting, WorkerHolds, queueVars,
       lockVars, ledgerVars
  <2> QED BY <1>t, <1>l, <1>s, <2>1, <2>2 DEF BacklogBounded, Committed, Prospective
<1>18. CASE WorkerInsert
  <2>1. CallerPutting' = CallerPutting /\ CallerHolds' = CallerHolds
    BY <1>18 DEF WorkerInsert, callerVars, CallerPutting, CallerHolds
  <2>2. /\ WorkerPutting = 1 /\ WorkerHolds = 0 /\ WorkerPutting' = 0 /\ WorkerHolds' = 0
        /\ qwenQueue' = qwenQueue /\ Len(resultQueue') = Len(resultQueue) + 1
        /\ burst' = burst /\ closed' = closed
    BY <1>18, <1>q, <1>n, <1>j DEF WorkerInsert, WorkerPutting, WorkerHolds, queueVars,
       lockVars, ledgerVars
  <2> QED BY <1>t, <1>l, <1>s, <2>1, <2>2 DEF BacklogBounded, Committed, Prospective
<1>19. CASE CloseBegin
  <2>1. WorkerPutting' = WorkerPutting /\ WorkerHolds' = WorkerHolds /\ CallerPutting' = CallerPutting /\ CallerHolds' = CallerHolds
    BY <1>19 DEF CloseBegin, workerVars, callerVars, WorkerPutting, WorkerHolds,
       CallerPutting, CallerHolds
  <2>2. /\ qwenQueue' = qwenQueue /\ resultQueue' = resultQueue
        /\ burst' = burst /\ closed'
    BY <1>19, <1>q, <1>n, <1>j DEF CloseBegin, queueVars, lockVars, ledgerVars
  <2> QED BY <1>t, <1>l, <1>s, <2>1, <2>2 DEF BacklogBounded, Committed, Prospective
<1>20. CASE CloseSentinel
  <2>1. WorkerPutting' = WorkerPutting /\ WorkerHolds' = WorkerHolds /\ CallerPutting' = CallerPutting /\ CallerHolds' = CallerHolds
    BY <1>20 DEF CloseSentinel, workerVars, callerVars, WorkerPutting, WorkerHolds,
       CallerPutting, CallerHolds
  <2>2. \/ /\ qwenQueue' = qwenQueue /\ resultQueue' = resultQueue
           /\ burst' = burst /\ closed' = closed /\ closed
        \/ /\ Len(qwenQueue') = Len(qwenQueue) + 1 /\ resultQueue' = resultQueue
           /\ burst' = burst /\ closed' = closed /\ closed
    BY <1>20, <1>q, <1>n, <1>j DEF CloseSentinel, queueVars, lockVars, ledgerVars
  <2> QED BY <1>t, <1>l, <1>s, <2>1, <2>2 DEF BacklogBounded, Committed, Prospective
<1>21. CASE CloseMakeRoom
  <2>1. WorkerPutting' = WorkerPutting /\ WorkerHolds' = WorkerHolds /\ CallerPutting' = CallerPutting /\ CallerHolds' = CallerHolds
    BY <1>21 DEF CloseMakeRoom, workerVars, callerVars, WorkerPutting, WorkerHolds,
       CallerPutting, CallerHolds
  <2>2. \/ /\ qwenQueue' = qwenQueue /\ resultQueue' = resultQueue
           /\ burst' = burst /\ closed' = closed /\ closed
        \/ /\ Len(qwenQueue') = Len(qwenQueue) - 1 /\ resultQueue' = resultQueue
           /\ burst' = burst /\ closed' = closed /\ closed
    BY <1>21, <1>q, <1>n, <1>j DEF CloseMakeRoom, queueVars, lockVars, ledgerVars
  <2> QED BY <1>t, <1>l, <1>s, <2>1, <2>2 DEF BacklogBounded, Committed, Prospective
<1>22. CASE CloseResend
  <2>1. WorkerPutting' = WorkerPutting /\ WorkerHolds' = WorkerHolds /\ CallerPutting' = CallerPutting /\ CallerHolds' = CallerHolds
    BY <1>22 DEF CloseResend, workerVars, callerVars, WorkerPutting, WorkerHolds,
       CallerPutting, CallerHolds
  <2>2. \/ /\ qwenQueue' = qwenQueue /\ resultQueue' = resultQueue
           /\ burst' = burst /\ closed' = closed /\ closed
        \/ /\ Len(qwenQueue') = Len(qwenQueue) + 1 /\ resultQueue' = resultQueue
           /\ burst' = burst /\ closed' = closed /\ closed
    BY <1>22, <1>q, <1>n, <1>j DEF CloseResend, queueVars, lockVars, ledgerVars
  <2> QED BY <1>t, <1>l, <1>s, <2>1, <2>2 DEF BacklogBounded, Committed, Prospective
<1>23. CASE PollJudge
  <2>1. WorkerPutting' = WorkerPutting /\ WorkerHolds' = WorkerHolds /\ CallerPutting' = CallerPutting /\ CallerHolds' = CallerHolds
    BY <1>23 DEF PollJudge, workerVars, callerVars, WorkerPutting, WorkerHolds, CallerPutting,
       CallerHolds
  <2>2. /\ qwenQueue' = qwenQueue /\ resultQueue' = resultQueue
        /\ burst' = burst /\ closed' = closed
    BY <1>23, <1>q, <1>n, <1>j DEF PollJudge, queueVars, lockVars, ledgerVars
  <2> QED BY <1>t, <1>l, <1>s, <2>1, <2>2 DEF BacklogBounded, Committed, Prospective
<1>24. CASE SubmitMakeRoom
  BY <1>24, <1>n DEF SubmitMakeRoom
<1>25. CASE SubmitReinsert
  BY <1>25, <1>n DEF SubmitReinsert
<1>26. CASE WorkerMakeRoom
  BY <1>26, <1>n DEF WorkerMakeRoom
<1>27. CASE WorkerReinsert
  BY <1>27, <1>n DEF WorkerReinsert
<1>28. ASSUME NEW r \in Request, SubmitRefused(r) PROVE BacklogBounded'
  BY <1>28, <1>t DEF SubmitRefused, BacklogBounded, Committed, Prospective, CallerPutting,
     WorkerPutting, CallerHolds, WorkerHolds, queueVars, lockVars, callerVars, workerVars,
     ledgerVars
<1>29. ASSUME NEW r \in Request, DeadlinePasses(r) PROVE BacklogBounded'
  BY <1>29, <1>t DEF DeadlinePasses, BacklogBounded, Committed, Prospective, CallerPutting,
     WorkerPutting, CallerHolds, WorkerHolds, queueVars, lockVars, callerVars, workerVars,
     ledgerVars
<1>30. ASSUME NEW r \in Request, TimeoutElapses(r) PROVE BacklogBounded'
  BY <1>30, <1>t DEF TimeoutElapses, BacklogBounded, Committed, Prospective, CallerPutting,
     WorkerPutting, CallerHolds, WorkerHolds, queueVars, lockVars, callerVars, workerVars,
     ledgerVars
<1>31. CASE UNCHANGED vars
  BY <1>31, <1>t DEF vars, BacklogBounded, Committed, Prospective, CallerPutting,
     WorkerPutting, CallerHolds, WorkerHolds, queueVars, lockVars, callerVars, workerVars,
     ledgerVars
<1> QED
  BY <1>1, <1>2, <1>3, <1>4, <1>5, <1>6, <1>7, <1>8, <1>9, <1>10, <1>11, <1>12, <1>13, <1>14,
     <1>15, <1>16, <1>17, <1>18, <1>19, <1>20, <1>21, <1>22, <1>23, <1>24, <1>25, <1>26,
     <1>27, <1>28, <1>29, <1>30, <1>31
  DEF Next, Submit, Poll, Worker, WorkerBookkeeping, Close, Clock

\* So no step reaches the branch of _put_latest that discards a result, and the
\* worker dies only of close().
LEMMA HealthStep ==
  ASSUME BacklogInv, [Next]_vars, Calm'
  PROVE  (NothingDropped /\ WorkerSurvives)'
<1>c. Calm
  BY CalmBefore DEF BacklogInv
<1>1. callerPc = "insert" \/ workerPc = "insert" => ~ResultQueueFull
  BY <1>c, RoomForResults
<1>2. Calm /\ NothingDropped /\ WorkerSurvives
  BY <1>c DEF BacklogInv
<1> USE DEF NothingDropped, WorkerSurvives, lockVars, callerVars, workerVars
<1>3. ASSUME NEW r \in Request, SubmitRefused(r) PROVE (NothingDropped /\ WorkerSurvives)'
  BY <1>3, <1>2 DEF SubmitRefused
<1>4. ASSUME NEW r \in Request, SubmitBegin(r) PROVE (NothingDropped /\ WorkerSurvives)'
  BY <1>4, <1>2 DEF SubmitBegin
<1>5. ASSUME NEW r \in Request, DeadlinePasses(r) PROVE (NothingDropped /\ WorkerSurvives)'
  BY <1>5, <1>2 DEF DeadlinePasses
<1>6. ASSUME NEW r \in Request, TimeoutElapses(r) PROVE (NothingDropped /\ WorkerSurvives)'
  BY <1>6, <1>2 DEF TimeoutElapses
<1>7. CASE SubmitPut
  BY <1>7, <1>1, <1>2 DEF SubmitPut
<1>8. CASE SubmitEvict
  BY <1>8, <1>1, <1>2 DEF SubmitEvict
<1>9. CASE SubmitRestore
  BY <1>9, <1>1, <1>2 DEF SubmitRestore
<1>10. CASE SubmitReput
  BY <1>10, <1>1, <1>2 DEF SubmitReput
<1>11. CASE SubmitReport
  BY <1>11, <1>1, <1>2 DEF SubmitReport
<1>12. CASE SubmitInsert
  BY <1>12, <1>1, <1>2 DEF SubmitInsert
<1>13. CASE PollBegin
  BY <1>13, <1>1, <1>2 DEF PollBegin
<1>14. CASE PollInspect
  BY <1>14, <1>1, <1>2 DEF PollInspect
<1>15. CASE PollRevoke
  BY <1>15, <1>1, <1>2 DEF PollRevoke
<1>16. CASE PollDrain
  BY <1>16, <1>1, <1>2 DEF PollDrain
<1>17. CASE PollReturn
  BY <1>17, <1>1, <1>2 DEF PollReturn
<1>18. CASE WorkerGet
  BY <1>18, <1>1, <1>2 DEF WorkerGet
<1>19. CASE WorkerClaim
  BY <1>19, <1>1, <1>2 DEF WorkerClaim
<1>20. CASE WorkerInfer
  BY <1>20, <1>1, <1>2 DEF WorkerInfer
<1>21. CASE WorkerFinish
  BY <1>21, <1>1, <1>2 DEF WorkerFinish
<1>22. CASE WorkerPublish
  BY <1>22, <1>1, <1>2 DEF WorkerPublish
<1>23. CASE WorkerInsert
  BY <1>23, <1>1, <1>2 DEF WorkerInsert
<1>24. CASE CloseBegin
  BY <1>24, <1>1, <1>2 DEF CloseBegin
<1>25. CASE CloseSentinel
  BY <1>25, <1>1, <1>2 DEF CloseSentinel
<1>26. CASE CloseMakeRoom
  BY <1>26, <1>1, <1>2 DEF CloseMakeRoom
<1>27. CASE CloseResend
  BY <1>27, <1>1, <1>2 DEF CloseResend
<1>28. CASE PollJudge
  BY <1>28, <1>1, <1>2 DEF PollJudge
<1>29. CASE SubmitMakeRoom
  BY <1>29, <1>1, <1>2 DEF SubmitMakeRoom
<1>30. CASE SubmitReinsert
  BY <1>30, <1>1, <1>2 DEF SubmitReinsert
<1>31. CASE WorkerMakeRoom
  BY <1>31, <1>1, <1>2 DEF WorkerMakeRoom
<1>32. CASE WorkerReinsert
  BY <1>32, <1>1, <1>2 DEF WorkerReinsert
<1>33. CASE UNCHANGED vars
  BY <1>33, <1>2 DEF vars
<1> QED
  BY <1>3, <1>4, <1>5, <1>6, <1>7, <1>8, <1>9, <1>10, <1>11, <1>12, <1>13, <1>14, <1>15,
     <1>16, <1>17, <1>18, <1>19, <1>20, <1>21, <1>22, <1>23, <1>24, <1>25, <1>26, <1>27,
     <1>28, <1>29, <1>30, <1>31, <1>32, <1>33
  DEF Next, Submit, Poll, Worker, WorkerBookkeeping, Close, Clock
-----------------------------------------------------------------------------
LEMMA InitTyped ==
  Init => TypeOK /\ Held /\ Len(qwenQueue) = 0 /\ Len(resultQueue) = 0
<1> SUFFICES ASSUME Init
             PROVE TypeOK /\ Held /\ Len(qwenQueue) = 0 /\ Len(resultQueue) = 0
  OBVIOUS
<1>1. /\ \A S : <<>> \in Seq(S)
      /\ Len(<<>>) = 0
  OBVIOUS
<1>2. QueueSize >= 0 /\ ResultCapacity >= 0
  BY QueueAssumption DEF ResultCapacity
<1>3. answers \in [Request -> Seq(Answer)]
  BY <1>1 DEF Init
<1> QED
  BY <1>1, <1>2, <1>3 DEF Init, TypeOK, Held

\* Every variable keeps its type and neither queue ever exceeds its capacity,
\* whatever the caller submits and however the threads interleave.
THEOREM TypeCorrect == Spec => []TypeOK
<1>1. Init => TypeOK /\ Held
  BY InitTyped
<1>2. TypeOK /\ Held /\ [Next]_vars => (TypeOK /\ Held)'
  BY TypeStep
<1> QED
  BY <1>1, <1>2, PTL DEF Spec

\* The inductive invariant.
THEOREM BacklogCorrect == Spec => []BacklogInv
<1>1. Init => BacklogInv
  BY QueueAssumption, InitTyped
  DEF Init, BacklogInv, BacklogBounded, NothingDropped, WorkerSurvives,
      ResultCapacity, Committed, Prospective,
      CallerPutting, WorkerPutting, CallerHolds, WorkerHolds
<1>2. BacklogInv /\ [Next]_vars => (TypeOK /\ Held)'
  BY TypeStep DEF BacklogInv
<1>3. BacklogInv /\ [Next]_vars => (Calm => BacklogBounded)'
  BY BacklogStep
<1>4. BacklogInv /\ [Next]_vars => (NothingDropped /\ WorkerSurvives)'
  <2>1. ASSUME BacklogInv, [Next]_vars, ~Calm' PROVE (NothingDropped /\ WorkerSurvives)'
    BY <2>1 DEF NothingDropped, WorkerSurvives
  <2> QED
    BY <2>1, HealthStep
<1>5. BacklogInv /\ [Next]_vars => BacklogInv'
  BY <1>2, <1>3, <1>4 DEF BacklogInv
<1> QED
  BY <1>1, <1>5, PTL DEF Spec

\* No result is discarded and no command's answer lost to a full result queue, for every
\* queue size, as long as no burst between polls exceeds QueueSize + 1 commands.
THEOREM NothingDroppedCorrect == Spec => []NothingDropped
<1>1. BacklogInv => NothingDropped
  BY DEF BacklogInv
<1> QED
  BY <1>1, BacklogCorrect, PTL

\* Nor does a race on the result queue kill the worker thread.
THEOREM WorkerSurvivesCorrect == Spec => []WorkerSurvives
<1>1. BacklogInv => WorkerSurvives
  BY DEF BacklogInv
<1> QED
  BY <1>1, BacklogCorrect, PTL
-----------------------------------------------------------------------------
(* Answering: every command is in one place of the pipeline at a time.      *)

\* The jobs of a queue; and that no job is in it twice.
Queued(q)   == {q[i] : i \in DOMAIN q} \ {Sentinel}
Apart(q)    == \A i, k \in DOMAIN q : q[i] = q[k] /\ q[i] # Sentinel => i = k
Distinct(s) == \A i, k \in DOMAIN s : s[i].job = s[k].job => i = k

QJ == Queued(qwenQueue)
RJ == JobsOf(resultQueue)
FJ == JobsOf(fetched)
WJ == {workerJob} \ {None}
EJ == {evicted} \ {None}

\* A command is in at most one of the two queues, the hands of the poll, of the worker and
\* of the caller, and in a queue at most once.
Places ==
  /\ Apart(qwenQueue) /\ Distinct(resultQueue) /\ Distinct(fetched)
  /\ QJ \cap RJ = {} /\ QJ \cap FJ = {} /\ QJ \cap WJ = {} /\ QJ \cap EJ = {}
  /\ RJ \cap FJ = {} /\ RJ \cap WJ = {} /\ RJ \cap EJ = {}
  /\ FJ \cap WJ = {} /\ FJ \cap EJ = {} /\ WJ \cap EJ = {}

\* A thread holds a job only in the middle of the operation that has it.
Hands ==
  /\ workerPc \in {"get", "done", "dead"} => workerJob = None
  /\ callerPc \notin {"reput", "report", "insert", "makeroom", "reinsert"} => evicted = None
  /\ callerPc \notin {"put", "evict", "restore", "reput"} => job = None
  /\ callerPc \notin {"inspect", "revoke", "drain", "judge"} => fetched = <<>>
  /\ callerPc = "revoke" => snapshot # None
  /\ workerPc \in {"finish", "publish", "insert", "makeroom", "reinsert"} => workerResult.job = workerJob
  /\ callerPc = "reput" /\ ~closed => ~JobQueueFull

\* What has been told of a command agrees with where it is: one in the pipeline was
\* accepted and is unanswered, unless its answer was a timeout; revoked work is past the
\* job queue.
Ledger ==
  /\ InFlight \subseteq accepted
  /\ accepted \cap refused = {} /\ job \notin accepted \cup refused
  /\ \A r \in Request : Len(answers[r]) <= 1 /\ (r \notin accepted => answers[r] = <<>>)
  /\ \A r \in InFlight : r \notin revoked => answers[r] = <<>>
  /\ \A r \in revoked : answers[r] = <<"TIMED_OUT">>
  /\ revoked \cap (QJ \cup EJ) = {}
  /\ workerPc = "claim" => workerJob \notin revoked

\* Without a flood, and while open, nothing unanswered and no marked work is lost.
Kept ==
  Calm /\ ~closed =>
    /\ \A r \in accepted : answers[r] = <<>> => r \in InFlight
    /\ revoked \subseteq InFlight

Slot == ActiveSlot /\ activeJob \notin revoked

AnswerInv == BacklogInv /\ Places /\ Hands /\ Ledger /\ Kept /\ Slot

LEMMA InFlightIs == InFlight = QJ \cup RJ \cup FJ \cup WJ \cup EJ
  BY DEF InFlight, QueuedJobs, QJ, RJ, FJ, WJ, EJ, Queued

\* Appending a result adds its job.
LEMMA AppendJobs ==
  ASSUME NEW s \in Seq(Result), NEW x \in Result
  PROVE  /\ JobsOf(Append(s, x)) = JobsOf(s) \cup {x.job}
         /\ Distinct(s) /\ x.job \notin JobsOf(s) => Distinct(Append(s, x))
<1> DEFINE n == Len(s)
<1>1. n \in Nat /\ DOMAIN s = 1..n
  BY LenProperties
<1>2. /\ DOMAIN Append(s, x) = 1..(n + 1)
      /\ \A i \in 1..n : Append(s, x)[i] = s[i]
      /\ Append(s, x)[n + 1] = x
  <2>1. Append(s, x) \in Seq(Result) /\ Len(Append(s, x)) = n + 1
    BY AppendProperties
  <2>2. DOMAIN Append(s, x) = 1..(n + 1)
    BY <2>1, LenProperties
  <2> QED BY <2>2, AppendProperties
<1>3. \A i \in 1..(n + 1) : i \in 1..n \/ i = n + 1
  BY <1>1
<1>4. \A i \in 1..n : i \in 1..(n + 1)
  BY <1>1
<1>5. n + 1 \in 1..(n + 1)
  BY <1>1
<1> HIDE DEF n
<1>6. JobsOf(Append(s, x)) = JobsOf(s) \cup {x.job}
  BY <1>1, <1>2, <1>3, <1>4, <1>5 DEF JobsOf
<1>7. ASSUME Distinct(s), x.job \notin JobsOf(s) PROVE Distinct(Append(s, x))
  <2>1. \A i \in 1..n : s[i].job # x.job
    BY <1>7, <1>1 DEF JobsOf
  <2>2. \A i, k \in 1..n : s[i].job = s[k].job => i = k
    BY <1>7, <1>1 DEF Distinct
  <2> QED BY <2>1, <2>2, <1>2, <1>3 DEF Distinct
<1> QED BY <1>6, <1>7

\* Taking the head of a queue of results takes its job.
LEMMA TailJobs ==
  ASSUME NEW s \in Seq(Result), s # <<>>
  PROVE  /\ Head(s) \in Result /\ Head(s).job \in JobsOf(s)
         /\ JobsOf(Tail(s)) \subseteq JobsOf(s)
         /\ Distinct(s) => JobsOf(Tail(s)) = JobsOf(s) \ {Head(s).job} /\ Distinct(Tail(s))
<1> DEFINE n == Len(s)
<1>1. n \in Nat /\ n # 0 /\ DOMAIN s = 1..n
  BY LenProperties, EmptySeq
<1>2. /\ Head(s) = s[1] /\ Head(s) \in Result
      /\ DOMAIN Tail(s) = 1..(n - 1)
      /\ \A i \in 1..(n - 1) : Tail(s)[i] = s[i + 1]
  <2>1. Tail(s) \in Seq(Result) /\ Len(Tail(s)) = n - 1
    BY HeadTailProperties
  <2>2. DOMAIN Tail(s) = 1..(n - 1)
    BY <2>1, LenProperties
  <2>3. Head(s) = s[1] /\ Head(s) \in Result
    BY HeadTailProperties
  <2>4. \A i \in 1..(n - 1) : Tail(s)[i] = s[i + 1]
    BY <2>1, HeadTailProperties
  <2> QED BY <2>2, <2>3, <2>4
<1>3. /\ \A i \in 1..(n - 1) : i + 1 \in 1..n /\ i + 1 # 1
      /\ \A i \in 1..n : i = 1 \/ (i - 1 \in 1..(n - 1) /\ (i - 1) + 1 = i)
      /\ \A i, k \in 1..(n - 1) : i + 1 = k + 1 => i = k
      /\ 1 \in 1..n
  BY <1>1
<1> HIDE DEF n
<1>4. Head(s).job \in JobsOf(s) /\ JobsOf(Tail(s)) \subseteq JobsOf(s)
  BY <1>1, <1>2, <1>3 DEF JobsOf
<1>5. ASSUME Distinct(s) PROVE JobsOf(Tail(s)) = JobsOf(s) \ {Head(s).job} /\ Distinct(Tail(s))
  <2>1. \A i, k \in 1..n : s[i].job = s[k].job => i = k
    BY <1>5, <1>1 DEF Distinct
  <2>t. ASSUME NEW i \in 1..(n - 1), NEW k \in 1..(n - 1), Tail(s)[i].job = Tail(s)[k].job
        PROVE  i = k
    <3>1. s[i + 1].job = s[k + 1].job /\ i + 1 \in 1..n /\ k + 1 \in 1..n
      BY <2>t, <1>2, <1>3
    <3>2. i + 1 = k + 1
      BY <2>1, <3>1
    <3> QED BY <3>2, <1>3
  <2>2. Distinct(Tail(s))
    BY <2>t, <1>2 DEF Distinct
  <2>3. \A j \in JobsOf(Tail(s)) : j \in JobsOf(s) \ {Head(s).job}
    BY <2>1, <1>1, <1>2, <1>3 DEF JobsOf
  <2>4. ASSUME NEW j \in JobsOf(s) \ {Head(s).job} PROVE j \in JobsOf(Tail(s))
    <3>1. PICK i \in 1..n : j = s[i].job
      BY <1>1 DEF JobsOf
    <3>2. i # 1
      BY <3>1, <1>2, <2>4
    <3>3. i - 1 \in 1..(n - 1) /\ Tail(s)[i - 1] = s[i]
      BY <3>2, <1>2, <1>3
    <3> QED BY <3>1, <3>3, <1>2 DEF JobsOf
  <2> QED BY <2>2, <2>3, <2>4
<1> QED BY <1>2, <1>4, <1>5

\* The same for the job queue, where the sentinel may stand between the jobs.
LEMMA AppendQueued ==
  ASSUME NEW q \in Seq(Request \cup {Sentinel}), NEW x \in Request \cup {Sentinel}
  PROVE  /\ Queued(Append(q, x)) = Queued(q) \cup ({x} \ {Sentinel})
         /\ Apart(q) /\ x \notin Queued(q) => Apart(Append(q, x))
<1> DEFINE n == Len(q)
<1>1. n \in Nat /\ DOMAIN q = 1..n
  BY LenProperties
<1>2. /\ DOMAIN Append(q, x) = 1..(n + 1)
      /\ \A i \in 1..n : Append(q, x)[i] = q[i]
      /\ Append(q, x)[n + 1] = x
  <2>1. Append(q, x) \in Seq(Request \cup {Sentinel}) /\ Len(Append(q, x)) = n + 1
    BY AppendProperties
  <2>2. DOMAIN Append(q, x) = 1..(n + 1)
    BY <2>1, LenProperties
  <2> QED BY <2>2, AppendProperties
<1>3. \A i \in 1..(n + 1) : i \in 1..n \/ i = n + 1
  BY <1>1
<1>4. \A i \in 1..n : i \in 1..(n + 1)
  BY <1>1
<1>5. n + 1 \in 1..(n + 1)
  BY <1>1
<1> HIDE DEF n
<1>6. Queued(Append(q, x)) = Queued(q) \cup ({x} \ {Sentinel})
  BY <1>1, <1>2, <1>3, <1>4, <1>5 DEF Queued
<1>7. ASSUME Apart(q), x \notin Queued(q) PROVE Apart(Append(q, x))
  <2>1. \A i \in 1..n : q[i] = x => x = Sentinel
    BY <1>7, <1>1 DEF Queued
  <2>2. \A i, k \in 1..n : q[i] = q[k] /\ q[i] # Sentinel => i = k
    BY <1>7, <1>1 DEF Apart
  <2> QED BY <2>1, <2>2, <1>2, <1>3 DEF Apart
<1> QED BY <1>6, <1>7

LEMMA TailQueued ==
  ASSUME NEW q \in Seq(Request \cup {Sentinel}), q # <<>>
  PROVE  /\ Head(q) \in Request \cup {Sentinel}
         /\ Head(q) # Sentinel => Head(q) \in Queued(q)
         /\ Queued(Tail(q)) \subseteq Queued(q)
         /\ Apart(q) => Queued(Tail(q)) = Queued(q) \ {Head(q)} /\ Apart(Tail(q))
<1> DEFINE n == Len(q)
<1>1. n \in Nat /\ n # 0 /\ DOMAIN q = 1..n
  BY LenProperties, EmptySeq
<1>2. /\ Head(q) = q[1] /\ Head(q) \in Request \cup {Sentinel}
      /\ DOMAIN Tail(q) = 1..(n - 1)
      /\ \A i \in 1..(n - 1) : Tail(q)[i] = q[i + 1]
  <2>1. Tail(q) \in Seq(Request \cup {Sentinel}) /\ Len(Tail(q)) = n - 1
    BY HeadTailProperties
  <2>2. DOMAIN Tail(q) = 1..(n - 1)
    BY <2>1, LenProperties
  <2>3. Head(q) = q[1] /\ Head(q) \in Request \cup {Sentinel}
    BY HeadTailProperties
  <2>4. \A i \in 1..(n - 1) : Tail(q)[i] = q[i + 1]
    BY <2>1, HeadTailProperties
  <2> QED BY <2>2, <2>3, <2>4
<1>3. /\ \A i \in 1..(n - 1) : i + 1 \in 1..n /\ i + 1 # 1
      /\ \A i \in 1..n : i = 1 \/ (i - 1 \in 1..(n - 1) /\ (i - 1) + 1 = i)
      /\ \A i, k \in 1..(n - 1) : i + 1 = k + 1 => i = k
      /\ 1 \in 1..n
  BY <1>1
<1> HIDE DEF n
<1>4. (Head(q) # Sentinel => Head(q) \in Queued(q)) /\ Queued(Tail(q)) \subseteq Queued(q)
  BY <1>1, <1>2, <1>3 DEF Queued
<1>5. ASSUME Apart(q) PROVE Queued(Tail(q)) = Queued(q) \ {Head(q)} /\ Apart(Tail(q))
  <2>1. \A i, k \in 1..n : q[i] = q[k] /\ q[i] # Sentinel => i = k
    BY <1>5, <1>1 DEF Apart
  <2>t. ASSUME NEW i \in 1..(n - 1), NEW k \in 1..(n - 1),
               Tail(q)[i] = Tail(q)[k], Tail(q)[i] # Sentinel
        PROVE  i = k
    <3>1. /\ i + 1 \in 1..n /\ k + 1 \in 1..n
          /\ q[i + 1] = q[k + 1] /\ q[i + 1] # Sentinel
      BY <2>t, <1>2, <1>3
    <3>2. i + 1 = k + 1
      BY <2>1, <3>1
    <3> QED BY <3>2, <1>3
  <2>2. Apart(Tail(q))
    BY <2>t, <1>2 DEF Apart
  <2>3. \A j \in Queued(Tail(q)) : j \in Queued(q) \ {Head(q)}
    BY <2>1, <1>1, <1>2, <1>3 DEF Queued
  <2>4. ASSUME NEW j \in Queued(q) \ {Head(q)} PROVE j \in Queued(Tail(q))
    <3>1. PICK i \in 1..n : j = q[i] /\ j # Sentinel
      BY <1>1 DEF Queued
    <3>2. i # 1
      BY <3>1, <1>2, <2>4
    <3>3. i - 1 \in 1..(n - 1) /\ Tail(q)[i - 1] = q[i]
      BY <3>2, <1>2, <1>3
    <3> QED BY <3>1, <3>3, <1>2 DEF Queued
  <2> QED BY <2>2, <2>3, <2>4
<1> QED BY <1>2, <1>4, <1>5

\* What a thread holds, it holds in the middle of an operation; and a displaced job always
\* leaves room for the one that displaced it, unless close() takes it.
LEMMA HandsStep ==
  ASSUME TypeOK, Held, Hands, [Next]_vars
  PROVE  Hands'
<1>l. /\ Len(qwenQueue) \in Nat /\ Len(qwenQueue) <= QueueSize /\ QueueSize \in Nat
      /\ qwenQueue # <<>> => Len(Tail(qwenQueue)) = Len(qwenQueue) - 1
  BY QueueLengths, QueueAssumption DEF TypeOK
<1>h. closerPc # "open" => closed
  BY DEF Held
<1>n. activeJob # None /\ activeJob \in Request => activeJob # None
  OBVIOUS
<1> USE DEF Hands, JobQueueFull, queueVars, lockVars, callerVars, workerVars, clockVars, ledgerVars
<1>1. ASSUME NEW r \in Request, SubmitRefused(r) PROVE Hands'
  BY <1>1, <1>l, <1>h DEF SubmitRefused, New
<1>2. ASSUME NEW r \in Request, SubmitBegin(r) PROVE Hands'
  BY <1>2, <1>l, <1>h DEF SubmitBegin, New
<1>3. ASSUME NEW r \in Request, DeadlinePasses(r) PROVE Hands'
  BY <1>3, <1>l, <1>h DEF DeadlinePasses
<1>4. ASSUME NEW r \in Request, TimeoutElapses(r) PROVE Hands'
  BY <1>4, <1>l, <1>h DEF TimeoutElapses
<1>5. CASE SubmitPut
  BY <1>5, <1>l, <1>h DEF SubmitPut
<1>6. CASE SubmitEvict
  BY <1>6, <1>l, <1>h DEF SubmitEvict
<1>7. CASE SubmitRestore
  BY <1>7, <1>l, <1>h DEF SubmitRestore
<1>8. CASE SubmitReput
  BY <1>8, <1>l, <1>h DEF SubmitReput
<1>9. CASE SubmitReport
  BY <1>9, <1>l, <1>h DEF SubmitReport
<1>10. CASE SubmitInsert
  BY <1>10, <1>l, <1>h DEF SubmitInsert
<1>11. CASE SubmitMakeRoom
  BY <1>11, <1>l, <1>h DEF SubmitMakeRoom
<1>12. CASE SubmitReinsert
  BY <1>12, <1>l, <1>h DEF SubmitReinsert
<1>13. CASE PollBegin
  BY <1>13, <1>l, <1>h DEF PollBegin
<1>14. CASE PollInspect
  BY <1>14, <1>l, <1>h DEF PollInspect
<1>15. CASE PollRevoke
  BY <1>15, <1>l, <1>h DEF PollRevoke, StillActive, MarkRevoked
<1>16. CASE PollDrain
  BY <1>16, <1>l, <1>h DEF PollDrain
<1>17. CASE PollJudge
  BY <1>17, <1>l, <1>h DEF PollJudge, IsRevoked, RetireMarker
<1>18. CASE PollReturn
  BY <1>18, <1>l, <1>h DEF PollReturn
<1>19. CASE WorkerGet
  BY <1>19, <1>l, <1>h DEF WorkerGet
<1>20. CASE WorkerClaim
  BY <1>20, <1>l, <1>h DEF WorkerClaim
<1>21. CASE WorkerInfer
  BY <1>21, <1>l, <1>h DEF WorkerInfer
<1>22. CASE WorkerFinish
  BY <1>22, <1>l, <1>h DEF WorkerFinish, ReleaseActive
<1>23. CASE WorkerPublish
  BY <1>23, <1>l, <1>h DEF WorkerPublish
<1>24. CASE WorkerInsert
  BY <1>24, <1>l, <1>h DEF WorkerInsert
<1>25. CASE WorkerMakeRoom
  BY <1>25, <1>l, <1>h DEF WorkerMakeRoom
<1>26. CASE WorkerReinsert
  BY <1>26, <1>l, <1>h DEF WorkerReinsert
<1>27. CASE CloseBegin
  BY <1>27, <1>l, <1>h DEF CloseBegin
<1>28. CASE CloseSentinel
  BY <1>28, <1>l, <1>h DEF CloseSentinel
<1>29. CASE CloseMakeRoom
  BY <1>29, <1>l, <1>h DEF CloseMakeRoom
<1>30. CASE CloseResend
  BY <1>30, <1>l, <1>h DEF CloseResend
<1>31. CASE UNCHANGED vars
  BY <1>31, <1>l, <1>h DEF vars
<1> QED
  BY <1>1, <1>2, <1>3, <1>4, <1>5, <1>6, <1>7, <1>8, <1>9, <1>10, <1>11, <1>12, <1>13,
     <1>14, <1>15, <1>16, <1>17, <1>18, <1>19, <1>20, <1>21, <1>22, <1>23, <1>24, <1>25,
     <1>26, <1>27, <1>28, <1>29, <1>30, <1>31
  DEF Next, Submit, Poll, Worker, WorkerBookkeeping, Close, Clock

\* The active slot names the job in inference, and that job is not revoked.
LEMMA SlotStep ==
  ASSUME TypeOK, Held, Places, Hands, Ledger, Slot, [Next]_vars
  PROVE  Slot'
<1>v. None \notin Request /\ revoked \subseteq Request /\ None \notin revoked
  BY ValueAssumption DEF TypeOK
<1>w. workerPc \in {"claim", "infer", "finish", "publish", "insert", "makeroom", "reinsert"}
        => workerJob \in Request
  BY DEF Held
<1>c. workerPc = "claim" => workerJob \notin revoked
  BY DEF Ledger
<1>f. fetched # <<>> => Head(fetched).job \in FJ
  BY TailJobs DEF TypeOK, FJ
<1>j. FJ \cap WJ = {} /\ (workerJob # None => workerJob \in WJ)
  BY DEF Places, WJ
<1>s. callerPc = "revoke" => snapshot # None
  BY DEF Hands
<1> HIDE DEF FJ, WJ
<1> USE DEF Slot, ActiveSlot, queueVars, lockVars, callerVars, workerVars, clockVars, ledgerVars
<1>1. ASSUME NEW r \in Request, SubmitRefused(r) PROVE Slot'
  BY <1>1, <1>v, <1>w, <1>c DEF SubmitRefused, New
<1>2. ASSUME NEW r \in Request, SubmitBegin(r) PROVE Slot'
  BY <1>2, <1>v, <1>w, <1>c DEF SubmitBegin, New
<1>3. ASSUME NEW r \in Request, DeadlinePasses(r) PROVE Slot'
  BY <1>3, <1>v, <1>w, <1>c DEF DeadlinePasses
<1>4. ASSUME NEW r \in Request, TimeoutElapses(r) PROVE Slot'
  BY <1>4, <1>v, <1>w, <1>c DEF TimeoutElapses
<1>5. CASE SubmitPut
  BY <1>5, <1>v, <1>w, <1>c DEF SubmitPut
<1>6. CASE SubmitEvict
  BY <1>6, <1>v, <1>w, <1>c DEF SubmitEvict
<1>7. CASE SubmitRestore
  BY <1>7, <1>v, <1>w, <1>c DEF SubmitRestore
<1>8. CASE SubmitReput
  BY <1>8, <1>v, <1>w, <1>c DEF SubmitReput
<1>9. CASE SubmitReport
  BY <1>9, <1>v, <1>w, <1>c DEF SubmitReport
<1>10. CASE SubmitInsert
  BY <1>10, <1>v, <1>w, <1>c DEF SubmitInsert
<1>11. CASE SubmitMakeRoom
  BY <1>11, <1>v, <1>w, <1>c DEF SubmitMakeRoom
<1>12. CASE SubmitReinsert
  BY <1>12, <1>v, <1>w, <1>c DEF SubmitReinsert
<1>13. CASE PollBegin
  BY <1>13, <1>v, <1>w, <1>c DEF PollBegin
<1>14. CASE PollInspect
  BY <1>14, <1>v, <1>w, <1>c DEF PollInspect
<1>15. CASE PollRevoke
  BY <1>15, <1>v, <1>w, <1>s DEF PollRevoke, StillActive, MarkRevoked
<1>16. CASE PollDrain
  BY <1>16, <1>v, <1>w, <1>c DEF PollDrain
<1>17. CASE PollJudge
  BY <1>17, <1>v, <1>w, <1>f, <1>j DEF PollJudge, IsRevoked, RetireMarker
<1>18. CASE PollReturn
  BY <1>18, <1>v, <1>w, <1>c DEF PollReturn
<1>19. CASE WorkerGet
  BY <1>19, <1>v, <1>w, <1>c DEF WorkerGet
<1>20. CASE WorkerClaim
  BY <1>20, <1>v, <1>w, <1>c DEF WorkerClaim
<1>21. CASE WorkerInfer
  BY <1>21, <1>v, <1>w, <1>c DEF WorkerInfer
<1>22. CASE WorkerFinish
  BY <1>22, <1>v, <1>w, <1>c DEF WorkerFinish, ReleaseActive
<1>23. CASE WorkerPublish
  BY <1>23, <1>v, <1>w, <1>c DEF WorkerPublish
<1>24. CASE WorkerInsert
  BY <1>24, <1>v, <1>w, <1>c DEF WorkerInsert
<1>25. CASE WorkerMakeRoom
  BY <1>25, <1>v, <1>w, <1>c DEF WorkerMakeRoom
<1>26. CASE WorkerReinsert
  BY <1>26, <1>v, <1>w, <1>c DEF WorkerReinsert
<1>27. CASE CloseBegin
  BY <1>27, <1>v, <1>w, <1>c DEF CloseBegin
<1>28. CASE CloseSentinel
  BY <1>28, <1>v, <1>w, <1>c DEF CloseSentinel
<1>29. CASE CloseMakeRoom
  BY <1>29, <1>v, <1>w, <1>c DEF CloseMakeRoom
<1>30. CASE CloseResend
  BY <1>30, <1>v, <1>w, <1>c DEF CloseResend
<1>31. CASE UNCHANGED vars
  BY <1>31, <1>v, <1>w, <1>c DEF vars
<1> QED
  BY <1>1, <1>2, <1>3, <1>4, <1>5, <1>6, <1>7, <1>8, <1>9, <1>10, <1>11, <1>12, <1>13,
     <1>14, <1>15, <1>16, <1>17, <1>18, <1>19, <1>20, <1>21, <1>22, <1>23, <1>24, <1>25,
     <1>26, <1>27, <1>28, <1>29, <1>30, <1>31
  DEF Next, Submit, Poll, Worker, WorkerBookkeeping, Close, Clock

\* What happens to the job queue, to a queue of results, to a thread's hands: in places.
LEMMA JobsMove ==
  ASSUME TypeOK, Places
  PROVE  /\ Sentinel \notin QJ
         /\ qwenQueue # <<>> /\ Head(qwenQueue) # Sentinel => Head(qwenQueue) \in QJ
         /\ qwenQueue' = qwenQueue => QJ' = QJ /\ Apart(qwenQueue)'
         /\ qwenQueue' = Append(qwenQueue, Sentinel) => QJ' = QJ /\ Apart(qwenQueue)'
         /\ job \in Request \ QJ /\ qwenQueue' = Append(qwenQueue, job)
              => QJ' = QJ \cup {job} /\ Apart(qwenQueue)'
         /\ qwenQueue # <<>> /\ qwenQueue' = Tail(qwenQueue)
              => QJ' = QJ \ {Head(qwenQueue)} /\ Apart(qwenQueue)'
<1>1. qwenQueue \in Seq(Request \cup {Sentinel}) /\ Apart(qwenQueue) /\ Sentinel \notin Request
  BY ValueAssumption DEF TypeOK, Places
<1>2. QJ = Queued(qwenQueue) /\ QJ' = Queued(qwenQueue') /\ Sentinel \notin QJ
  BY DEF QJ, Queued
<1>3. Apart(qwenQueue)' <=> Apart(qwenQueue')
  BY DEF Apart
<1>4. ASSUME NEW x \in (Request \cup {Sentinel}) \ QJ
      PROVE  /\ Queued(Append(qwenQueue, x)) = QJ \cup ({x} \ {Sentinel})
             /\ Apart(Append(qwenQueue, x))
  BY <1>1, <1>2, AppendQueued
<1>5. ASSUME qwenQueue # <<>>
      PROVE  /\ Head(qwenQueue) # Sentinel => Head(qwenQueue) \in QJ
             /\ Queued(Tail(qwenQueue)) = QJ \ {Head(qwenQueue)} /\ Apart(Tail(qwenQueue))
  BY <1>1, <1>2, <1>5, TailQueued
<1>6. Queued(Append(qwenQueue, Sentinel)) = QJ /\ Apart(Append(qwenQueue, Sentinel))
  <2>1. Queued(Append(qwenQueue, Sentinel)) = QJ \cup ({Sentinel} \ {Sentinel})
    BY <1>2, <1>4
  <2>2. Apart(Append(qwenQueue, Sentinel))
    BY <1>2, <1>4
  <2> QED BY <2>1, <2>2
<1>7. qwenQueue' = Append(qwenQueue, Sentinel) => QJ' = QJ /\ Apart(qwenQueue)'
  BY <1>2, <1>3, <1>6
<1>8. job \in Request \ QJ /\ qwenQueue' = Append(qwenQueue, job)
        => QJ' = QJ \cup {job} /\ Apart(qwenQueue)'
  BY <1>1, <1>2, <1>3, <1>4
<1>9. qwenQueue # <<>> /\ qwenQueue' = Tail(qwenQueue)
        => QJ' = QJ \ {Head(qwenQueue)} /\ Apart(qwenQueue)'
  BY <1>2, <1>3, <1>5
<1>10. qwenQueue' = qwenQueue => QJ' = QJ /\ Apart(qwenQueue)'
  BY <1>1, <1>2, <1>3
<1> QED BY <1>2, <1>5, <1>7, <1>8, <1>9, <1>10

LEMMA ResultsMove ==
  ASSUME TypeOK, Places
  PROVE  /\ resultQueue' = resultQueue => RJ' = RJ /\ Distinct(resultQueue)'
         /\ resultQueue # <<>> => Head(resultQueue) \in Result /\ Head(resultQueue).job \in RJ
         /\ \A x \in Result : x.job \notin RJ /\ resultQueue' = Append(resultQueue, x)
              => RJ' = RJ \cup {x.job} /\ Distinct(resultQueue)'
         /\ resultQueue # <<>> /\ resultQueue' = Tail(resultQueue)
              => RJ' = RJ \ {Head(resultQueue).job} /\ Distinct(resultQueue)'
<1>1. resultQueue \in Seq(Result) /\ Distinct(resultQueue)
  BY DEF TypeOK, Places
<1>2. RJ = JobsOf(resultQueue) /\ RJ' = JobsOf(resultQueue')
  BY DEF RJ, JobsOf
<1>3. Distinct(resultQueue)' <=> Distinct(resultQueue')
  BY DEF Distinct
<1>4. \A x \in Result : x.job \notin RJ =>
        JobsOf(Append(resultQueue, x)) = RJ \cup {x.job} /\ Distinct(Append(resultQueue, x))
  BY <1>1, <1>2, AppendJobs
<1>5. resultQueue # <<>> =>
        /\ Head(resultQueue) \in Result /\ Head(resultQueue).job \in RJ
        /\ JobsOf(Tail(resultQueue)) = RJ \ {Head(resultQueue).job} /\ Distinct(Tail(resultQueue))
  BY <1>1, <1>2, TailJobs
<1>6. resultQueue' = resultQueue => RJ' = RJ /\ Distinct(resultQueue)'
  BY <1>1, <1>2, <1>3
<1>7. \A x \in Result : x.job \notin RJ /\ resultQueue' = Append(resultQueue, x)
        => RJ' = RJ \cup {x.job} /\ Distinct(resultQueue)'
  BY <1>2, <1>3, <1>4
<1>8. resultQueue # <<>> /\ resultQueue' = Tail(resultQueue)
        => RJ' = RJ \ {Head(resultQueue).job} /\ Distinct(resultQueue)'
  BY <1>2, <1>3, <1>5
<1> QED BY <1>5, <1>6, <1>7, <1>8

LEMMA FetchedMove ==
  ASSUME TypeOK, Places
  PROVE  /\ fetched' = fetched => FJ' = FJ /\ Distinct(fetched)'
         /\ fetched # <<>> => Head(fetched) \in Result /\ Head(fetched).job \in FJ
         /\ \A x \in Result : x.job \notin FJ /\ fetched' = Append(fetched, x)
              => FJ' = FJ \cup {x.job} /\ Distinct(fetched)'
         /\ \A x \in Result : fetched' = <<x>> => FJ' = {x.job} /\ Distinct(fetched)'
         /\ fetched # <<>> /\ fetched' = Tail(fetched)
              => FJ' = FJ \ {Head(fetched).job} /\ Distinct(fetched)'
<1>1. fetched \in Seq(Result) /\ Distinct(fetched)
  BY DEF TypeOK, Places
<1>2. FJ = JobsOf(fetched) /\ FJ' = JobsOf(fetched')
  BY DEF FJ, JobsOf
<1>3. Distinct(fetched)' <=> Distinct(fetched')
  BY DEF Distinct
<1>4. \A x \in Result : x.job \notin FJ =>
        JobsOf(Append(fetched, x)) = FJ \cup {x.job} /\ Distinct(Append(fetched, x))
  BY <1>1, <1>2, AppendJobs
<1>5. fetched # <<>> =>
        /\ Head(fetched) \in Result /\ Head(fetched).job \in FJ
        /\ JobsOf(Tail(fetched)) = FJ \ {Head(fetched).job} /\ Distinct(Tail(fetched))
  BY <1>1, <1>2, TailJobs
<1>6. fetched' = fetched => FJ' = FJ /\ Distinct(fetched)'
  BY <1>1, <1>2, <1>3
<1>7. \A x \in Result : x.job \notin FJ /\ fetched' = Append(fetched, x)
        => FJ' = FJ \cup {x.job} /\ Distinct(fetched)'
  BY <1>2, <1>3, <1>4
<1>8. fetched # <<>> /\ fetched' = Tail(fetched)
        => FJ' = FJ \ {Head(fetched).job} /\ Distinct(fetched)'
  BY <1>2, <1>3, <1>5
<1>9. ASSUME NEW x PROVE JobsOf(<<x>>) = {x.job} /\ Distinct(<<x>>)
  <2>1. DOMAIN <<x>> = {1} /\ <<x>>[1] = x
    OBVIOUS
  <2> QED BY <2>1 DEF JobsOf, Distinct
<1>10. \A x \in Result : fetched' = <<x>> => FJ' = {x.job} /\ Distinct(fetched)'
  BY <1>2, <1>3, <1>9
<1> QED BY <1>5, <1>6, <1>7, <1>8, <1>10

\* Work that only leaves the pipeline, or stays, keeps its places.
LEMMA Shrinks ==
  ASSUME Places, QJ' \subseteq QJ, RJ' \subseteq RJ, FJ' \subseteq FJ, WJ' \subseteq WJ,
         EJ' \subseteq EJ,
         Apart(qwenQueue)', Distinct(resultQueue)', Distinct(fetched)'
  PROVE  Places'
  BY DEF Places

\* As long as nobody is told or accepted, work may move and leave: it may leave only in a
\* flood or once closed.
LEMMA LedgerKeeps ==
  ASSUME TypeOK, Ledger, Kept, InFlight' \subseteq InFlight,
         UNCHANGED <<accepted, answers, revoked>>,
         accepted \cap refused' = {}, job' \notin accepted \cup refused',
         revoked \cap (QJ' \cup EJ') = {},
         workerPc' = "claim" => workerJob' \notin revoked,
         Calm' /\ ~closed' => Calm /\ ~closed /\ InFlight \subseteq InFlight'
  PROVE  Ledger' /\ Kept'
<1>1. Ledger'
  BY DEF Ledger
<1>2. Kept'
  BY DEF Kept
<1> QED BY <1>1, <1>2

\* Every step keeps each command in one place, and what was told of it in keeping with that.
LEMMA PlacesStep ==
  ASSUME TypeOK, Held, NothingDropped, Places, Hands, Ledger, Kept, Slot, [Next]_vars
  PROVE  Places' /\ Ledger' /\ Kept'
<1> DEFINE Goal == Places' /\ Ledger' /\ Kept'
<1>i. /\ InFlight = QJ \cup RJ \cup FJ \cup WJ \cup EJ
      /\ InFlight' = QJ' \cup RJ' \cup FJ' \cup WJ' \cup EJ'
  BY DEF InFlight, QueuedJobs, QJ, RJ, FJ, WJ, EJ, Queued
<1>c. Calm' => Calm
  BY CalmBefore
<1>n. /\ None \notin Request /\ Sentinel \notin Request /\ None # Sentinel
      /\ accepted \subseteq Request /\ refused \subseteq Request /\ revoked \subseteq Request
  BY ValueAssumption DEF TypeOK
<1>h. /\ callerPc \in {"put", "evict", "restore", "reput"} => job \in Request
      /\ callerPc \in {"reput", "report", "insert", "makeroom", "reinsert"} => evicted \in Request
      /\ workerPc \in {"claim", "infer", "finish", "publish", "insert", "makeroom", "reinsert"}
           => workerJob \in Request
      /\ workerPc \in {"finish", "publish", "insert", "makeroom", "reinsert"}
           => workerResult \in Result
      /\ closerPc # "open" => closed
  BY DEF Held
<1>s. /\ qwenQueue' = qwenQueue => QJ' = QJ /\ Apart(qwenQueue)'
      /\ resultQueue' = resultQueue => RJ' = RJ /\ Distinct(resultQueue)'
      /\ fetched' = fetched => FJ' = FJ /\ Distinct(fetched)'
      /\ workerJob' = workerJob => WJ' = WJ
      /\ evicted' = evicted => EJ' = EJ
      /\ workerJob' = None => WJ' = {}
      /\ evicted' = None => EJ' = {}
  BY JobsMove, ResultsMove, FetchedMove DEF WJ, EJ
<1>l. /\ accepted \cap refused = {} /\ job \notin accepted \cup refused
      /\ revoked \cap (QJ \cup EJ) = {}
      /\ workerPc = "claim" => workerJob \notin revoked
      /\ QJ \cup RJ \cup FJ \cup WJ \cup EJ \subseteq accepted
  BY <1>i DEF Ledger
<1>d. callerPc \in {"makeroom", "reinsert"} \/ workerPc \in {"makeroom", "reinsert"} => ~Calm'
  BY <1>c DEF NothingDropped
<1>e. /\ callerPc \notin {"reput", "report", "insert", "makeroom", "reinsert"} => EJ = {}
      /\ workerPc \in {"get", "done", "dead"} => WJ = {}
      /\ callerPc = "idle" => fetched = <<>>
      /\ workerPc \in {"finish", "publish", "insert", "makeroom", "reinsert"}
           => workerResult.job = workerJob
      /\ evicted # None => EJ = {evicted}
      /\ workerJob # None => WJ = {workerJob}
  BY DEF Hands, EJ, WJ
<1> USE DEF queueVars, lockVars, callerVars, workerVars, clockVars, ledgerVars
\* Nothing moves.
<1>0. ASSUME QJ' = QJ, RJ' = RJ, FJ' = FJ, WJ' = WJ, EJ' = EJ,
             Apart(qwenQueue)', Distinct(resultQueue)', Distinct(fetched)',
             UNCHANGED <<accepted, answers, revoked>>,
             accepted \cap refused' = {}, job' \notin accepted \cup refused',
             workerPc' = "claim" => workerJob' \notin revoked, closed => closed'
      PROVE  Goal
  <2>1. Places'
    BY <1>0, Shrinks
  <2>2. Ledger' /\ Kept'
    BY <1>0, <1>i, <1>c, <1>l, LedgerKeeps
  <2> QED BY <2>1, <2>2
\* Work leaves, in a flood or once closed.
<1>00. ASSUME QJ' \subseteq QJ, RJ' \subseteq RJ, FJ' \subseteq FJ, WJ' \subseteq WJ,
              EJ' \subseteq EJ,
              Apart(qwenQueue)', Distinct(resultQueue)', Distinct(fetched)',
              UNCHANGED <<accepted, answers, revoked>>,
              accepted \cap refused' = {}, job' \notin accepted \cup refused',
              workerPc' = "claim" => workerJob' \notin revoked, ~Calm' \/ closed'
       PROVE  Goal
  <2>1. Places'
    BY <1>00, Shrinks
  <2>2. InFlight' \subseteq InFlight /\ revoked \cap (QJ' \cup EJ') = {}
    BY <1>00, <1>i, <1>l
  <2>3. Ledger' /\ Kept'
    BY <2>2, <1>00, LedgerKeeps
  <2> QED BY <2>1, <2>3
\* A job moves from one place to another.
<1>000. ASSUME Places', InFlight' = InFlight,
               UNCHANGED <<accepted, refused, answers, revoked, job>>,
               revoked \cap (QJ' \cup EJ') = {},
               workerPc' = "claim" => workerJob' \notin revoked,
               closed => closed'
        PROVE  Goal
  <2>1. Ledger' /\ Kept'
    BY <1>000, <1>c, <1>l, LedgerKeeps
  <2> QED BY <2>1, <1>000
\* The caller's job enters the job queue.
<1>j. ASSUME job \in Request, qwenQueue' = Append(qwenQueue, job), job' = None,
             UNCHANGED <<resultQueue, fetched, workerJob, evicted, answers, revoked, refused,
                         workerPc, closed, burst>>,
             accepted' = accepted \cup {job}
      PROVE  Goal
  <2>1. job \notin QJ \cup RJ \cup FJ \cup WJ \cup EJ
    BY <1>l
  <2>2. /\ QJ' = QJ \cup {job} /\ RJ' = RJ /\ FJ' = FJ /\ WJ' = WJ /\ EJ' = EJ
        /\ Apart(qwenQueue)' /\ Distinct(resultQueue)' /\ Distinct(fetched)'
    BY <1>j, <1>s, <2>1, JobsMove
  <2>3. Places'
    BY <2>1, <2>2 DEF Places
  <2>4. answers[job] = <<>> /\ job \notin revoked
    <3>1. answers[job] = <<>>
      BY <1>j, <1>l DEF Ledger
    <3>2. <<>> # <<"TIMED_OUT">>
      OBVIOUS
    <3> QED BY <3>1, <3>2 DEF Ledger
  <2>5. InFlight' = InFlight \cup {job}
    BY <1>i, <2>2
  <2>6. Ledger'
    BY <1>j, <1>l, <1>n, <2>2, <2>4, <2>5 DEF Ledger
  <2>7. Kept'
    BY <1>j, <2>5 DEF Kept, Calm
  <2> QED BY <2>3, <2>6, <2>7
<1>1. ASSUME NEW r \in Request, SubmitRefused(r) PROVE Goal
  BY <1>1, <1>0, <1>s, <1>l DEF SubmitRefused, New
<1>2. ASSUME NEW r \in Request, SubmitBegin(r) PROVE Goal
  BY <1>2, <1>0, <1>s, <1>l DEF SubmitBegin, New
<1>3. CASE SubmitPut
  <2>1. CASE JobQueueFull
    BY <2>1, <1>3, <1>0, <1>s, <1>l DEF SubmitPut
  <2>2. CASE ~JobQueueFull
    BY <2>2, <1>3, <1>h, <1>j DEF SubmitPut
  <2> QED BY <2>1, <2>2
<1>4. CASE SubmitEvict
  <2>1. CASE qwenQueue = <<>>
    BY <2>1, <1>4, <1>0, <1>s, <1>l DEF SubmitEvict
  <2>2. CASE qwenQueue # <<>> /\ Head(qwenQueue) = Sentinel
    <3>1. QJ' = QJ /\ Apart(qwenQueue)'
      BY <2>2, <1>4, JobsMove DEF SubmitEvict
    <3> QED BY <3>1, <2>2, <1>4, <1>0, <1>s, <1>l DEF SubmitEvict
  <2>3. CASE qwenQueue # <<>> /\ Head(qwenQueue) # Sentinel
    <3> DEFINE x == Head(qwenQueue)
    <3>1. x \in QJ /\ QJ' = QJ \ {x} /\ Apart(qwenQueue)'
      BY <2>3, <1>4, JobsMove DEF SubmitEvict
    <3>2. EJ = {} /\ EJ' = {x}
      BY <2>3, <3>1, <1>4, <1>e, <1>l, <1>n DEF SubmitEvict, EJ
    <3>3. /\ RJ' = RJ /\ FJ' = FJ /\ WJ' = WJ /\ Distinct(resultQueue)' /\ Distinct(fetched)'
          /\ UNCHANGED <<accepted, refused, answers, revoked, job, workerPc, workerJob, closed>>
      BY <1>4, <1>s DEF SubmitEvict
    <3> HIDE DEF x
    <3>4. Places'
      BY <3>1, <3>2, <3>3 DEF Places
    <3>5. InFlight' = InFlight /\ revoked \cap (QJ' \cup EJ') = {}
      BY <3>1, <3>2, <3>3, <1>i, <1>l
    <3> QED BY <3>3, <3>4, <3>5, <1>000, <1>l
  <2> QED BY <2>1, <2>2, <2>3
<1>5. CASE SubmitRestore
  <2>1. QJ' = QJ /\ Apart(qwenQueue)'
    BY <1>5, <1>s, JobsMove DEF SubmitRestore
  <2>2. accepted' = accepted /\ refused' = refused \cup {job} /\ job' = None /\ job \in Request
    BY <1>5, <1>h DEF SubmitRestore
  <2>3. accepted \cap refused' = {} /\ job' \notin accepted \cup refused'
    BY <2>2, <1>l, <1>n
  <2> QED BY <2>1, <2>3, <1>5, <1>0, <1>s, <1>l DEF SubmitRestore
<1>6. CASE SubmitReput
  <2>1. CASE ~JobQueueFull
    BY <2>1, <1>6, <1>h, <1>j DEF SubmitReput
  <2>2. CASE JobQueueFull
    <3>1. closed
      BY <2>2, <1>6 DEF SubmitReput, Hands
    <3>2. accepted' = accepted /\ refused' = refused \cup {job} /\ job' = None /\ job \in Request
      BY <2>2, <1>6, <1>h DEF SubmitReput
    <3>3. accepted \cap refused' = {} /\ job' \notin accepted \cup refused'
      BY <3>2, <1>l, <1>n
    <3> QED BY <3>1, <3>3, <2>2, <1>6, <1>00, <1>s, <1>l DEF SubmitReput
  <2> QED BY <2>1, <2>2
<1>7. CASE SubmitReport
  <2>1. CASE closed
    BY <2>1, <1>7, <1>00, <1>s, <1>l DEF SubmitReport
  <2>2. CASE ~closed
    BY <2>2, <1>7, <1>0, <1>s, <1>l DEF SubmitReport
  <2> QED BY <2>1, <2>2
\* The displaced job becomes a result.
<1>o. ASSUME evicted \in Request, resultQueue' = Append(resultQueue, OverflowResult),
             evicted' = None,
             UNCHANGED <<qwenQueue, fetched, workerVars, accepted, refused, answers, revoked, job,
                         closed>>
      PROVE  Goal
  <2>1. EJ = {evicted} /\ EJ' = {} /\ evicted \notin RJ
    BY <1>o, <1>e, <1>n, <1>s DEF Places
  <2>2. OverflowResult \in Result /\ OverflowResult.job = evicted
    BY <1>o DEF OverflowResult, Result
  <2>3. RJ' = RJ \cup {evicted} /\ Distinct(resultQueue)'
    BY <1>o, <2>1, <2>2, ResultsMove
  <2>4. /\ QJ' = QJ /\ FJ' = FJ /\ WJ' = WJ /\ Apart(qwenQueue)' /\ Distinct(fetched)'
    BY <1>o, <1>s
  <2>5. Places'
    BY <2>1, <2>3, <2>4 DEF Places
  <2>6. InFlight' = InFlight /\ revoked \cap (QJ' \cup EJ') = {}
    BY <2>1, <2>3, <2>4, <1>i, <1>l
  <2> QED BY <2>5, <2>6, <1>o, <1>l, <1>000
<1>8. CASE SubmitInsert
  <2>1. CASE ~ResultQueueFull
    BY <2>1, <1>8, <1>o, <1>h DEF SubmitInsert
  <2>2. CASE ResultQueueFull
    BY <2>2, <1>8, <1>0, <1>s, <1>l DEF SubmitInsert
  <2> QED BY <2>1, <2>2
<1>9. CASE SubmitMakeRoom
  <2>1. RJ' \subseteq RJ /\ Distinct(resultQueue)'
    BY <1>9, <1>s, ResultsMove DEF SubmitMakeRoom
  <2> QED BY <2>1, <1>9, <1>00, <1>d, <1>s, <1>l DEF SubmitMakeRoom
<1>10. CASE SubmitReinsert
  <2>1. CASE ~ResultQueueFull
    BY <2>1, <1>10, <1>o, <1>h DEF SubmitReinsert
  <2>2. CASE ResultQueueFull
    BY <2>2, <1>10, <1>00, <1>d, <1>s, <1>l DEF SubmitReinsert
  <2> QED BY <2>1, <2>2
<1>11. CASE PollBegin
  <2>1. CASE UNCHANGED <<resultQueue, fetched>>
    BY <2>1, <1>11, <1>0, <1>s, <1>l DEF PollBegin
  <2>2. CASE /\ resultQueue # <<>>
             /\ fetched' = <<Head(resultQueue)>>
             /\ resultQueue' = Tail(resultQueue)
    <3> DEFINE x == Head(resultQueue)
    <3>1. /\ x \in Result /\ x.job \in RJ
          /\ RJ' = RJ \ {x.job} /\ Distinct(resultQueue)'
      BY <2>2, ResultsMove
    <3>2. FJ = {} /\ FJ' = {x.job} /\ Distinct(fetched)'
      <4>1. FJ = {}
        BY <1>11, <1>e DEF PollBegin, FJ, JobsOf
      <4> QED BY <4>1, <2>2, <3>1, FetchedMove
    <3>3. /\ QJ' = QJ /\ WJ' = WJ /\ EJ' = EJ /\ Apart(qwenQueue)'
          /\ UNCHANGED <<accepted, refused, answers, revoked, job, workerPc, workerJob, closed>>
      BY <1>11, <1>s DEF PollBegin
    <3> HIDE DEF x
    <3>4. Places'
      BY <3>1, <3>2, <3>3 DEF Places
    <3>5. InFlight' = InFlight /\ revoked \cap (QJ' \cup EJ') = {}
      BY <3>1, <3>2, <3>3, <1>i, <1>l
    <3> QED BY <3>3, <3>4, <3>5, <1>000, <1>l
  <2> QED BY <2>1, <2>2, <1>11 DEF PollBegin
<1>12. CASE PollInspect
  BY <1>12, <1>0, <1>s, <1>l DEF PollInspect
<1>13. CASE PollRevoke
  <2>1. CASE ~StillActive
    BY <2>1, <1>13, <1>0, <1>s, <1>l DEF PollRevoke
  <2>2. CASE StillActive
    <3>1. /\ snapshot = activeJob /\ snapshot # None
          /\ workerPc \in {"infer", "finish"} /\ workerJob = snapshot /\ snapshot \notin revoked
      BY <2>2, <1>13 DEF PollRevoke, StillActive, Hands, Slot, ActiveSlot
    <3>2. /\ WJ = {snapshot} /\ snapshot \in Request /\ snapshot \in InFlight
          /\ snapshot \notin QJ \cup EJ
      BY <3>1, <1>e, <1>i, <1>h DEF Places
    <3>3. answers[snapshot] = <<>>
      BY <3>1, <3>2 DEF Ledger
    <3>4. answers' = [answers EXCEPT ![snapshot] = <<"TIMED_OUT">>]
      <4>1. Append(<<>>, "TIMED_OUT") = <<"TIMED_OUT">>
        OBVIOUS
      <4> QED BY <4>1, <2>2, <3>3, <1>13 DEF PollRevoke
    <3>5. /\ revoked' = revoked \cup {snapshot}
          /\ QJ' = QJ /\ RJ' = RJ /\ FJ' = FJ /\ WJ' = WJ /\ EJ' = EJ
          /\ Apart(qwenQueue)' /\ Distinct(resultQueue)' /\ Distinct(fetched)'
          /\ UNCHANGED <<accepted, refused, job, workerPc, workerJob, closed, burst>>
      BY <2>2, <1>13, <1>s DEF PollRevoke, MarkRevoked
    <3>6. Places'
      BY <3>5, Shrinks
    <3>7. InFlight' = InFlight
      BY <3>5, <1>i
    <3>8. /\ answers'[snapshot] = <<"TIMED_OUT">> /\ Len(answers'[snapshot]) = 1
          /\ \A r \in Request \ {snapshot} : answers'[r] = answers[r]
          /\ <<"TIMED_OUT">> # <<>>
      BY <3>4, <3>2 DEF TypeOK
    <3>9. Ledger'
      <4>0. snapshot \in accepted
        BY <3>2, <1>i, <1>l
      <4>1. ASSUME NEW r \in Request
            PROVE  Len(answers'[r]) <= 1 /\ (r \notin accepted => answers'[r] = <<>>)
        <5>1. CASE r = snapshot
          BY <5>1, <4>0, <3>8
        <5>2. CASE r # snapshot
          <6>1. answers'[r] = answers[r]
            BY <5>2, <3>8
          <6>2. Len(answers[r]) <= 1 /\ (r \notin accepted => answers[r] = <<>>)
            BY DEF Ledger
          <6> QED BY <6>1, <6>2
        <5> QED BY <5>1, <5>2
      <4>2. \A r \in InFlight : r \notin revoked' => answers'[r] = <<>>
        BY <3>5, <3>8, <1>l, <1>i, <1>n DEF Ledger
      <4>3. \A r \in revoked' : answers'[r] = <<"TIMED_OUT">>
        BY <3>5, <3>8, <1>n DEF Ledger
      <4>4. revoked' \cap (QJ' \cup EJ') = {}
        BY <3>2, <3>5, <1>l
      <4> QED BY <4>1, <4>2, <4>3, <4>4, <3>1, <3>5, <3>7, <1>l, <1>i DEF Ledger
    <3>10. Kept'
      BY <3>2, <3>5, <3>7, <3>8, <1>n DEF Kept, Calm
    <3> QED BY <3>6, <3>9, <3>10
  <2> QED BY <2>1, <2>2
<1>14. CASE PollDrain
  <2>1. CASE resultQueue = <<>>
    BY <2>1, <1>14, <1>0, <1>s, <1>l DEF PollDrain
  <2>2. CASE resultQueue # <<>>
    <3> DEFINE x == Head(resultQueue)
    <3>1. /\ x \in Result /\ x.job \in RJ
          /\ RJ' = RJ \ {x.job} /\ Distinct(resultQueue)'
      BY <2>2, <1>14, ResultsMove DEF PollDrain
    <3>2. x.job \notin FJ /\ FJ' = FJ \cup {x.job} /\ Distinct(fetched)'
      <4>1. x.job \notin FJ
        BY <3>1 DEF Places
      <4> QED BY <4>1, <2>2, <3>1, <1>14, FetchedMove DEF PollDrain
    <3>3. /\ QJ' = QJ /\ WJ' = WJ /\ EJ' = EJ /\ Apart(qwenQueue)'
          /\ UNCHANGED <<accepted, refused, answers, revoked, job, workerPc, workerJob, closed>>
      BY <1>14, <1>s DEF PollDrain
    <3> HIDE DEF x
    <3>4. Places'
      BY <3>1, <3>2, <3>3 DEF Places
    <3>5. InFlight' = InFlight /\ revoked \cap (QJ' \cup EJ') = {}
      BY <3>1, <3>2, <3>3, <1>i, <1>l
    <3> QED BY <3>3, <3>4, <3>5, <1>000, <1>l
  <2> QED BY <2>1, <2>2
<1>15. CASE PollJudge
  <2> DEFINE x == Head(fetched).job
  <2>1. x \in Request /\ x \in FJ /\ FJ' = FJ \ {x} /\ Distinct(fetched)'
    BY <1>15, FetchedMove DEF PollJudge, Result
  <2>2. /\ QJ' = QJ /\ RJ' = RJ /\ WJ' = WJ /\ EJ' = EJ
        /\ Apart(qwenQueue)' /\ Distinct(resultQueue)'
        /\ UNCHANGED <<accepted, refused, job, workerPc, workerJob, closed, burst>>
    BY <1>15, <1>s DEF PollJudge
  <2>3. /\ x \in revoked => revoked' = revoked \ {x} /\ answers' = answers
        /\ x \notin revoked =>
             /\ revoked' = revoked
             /\ \E a \in Verdicts(Head(fetched)) :
                  answers' = [answers EXCEPT ![x] = Append(@, a)]
    BY <1>15 DEF PollJudge, IsRevoked, RetireMarker
  <2> HIDE DEF x
  <2>4. Places'
    BY <2>1, <2>2, Shrinks
  <2>5. InFlight' = InFlight \ {x} /\ x \in InFlight
    BY <2>1, <2>2, <1>i DEF Places
  <2>6. CASE x \in revoked
    <3>1. answers[x] = <<"TIMED_OUT">> /\ <<"TIMED_OUT">> # <<>>
      BY <2>6 DEF Ledger
    <3>2. Ledger'
      BY <2>2, <2>3, <2>5, <2>6, <1>l DEF Ledger
    <3>3. Kept'
      BY <2>2, <2>3, <2>5, <2>6, <3>1 DEF Kept, Calm
    <3> QED BY <2>4, <3>2, <3>3
  <2>7. CASE x \notin revoked
    <3>1. answers[x] = <<>>
      BY <2>5, <2>7 DEF Ledger
    <3>2. PICK a : answers' = [answers EXCEPT ![x] = Append(@, a)]
      BY <2>3, <2>7
    <3>3. answers' = [answers EXCEPT ![x] = <<a>>]
      <4>1. Append(<<>>, a) = <<a>>
        OBVIOUS
      <4> QED BY <4>1, <3>1, <3>2
    <3>4. /\ answers'[x] = <<a>> /\ Len(answers'[x]) = 1 /\ answers'[x] # <<>>
          /\ \A r \in Request \ {x} : answers'[r] = answers[r]
      <4>1. answers'[x] = <<a>> /\ \A r \in Request \ {x} : answers'[r] = answers[r]
        BY <3>3, <2>1 DEF TypeOK
      <4>2. Len(<<a>>) = 1 /\ <<a>> # <<>>
        OBVIOUS
      <4> QED BY <4>1, <4>2
    <3>5. Ledger'
      <4>0. x \in accepted
        BY <2>5, <1>i, <1>l
      <4>1. ASSUME NEW r \in Request
            PROVE  Len(answers'[r]) <= 1 /\ (r \notin accepted => answers'[r] = <<>>)
        <5>1. CASE r = x
          BY <5>1, <4>0, <3>4
        <5>2. CASE r # x
          <6>1. answers'[r] = answers[r]
            BY <5>2, <3>4
          <6>2. Len(answers[r]) <= 1 /\ (r \notin accepted => answers[r] = <<>>)
            BY DEF Ledger
          <6> QED BY <6>1, <6>2
        <5> QED BY <5>1, <5>2
      <4>2. \A r \in InFlight' : r \notin revoked => answers'[r] = <<>>
        BY <3>4, <2>5, <1>l, <1>i, <1>n DEF Ledger
      <4>3. \A r \in revoked : answers'[r] = <<"TIMED_OUT">>
        BY <3>4, <2>7, <1>n DEF Ledger
      <4> QED BY <4>1, <4>2, <4>3, <2>2, <2>3, <2>5, <2>7, <1>l, <1>i DEF Ledger
    <3>6. Kept'
      BY <3>4, <2>2, <2>3, <2>5, <2>7, <1>n DEF Kept, Calm
    <3> QED BY <2>4, <3>5, <3>6
  <2> QED BY <2>6, <2>7
<1>16. CASE PollReturn
  BY <1>16, <1>0, <1>s, <1>l DEF PollReturn
<1>17. CASE WorkerGet
  <2>1. CASE Head(qwenQueue) = Sentinel
    <3>1. QJ' = QJ /\ Apart(qwenQueue)'
      BY <2>1, <1>17, JobsMove DEF WorkerGet
    <3> QED BY <3>1, <2>1, <1>17, <1>0, <1>s, <1>l DEF WorkerGet
  <2>2. CASE Head(qwenQueue) # Sentinel
    <3> DEFINE x == Head(qwenQueue)
    <3>1. x \in QJ /\ QJ' = QJ \ {x} /\ Apart(qwenQueue)'
      BY <2>2, <1>17, JobsMove DEF WorkerGet
    <3>2. WJ = {} /\ WJ' = {x} /\ workerJob' = x
      BY <2>2, <3>1, <1>17, <1>e, <1>l, <1>n DEF WorkerGet, WJ
    <3>3. /\ RJ' = RJ /\ FJ' = FJ /\ EJ' = EJ /\ Distinct(resultQueue)' /\ Distinct(fetched)'
          /\ UNCHANGED <<accepted, refused, answers, revoked, job, closed>>
      BY <1>17, <1>s DEF WorkerGet
    <3> HIDE DEF x
    <3>4. Places'
      BY <3>1, <3>2, <3>3 DEF Places
    <3>5. /\ InFlight' = InFlight /\ revoked \cap (QJ' \cup EJ') = {}
          /\ workerJob' \notin revoked
      BY <3>1, <3>2, <3>3, <1>i, <1>l
    <3> QED BY <3>3, <3>4, <3>5, <1>000
  <2> QED BY <2>1, <2>2
<1>18. CASE WorkerClaim
  <2>1. CASE closed
    BY <2>1, <1>18, <1>00, <1>s, <1>l DEF WorkerClaim
  <2>2. CASE ~closed
    BY <2>2, <1>18, <1>0, <1>s, <1>l DEF WorkerClaim
  <2> QED BY <2>1, <2>2
<1>19. CASE WorkerInfer
  BY <1>19, <1>0, <1>s, <1>l DEF WorkerInfer
<1>20. CASE WorkerFinish
  <2>1. CASE closed
    BY <2>1, <1>20, <1>00, <1>s, <1>l DEF WorkerFinish
  <2>2. CASE ~closed
    BY <2>2, <1>20, <1>0, <1>s, <1>l DEF WorkerFinish
  <2> QED BY <2>1, <2>2
<1>21. CASE WorkerPublish
  <2>1. CASE closed
    BY <2>1, <1>21, <1>00, <1>s, <1>l DEF WorkerPublish
  <2>2. CASE ~closed
    BY <2>2, <1>21, <1>0, <1>s, <1>l DEF WorkerPublish
  <2> QED BY <2>1, <2>2
\* The worker's job becomes a result.
<1>p. ASSUME workerPc \in {"insert", "reinsert"}, workerPc' = "get",
             resultQueue' = Append(resultQueue, workerResult), workerJob' = None,
             UNCHANGED <<qwenQueue, callerVars, accepted, refused, answers, revoked, closed>>
      PROVE  Goal
  <2>1. /\ workerJob \in Request /\ workerResult \in Result /\ workerResult.job = workerJob
    BY <1>p, <1>h, <1>e
  <2>2. WJ = {workerJob} /\ WJ' = {} /\ workerJob \notin RJ
    BY <2>1, <1>p, <1>e, <1>n, <1>s DEF Places
  <2>3. RJ' = RJ \cup {workerJob} /\ Distinct(resultQueue)'
    BY <1>p, <2>1, <2>2, ResultsMove
  <2>4. /\ QJ' = QJ /\ FJ' = FJ /\ EJ' = EJ /\ Apart(qwenQueue)' /\ Distinct(fetched)'
    BY <1>p, <1>s
  <2>5. Places'
    BY <2>2, <2>3, <2>4 DEF Places
  <2>6. InFlight' = InFlight /\ revoked \cap (QJ' \cup EJ') = {}
    BY <2>2, <2>3, <2>4, <1>i, <1>l
  <2> QED BY <2>5, <2>6, <1>p, <1>000
<1>22. CASE WorkerInsert
  <2>1. CASE ~ResultQueueFull
    BY <2>1, <1>22, <1>p DEF WorkerInsert
  <2>2. CASE ResultQueueFull
    BY <2>2, <1>22, <1>0, <1>s, <1>l DEF WorkerInsert
  <2> QED BY <2>1, <2>2
<1>23. CASE WorkerMakeRoom
  <2>1. RJ' \subseteq RJ /\ Distinct(resultQueue)'
    BY <1>23, <1>s, ResultsMove DEF WorkerMakeRoom
  <2> QED BY <2>1, <1>23, <1>00, <1>d, <1>s, <1>l DEF WorkerMakeRoom
<1>24. CASE WorkerReinsert
  <2>1. CASE ~ResultQueueFull
    BY <2>1, <1>24, <1>p DEF WorkerReinsert
  <2>2. CASE ResultQueueFull
    BY <2>2, <1>24, <1>00, <1>d, <1>s, <1>l DEF WorkerReinsert
  <2> QED BY <2>1, <2>2
<1>25. CASE CloseBegin
  BY <1>25, <1>0, <1>s, <1>l DEF CloseBegin
<1>26. CASE CloseSentinel
  <2>1. QJ' = QJ /\ Apart(qwenQueue)'
    BY <1>26, <1>s, JobsMove DEF CloseSentinel
  <2> QED BY <2>1, <1>26, <1>0, <1>s, <1>l DEF CloseSentinel
<1>27. CASE CloseMakeRoom
  <2>1. QJ' \subseteq QJ /\ Apart(qwenQueue)'
    BY <1>27, <1>s, JobsMove DEF CloseMakeRoom
  <2> QED BY <2>1, <1>27, <1>00, <1>h, <1>s, <1>l DEF CloseMakeRoom
<1>28. CASE CloseResend
  <2>1. QJ' = QJ /\ Apart(qwenQueue)'
    BY <1>28, <1>s, JobsMove DEF CloseResend
  <2> QED BY <2>1, <1>28, <1>0, <1>s, <1>l DEF CloseResend
<1>29. ASSUME NEW r \in Request, DeadlinePasses(r) PROVE Goal
  BY <1>29, <1>0, <1>s, <1>l DEF DeadlinePasses
<1>30. ASSUME NEW r \in Request, TimeoutElapses(r) PROVE Goal
  BY <1>30, <1>0, <1>s, <1>l DEF TimeoutElapses
<1>31. CASE UNCHANGED vars
  BY <1>31, <1>0, <1>s, <1>l DEF vars
<1> QED
  BY <1>1, <1>2, <1>3, <1>4, <1>5, <1>6, <1>7, <1>8, <1>9, <1>10, <1>11, <1>12, <1>13, <1>14,
     <1>15, <1>16, <1>17, <1>18, <1>19, <1>20, <1>21, <1>22, <1>23, <1>24, <1>25, <1>26, <1>27,
     <1>28, <1>29, <1>30, <1>31
  DEF Next, Submit, Poll, Worker, WorkerBookkeeping, Close, Clock

\* The inductive invariant.
THEOREM AnswerInvCorrect == Spec => []AnswerInv
<1>1. Init => AnswerInv
  <2> SUFFICES ASSUME Init PROVE Places /\ Hands /\ Ledger /\ Kept /\ Slot /\ BacklogInv
    BY DEF AnswerInv
  <2>1. BacklogInv
    BY QueueAssumption, InitTyped
    DEF Init, BacklogInv, BacklogBounded, NothingDropped, WorkerSurvives,
        ResultCapacity, Committed, Prospective,
        CallerPutting, WorkerPutting, CallerHolds, WorkerHolds
  <2>2. QJ = {} /\ RJ = {} /\ FJ = {} /\ WJ = {} /\ EJ = {}
    BY DEF Init, QJ, Queued, RJ, FJ, JobsOf, WJ, EJ
  <2>3. Places
    BY <2>2 DEF Init, Places, Apart, Distinct
  <2>4. InFlight = {}
    BY <2>2, InFlightIs
  <2>5. Ledger /\ Kept
    BY <2>2, <2>4, ValueAssumption DEF Init, Ledger, Kept
  <2>6. Hands /\ Slot
    BY DEF Init, Hands, Slot, ActiveSlot
  <2> QED BY <2>1, <2>3, <2>5, <2>6
<1>2. ASSUME AnswerInv, [Next]_vars PROVE AnswerInv'
  <2>1. (TypeOK /\ Held)'
    BY <1>2, TypeStep DEF AnswerInv, BacklogInv
  <2>2. (Calm => BacklogBounded)'
    BY <1>2, BacklogStep DEF AnswerInv
  <2>3. (NothingDropped /\ WorkerSurvives)'
    BY <1>2, HealthStep DEF AnswerInv, NothingDropped, WorkerSurvives
  <2>4. Places' /\ Ledger' /\ Kept'
    BY <1>2, PlacesStep DEF AnswerInv, BacklogInv
  <2>5. Hands'
    BY <1>2, HandsStep DEF AnswerInv, BacklogInv
  <2>6. Slot'
    BY <1>2, SlotStep DEF AnswerInv, BacklogInv
  <2> QED BY <2>1, <2>2, <2>3, <2>4, <2>5, <2>6 DEF AnswerInv, BacklogInv
<1> QED
  BY <1>1, <1>2, PTL DEF Spec

\* For every set of commands, queue size and interleaving: no command is answered twice;
\* without a flood, and while open, none vanishes and no revocation marker outlives its
\* work; and the active slot is never taken by the timeout of another job.
THEOREM AnsweringCorrect == Spec => []Answering
<1>1. AnswerInv => Answering
  BY DEF AnswerInv, BacklogInv, TypeOK, Answering, AnsweredOnce, NothingLost, MarkersRetire,
         Ledger, Kept, Slot
<1> QED
  BY <1>1, AnswerInvCorrect, PTL
-----------------------------------------------------------------------------
(* The latest command: what is full gives up what is oldest.                *)

\* A job queue without the sentinel.
Jobs(q) == \A i \in DOMAIN q : q[i] # Sentinel

\* While open, the job queue has no sentinel and ends in the latest command, and a worker
\* that holds an older one still has it to come, unless the caller has just displaced it;
\* a caller with a displaced job to report holds an older one, and if the latest is already
\* a result it is the newest; making room, it finds the result queue as good as full.
Newest ==
  ~closed =>
    /\ latest \in accepted \cup {None}
    /\ callerPc # "restore" /\ Jobs(qwenQueue)
    /\ qwenQueue # <<>> => qwenQueue[Len(qwenQueue)] = latest
    /\ workerJob \notin {None, latest} => qwenQueue # <<>> \/ evicted = latest
    /\ callerPc \in {"report", "insert", "makeroom", "reinsert"} =>
         /\ evicted # latest
         /\ latest \in RJ => resultQueue[Len(resultQueue)].job = latest
    /\ callerPc = "makeroom" =>
         Len(resultQueue) + (IF workerPc = "reinsert" THEN 1 ELSE 0) >= ResultCapacity

\* The last element of a queue is the one just appended.
LEMMA LastAppended ==
  ASSUME NEW S, NEW q \in Seq(S), NEW x \in S
  PROVE  Append(q, x) # <<>> /\ Append(q, x)[Len(Append(q, x))] = x
<1>1. Len(q) \in Nat /\ Append(q, x) \in Seq(S) /\ Len(Append(q, x)) = Len(q) + 1
  BY LenProperties, AppendProperties
<1>2. Append(q, x)[Len(q) + 1] = x
  BY AppendProperties
<1>3. Append(q, x) # <<>>
  BY <1>1, EmptySeq
<1> QED BY <1>1, <1>2, <1>3

\* Taking the head leaves the last element, unless it was the only one.
LEMMA LastKept ==
  ASSUME NEW S, NEW q \in Seq(S), q # <<>>
  PROVE  \/ Tail(q) = <<>> /\ Len(q) = 1 /\ q[Len(q)] = Head(q)
         \/ Tail(q) # <<>> /\ Tail(q)[Len(Tail(q))] = q[Len(q)]
<1>1. /\ Len(q) \in Nat /\ Len(q) # 0 /\ Head(q) = q[1]
      /\ Tail(q) \in Seq(S) /\ Len(Tail(q)) = Len(q) - 1
      /\ \A i \in 1..Len(Tail(q)) : Tail(q)[i] = q[i + 1]
  BY LenProperties, EmptySeq, HeadTailProperties
<1>2. CASE Len(q) = 1
  <2>1. Len(Tail(q)) = 0
    BY <1>1, <1>2
  <2> QED BY <2>1, <1>1, <1>2, EmptySeq
<1>3. CASE Len(q) # 1
  <2>1. Len(Tail(q)) \in 1..Len(Tail(q)) /\ Len(Tail(q)) # 0 /\ Len(Tail(q)) + 1 = Len(q)
    BY <1>1, <1>3
  <2>2. Tail(q)[Len(Tail(q))] = q[Len(q)]
    BY <2>1, <1>1
  <2>3. Tail(q) # <<>>
    BY <2>1, EmptySeq
  <2> QED BY <2>2, <2>3
<1> QED BY <1>2, <1>3

\* A result is never the latest command's while the worker is still busy with another or
\* the job queue holds one.
LEMMA PublishedIsLast ==
  ASSUME TypeOK, Places, Ledger, Newest, ~closed, latest \in RJ, evicted # latest
  PROVE  qwenQueue = <<>> /\ workerJob = None
<1>1. latest # None
  <2>1. RJ \subseteq Request
    BY InFlightIs DEF TypeOK, Ledger
  <2> QED BY <2>1, ValueAssumption
<1>2. qwenQueue = <<>>
  <2> SUFFICES ASSUME qwenQueue # <<>> PROVE FALSE
    OBVIOUS
  <2>1. qwenQueue[Len(qwenQueue)] = latest /\ latest # Sentinel
    <3>1. RJ \subseteq Request
      BY InFlightIs DEF TypeOK, Ledger
    <3> QED BY <3>1, ValueAssumption DEF Newest
  <2>2. Len(qwenQueue) \in DOMAIN qwenQueue
    <3>1. Len(qwenQueue) \in Nat /\ Len(qwenQueue) # 0 /\ DOMAIN qwenQueue = 1..Len(qwenQueue)
      BY LenProperties, EmptySeq DEF TypeOK
    <3> QED BY <3>1
  <2>3. latest \in QJ
    BY <2>1, <2>2 DEF QJ, Queued
  <2> QED BY <2>3 DEF Places
<1>3. workerJob # latest
  BY <1>1 DEF Places, WJ
<1> QED BY <1>2, <1>3 DEF Newest

\* Every step keeps the newest work at the end of the queues.
LEMMA NewestStep ==
  ASSUME TypeOK, Held, Places, Hands, Ledger, Newest, [Next]_vars
  PROVE  Newest'
<1>l. /\ Len(qwenQueue) \in Nat /\ Len(resultQueue) \in Nat /\ ResultCapacity \in Nat
      /\ ResultCapacity >= 4 /\ ResultCapacity' = ResultCapacity
  BY LenProperties, QueueAssumption DEF TypeOK, ResultCapacity
<1>n. /\ None \notin Request /\ Sentinel \notin Request /\ None # Sentinel
      /\ accepted \subseteq Request /\ RJ \subseteq accepted
      /\ workerJob \in accepted \cup {None} /\ evicted \in accepted \cup {None}
      /\ job \notin accepted /\ InFlight \subseteq accepted
  BY ValueAssumption, InFlightIs DEF TypeOK, Ledger, WJ, EJ
<1>q. qwenQueue # <<>> =>
        \/ /\ Tail(qwenQueue) = <<>> /\ qwenQueue[Len(qwenQueue)] = Head(qwenQueue)
        \/ /\ Tail(qwenQueue) # <<>>
           /\ Tail(qwenQueue)[Len(Tail(qwenQueue))] = qwenQueue[Len(qwenQueue)]
  BY LastKept DEF TypeOK
<1>t. qwenQueue # <<>> /\ Jobs(qwenQueue) => Head(qwenQueue) # Sentinel /\ Jobs(Tail(qwenQueue))
  <2> SUFFICES ASSUME qwenQueue # <<>>, Jobs(qwenQueue)
               PROVE  Head(qwenQueue) # Sentinel /\ Jobs(Tail(qwenQueue))
    OBVIOUS
  <2>1. /\ DOMAIN qwenQueue = 1..Len(qwenQueue) /\ Len(qwenQueue) # 0
        /\ Head(qwenQueue) = qwenQueue[1]
    BY LenProperties, EmptySeq, HeadTailProperties DEF TypeOK
  <2>2. /\ DOMAIN Tail(qwenQueue) = 1..(Len(qwenQueue) - 1)
        /\ \A i \in 1..(Len(qwenQueue) - 1) : Tail(qwenQueue)[i] = qwenQueue[i + 1]
    <3>1. /\ Tail(qwenQueue) \in Seq(Request \cup {Sentinel})
          /\ Len(Tail(qwenQueue)) = Len(qwenQueue) - 1
          /\ \A i \in 1..Len(Tail(qwenQueue)) : Tail(qwenQueue)[i] = qwenQueue[i + 1]
      BY HeadTailProperties DEF TypeOK
    <3> QED BY <3>1, LenProperties
  <2>3. 1 \in 1..Len(qwenQueue) /\ \A i \in 1..(Len(qwenQueue) - 1) : i + 1 \in 1..Len(qwenQueue)
    BY <2>1, <1>l
  <2> QED BY <2>1, <2>2, <2>3 DEF Jobs
<1>r. resultQueue # <<>> =>
        /\ Len(Tail(resultQueue)) = Len(resultQueue) - 1
        /\ \/ Tail(resultQueue) = <<>>
           \/ /\ Tail(resultQueue) # <<>>
              /\ Tail(resultQueue)[Len(Tail(resultQueue))] = resultQueue[Len(resultQueue)]
  BY LastKept, HeadTailProperties DEF TypeOK
<1>a. ASSUME job \in Request
      PROVE  /\ Append(qwenQueue, job) # <<>>
             /\ Append(qwenQueue, job)[Len(Append(qwenQueue, job))] = job
             /\ Jobs(qwenQueue) => Jobs(Append(qwenQueue, job))
  <2>1. qwenQueue \in Seq(Request \cup {Sentinel}) /\ job \in Request \cup {Sentinel}
    BY <1>a DEF TypeOK
  <2>2. Jobs(qwenQueue) => Jobs(Append(qwenQueue, job))
    <3>1. DOMAIN qwenQueue = 1..Len(qwenQueue)
      BY <2>1, LenProperties
    <3>2. /\ DOMAIN Append(qwenQueue, job) = 1..(Len(qwenQueue) + 1)
          /\ \A i \in 1..Len(qwenQueue) : Append(qwenQueue, job)[i] = qwenQueue[i]
          /\ Append(qwenQueue, job)[Len(qwenQueue) + 1] = job
      BY <2>1, AppendProperties, LenProperties
    <3>3. \A i \in 1..(Len(qwenQueue) + 1) : i \in 1..Len(qwenQueue) \/ i = Len(qwenQueue) + 1
      BY <1>l
    <3> QED BY <3>1, <3>2, <3>3, <1>a, <1>n DEF Jobs
  <2>3. /\ Append(qwenQueue, job) # <<>>
        /\ Append(qwenQueue, job)[Len(Append(qwenQueue, job))] = job
    BY <2>1, LastAppended
  <2> QED BY <2>2, <2>3
<1>p. ASSUME ~closed, latest \in RJ, evicted # latest
      PROVE  qwenQueue = <<>> /\ workerJob = None
  BY <1>p, PublishedIsLast
<1>s. /\ resultQueue' = resultQueue => RJ' = RJ
      /\ resultQueue # <<>> /\ resultQueue' = Tail(resultQueue) => RJ' \subseteq RJ
      /\ resultQueue' = <<>> => RJ' = {}
  <2>1. resultQueue' = <<>> => RJ' = {}
    BY DEF RJ, JobsOf
  <2> QED BY <2>1, ResultsMove
\* The worker puts its result.
<1>w. ASSUME workerResult \in Result, workerResult.job = workerJob, workerJob # None,
             resultQueue' = Append(resultQueue, workerResult)
      PROVE  /\ Len(resultQueue') = Len(resultQueue) + 1
             /\ ~closed /\ evicted # latest /\ latest \in RJ'
                  => resultQueue'[Len(resultQueue')].job = latest
  <2>1. /\ Len(resultQueue') = Len(resultQueue) + 1
        /\ resultQueue'[Len(resultQueue')] = workerResult
    BY <1>w, LastAppended, AppendProperties DEF TypeOK
  <2>2. RJ' = RJ \cup {workerJob}
    BY <1>w, AppendJobs DEF TypeOK, RJ
  <2>3. CASE latest = workerJob
    BY <2>1, <2>3, <1>w
  <2>4. CASE latest # workerJob
    BY <2>1, <2>2, <2>4, <1>w, <1>p
  <2> QED BY <2>1, <2>3, <2>4
<1> USE DEF Newest, queueVars, lockVars, callerVars, workerVars, clockVars, ledgerVars
\* Neither queue moves, the caller goes nowhere new and the worker at most lets go.
<1>0. ASSUME UNCHANGED <<resultQueue, qwenQueue, accepted, latest, evicted>>,
             workerJob' \in {workerJob, None}, closed => closed',
             callerPc' \in {"report", "insert", "makeroom", "reinsert"}
               => callerPc' = callerPc \/ (callerPc = "report" /\ callerPc' = "insert"),
             callerPc' = "restore" => callerPc = "restore",
             workerPc = "reinsert" => workerPc' = "reinsert"
      PROVE  Newest'
  <2>1. Jobs(qwenQueue) => Jobs(qwenQueue)'
    BY <1>0 DEF Jobs
  <2> QED BY <2>1, <1>0, <1>l, <1>n, <1>s
<1>1. ASSUME NEW r \in Request, SubmitRefused(r) PROVE Newest'
  BY <1>1, <1>0 DEF SubmitRefused
<1>2. ASSUME NEW r \in Request, SubmitBegin(r) PROVE Newest'
  BY <1>2, <1>0 DEF SubmitBegin
<1>3. ASSUME NEW r \in Request, DeadlinePasses(r) PROVE Newest'
  BY <1>3, <1>0 DEF DeadlinePasses
<1>4. ASSUME NEW r \in Request, TimeoutElapses(r) PROVE Newest'
  BY <1>4, <1>0 DEF TimeoutElapses
<1>5. CASE SubmitPut
  <2>1. CASE JobQueueFull
    BY <2>1, <1>5, <1>0 DEF SubmitPut
  <2>2. CASE ~JobQueueFull
    <3>1. job \in Request
      BY <1>5 DEF Held, SubmitPut
    <3>2. /\ qwenQueue' # <<>> /\ qwenQueue'[Len(qwenQueue')] = latest'
          /\ latest' \in accepted' /\ callerPc' = "idle" /\ (~closed' => Jobs(qwenQueue)')
      BY <3>1, <2>2, <1>5, <1>a DEF SubmitPut, Jobs
    <3> QED BY <3>2
  <2> QED BY <2>1, <2>2
<1>6. CASE SubmitEvict
  <2>1. CASE qwenQueue = <<>>
    BY <2>1, <1>6, <1>0 DEF SubmitEvict
  <2>2. CASE qwenQueue # <<>> /\ Head(qwenQueue) = Sentinel
    BY <2>2, <1>6, <1>t DEF SubmitEvict
  <2>3. CASE qwenQueue # <<>> /\ Head(qwenQueue) # Sentinel
    BY <2>3, <1>6, <1>q, <1>t, <1>n DEF SubmitEvict
  <2> QED BY <2>1, <2>2, <2>3
<1>7. CASE SubmitRestore
  BY <1>7 DEF SubmitRestore
<1>8. CASE SubmitReput
  <2>1. CASE JobQueueFull
    BY <2>1, <1>8 DEF SubmitReput, Hands
  <2>2. CASE ~JobQueueFull
    <3>1. job \in Request /\ evicted # None
      BY <1>8, <1>n DEF Held, SubmitReput
    <3>2. /\ qwenQueue' # <<>> /\ qwenQueue'[Len(qwenQueue')] = latest'
          /\ latest' = job /\ accepted' = accepted \cup {job} /\ callerPc' = "report"
          /\ evicted' = evicted /\ resultQueue' = resultQueue
          /\ ~closed' => Jobs(qwenQueue)'
      BY <3>1, <2>2, <1>8, <1>a DEF SubmitReput, Jobs
    <3>3. evicted # job /\ job \notin RJ'
      BY <3>1, <3>2, <1>n, <1>s
    <3> QED BY <3>2, <3>3
  <2> QED BY <2>1, <2>2
<1>9. CASE SubmitReport
  BY <1>9, <1>l, <1>n, <1>s DEF SubmitReport
<1>10. CASE SubmitInsert
  BY <1>10, <1>l, <1>n, <1>s DEF SubmitInsert, ResultQueueFull
<1>11. CASE SubmitMakeRoom
  BY <1>11, <1>l, <1>n, <1>s, <1>r DEF SubmitMakeRoom
<1>12. CASE SubmitReinsert
  BY <1>12, <1>l, <1>n DEF SubmitReinsert
<1>13. CASE PollBegin
  BY <1>13, <1>l, <1>n DEF PollBegin
<1>14. CASE PollInspect
  BY <1>14, <1>0 DEF PollInspect
<1>15. CASE PollRevoke
  BY <1>15, <1>0 DEF PollRevoke
<1>16. CASE PollDrain
  BY <1>16, <1>l, <1>n DEF PollDrain
<1>17. CASE PollJudge
  BY <1>17, <1>0 DEF PollJudge
<1>18. CASE PollReturn
  BY <1>18, <1>0 DEF PollReturn
<1>19. CASE WorkerGet
  BY <1>19, <1>q, <1>t, <1>n, <1>s, <1>l DEF WorkerGet
<1>20. CASE WorkerClaim
  BY <1>20, <1>0 DEF WorkerClaim
<1>21. CASE WorkerInfer
  BY <1>21, <1>0 DEF WorkerInfer
<1>22. CASE WorkerFinish
  BY <1>22, <1>0 DEF WorkerFinish
<1>23. CASE WorkerPublish
  BY <1>23, <1>0 DEF WorkerPublish
<1>24. CASE WorkerInsert
  <2>h. workerResult \in Result /\ workerResult.job = workerJob /\ workerJob # None
    BY <1>24, <1>n DEF WorkerInsert, Held, Hands
  <2>1. CASE ResultQueueFull
    BY <2>1, <1>24, <1>0 DEF WorkerInsert
  <2>2. CASE ~ResultQueueFull
    BY <2>2, <2>h, <1>24, <1>w, <1>l, <1>n DEF WorkerInsert
  <2> QED BY <2>1, <2>2
<1>25. CASE WorkerMakeRoom
  <2>1. CASE resultQueue = <<>>
    <3>1. Len(resultQueue) = 0
      BY <2>1
    <3>2. /\ UNCHANGED <<resultQueue, qwenQueue, accepted, latest, evicted, workerJob, callerPc,
                         closed>>
          /\ workerPc = "makeroom"
          /\ Jobs(qwenQueue) => Jobs(qwenQueue)'
      BY <2>1, <1>25 DEF WorkerMakeRoom, Jobs
    <3> QED BY <3>1, <3>2, <1>l, <1>s
  <2>2. CASE resultQueue # <<>>
    <3>1. /\ Len(resultQueue') = Len(resultQueue) - 1 /\ RJ' \subseteq RJ
          /\ UNCHANGED <<qwenQueue, accepted, latest, evicted, workerJob, callerPc, closed>>
          /\ workerPc = "makeroom" /\ workerPc' = "reinsert" /\ workerJob # None
      <4>1. resultQueue' = Tail(resultQueue)
        BY <2>2, <1>25 DEF WorkerMakeRoom
      <4>2. workerJob # None
        BY <1>25, <1>n DEF WorkerMakeRoom, Held
      <4>3. RJ' \subseteq RJ
        BY <4>1, <2>2, <1>s
      <4>4. Len(Tail(resultQueue)) = Len(resultQueue) - 1
        BY <2>2, <1>r
      <4> QED BY <4>1, <4>2, <4>3, <4>4, <1>25 DEF WorkerMakeRoom
    <3>2. ~closed /\ evicted # latest => latest \notin RJ'
      BY <3>1, <1>p
    <3>3. Jobs(qwenQueue) => Jobs(qwenQueue)'
      BY <3>1 DEF Jobs
    <3> QED BY <3>1, <3>2, <3>3, <1>l
  <2> QED BY <2>1, <2>2
<1>26. CASE WorkerReinsert
  <2>h. workerResult \in Result /\ workerResult.job = workerJob /\ workerJob # None
    BY <1>26, <1>n DEF WorkerReinsert, Held, Hands
  <2>1. CASE ResultQueueFull
    BY <2>1, <1>26, <1>l, <1>n, <1>s DEF WorkerReinsert, ResultQueueFull
  <2>2. CASE ~ResultQueueFull
    BY <2>2, <2>h, <1>26, <1>w, <1>l, <1>n DEF WorkerReinsert
  <2> QED BY <2>1, <2>2
<1>27. CASE CloseBegin
  BY <1>27 DEF CloseBegin
<1>28. CASE CloseSentinel
  BY <1>28 DEF CloseSentinel, Held
<1>29. CASE CloseMakeRoom
  BY <1>29 DEF CloseMakeRoom, Held
<1>30. CASE CloseResend
  BY <1>30 DEF CloseResend, Held
<1>31. CASE UNCHANGED vars
  BY <1>31, <1>0 DEF vars
<1> QED
  BY <1>1, <1>2, <1>3, <1>4, <1>5, <1>6, <1>7, <1>8, <1>9, <1>10, <1>11, <1>12, <1>13,
     <1>14, <1>15, <1>16, <1>17, <1>18, <1>19, <1>20, <1>21, <1>22, <1>23, <1>24, <1>25,
     <1>26, <1>27, <1>28, <1>29, <1>30, <1>31
  DEF Next, Submit, Poll, Worker, WorkerBookkeeping, Close, Clock

\* Every step leaves the latest command where it will be answered.
LEMMA LatestStep ==
  ASSUME TypeOK, Held, Places, Hands, Ledger, Newest, LatestKept, [Next]_vars
  PROVE  LatestKept'
<1>i. /\ InFlight = QJ \cup RJ \cup FJ \cup WJ \cup EJ
      /\ InFlight' = QJ' \cup RJ' \cup FJ' \cup WJ' \cup EJ'
  BY DEF InFlight, QueuedJobs, QJ, RJ, FJ, WJ, EJ, Queued
<1>n. None \notin Request /\ Sentinel \notin Request /\ None # Sentinel
  BY ValueAssumption
<1>s. /\ qwenQueue' = qwenQueue => QJ' = QJ
      /\ qwenQueue # <<>> /\ qwenQueue' = Tail(qwenQueue) => QJ' = QJ \ {Head(qwenQueue)}
      /\ job \in Request /\ qwenQueue' = Append(qwenQueue, job) => job \in QJ'
      /\ resultQueue' = resultQueue => RJ' = RJ
      /\ resultQueue # <<>> /\ resultQueue' = Tail(resultQueue)
           => RJ' = RJ \ {Head(resultQueue).job}
      /\ fetched' = fetched => FJ' = FJ
      /\ fetched # <<>> /\ fetched' = Tail(fetched) => FJ' = FJ \ {Head(fetched).job}
      /\ workerJob' = workerJob => WJ' = WJ
      /\ evicted' = evicted => EJ' = EJ
  <2>1. job \in Request => job \notin QJ
    BY InFlightIs DEF Ledger
  <2> QED BY <2>1, JobsMove, ResultsMove, FetchedMove DEF WJ, EJ
<1>r. ASSUME NEW x \in Result, resultQueue' = Append(resultQueue, x)
      PROVE  RJ' = RJ \cup {x.job}
  BY <1>r, AppendJobs DEF TypeOK, RJ
<1>f. ASSUME NEW x \in Result, fetched' = Append(fetched, x)
      PROVE  FJ' = FJ \cup {x.job}
  BY <1>f, AppendJobs DEF TypeOK, FJ
<1>a. \A r \in Request : \A v \in Answer :
        [answers EXCEPT ![r] = Append(@, v)][r] # <<>>
  <2> SUFFICES ASSUME NEW r \in Request, NEW v \in Answer
               PROVE  [answers EXCEPT ![r] = Append(@, v)][r] # <<>>
    OBVIOUS
  <2>1. answers[r] \in Seq(Answer) /\ DOMAIN answers = Request
    BY DEF TypeOK
  <2>2. Append(answers[r], v) # <<>>
    BY <2>1, LastAppended
  <2> QED BY <2>1, <2>2
<1> USE DEF queueVars, lockVars, callerVars, workerVars, clockVars, ledgerVars
\* The command keeps its place, or moves to another.
<1>0. ASSUME UNCHANGED <<latest, answers>>, workerPc = "dead" => workerPc' = "dead",
             closed => closed', latest # None /\ latest \in InFlight => latest \in InFlight'
      PROVE  LatestKept'
  BY <1>0 DEF LatestKept
\* It is answered.
<1>00. ASSUME NEW r \in Request, NEW v \in Answer, latest' = latest,
              answers' = [answers EXCEPT ![r] = Append(@, v)],
              workerPc' = workerPc, closed' = closed,
              latest \in InFlight /\ latest # r => latest \in InFlight'
       PROVE  LatestKept'
  <2>1. answers'[r] # <<>> /\ \A q \in Request \ {r} : answers'[q] = answers[q]
    BY <1>00, <1>a DEF TypeOK
  <2> QED BY <2>1, <1>00 DEF LatestKept, TypeOK
<1>1. ASSUME NEW r \in Request, SubmitRefused(r) PROVE LatestKept'
  BY <1>1, <1>0, <1>i, <1>s DEF SubmitRefused
<1>2. ASSUME NEW r \in Request, SubmitBegin(r) PROVE LatestKept'
  BY <1>2, <1>0, <1>i, <1>s DEF SubmitBegin
<1>3. ASSUME NEW r \in Request, DeadlinePasses(r) PROVE LatestKept'
  BY <1>3, <1>0, <1>i, <1>s DEF DeadlinePasses
<1>4. ASSUME NEW r \in Request, TimeoutElapses(r) PROVE LatestKept'
  BY <1>4, <1>0, <1>i, <1>s DEF TimeoutElapses
<1>j. ASSUME job \in Request, qwenQueue' = Append(qwenQueue, job), latest' = job
      PROVE  LatestKept'
  BY <1>j, <1>i, <1>s DEF LatestKept
<1>5. CASE SubmitPut
  <2>1. CASE JobQueueFull
    BY <2>1, <1>5, <1>0, <1>i, <1>s DEF SubmitPut
  <2>2. CASE ~JobQueueFull
    BY <2>2, <1>5, <1>j DEF SubmitPut, Held
  <2> QED BY <2>1, <2>2
<1>6. CASE SubmitEvict
  <2>1. CASE qwenQueue = <<>>
    BY <2>1, <1>6, <1>0, <1>i, <1>s DEF SubmitEvict
  <2>2. CASE qwenQueue # <<>>
    <3>1. QJ' = QJ \ {Head(qwenQueue)}
      BY <2>2, <1>6, <1>s DEF SubmitEvict
    <3>2. latest # Sentinel
      BY <1>n DEF TypeOK
    <3>3. EJ = {}
      BY <1>6 DEF SubmitEvict, Hands, EJ
    <3>4. CASE Head(qwenQueue) = Sentinel
      BY <3>1, <3>2, <3>4, <2>2, <1>6, <1>0, <1>i, <1>s DEF SubmitEvict
    <3>5. CASE Head(qwenQueue) # Sentinel
      <4>1. EJ' = {Head(qwenQueue)} \ {None}
        BY <3>5, <2>2, <1>6 DEF SubmitEvict, EJ
      <4> QED BY <3>1, <3>3, <4>1, <2>2, <1>6, <1>0, <1>i, <1>s DEF SubmitEvict
    <3> QED BY <3>4, <3>5
  <2> QED BY <2>1, <2>2
<1>7. CASE SubmitRestore
  BY <1>7 DEF SubmitRestore, Newest, LatestKept
<1>8. CASE SubmitReput
  <2>1. CASE JobQueueFull
    BY <2>1, <1>8 DEF SubmitReput, Hands, LatestKept
  <2>2. CASE ~JobQueueFull
    BY <2>2, <1>8, <1>j DEF SubmitReput, Held
  <2> QED BY <2>1, <2>2
<1>9. CASE SubmitReport
  <2>1. CASE closed
    BY <2>1, <1>9 DEF SubmitReport, LatestKept
  <2>2. CASE ~closed
    BY <2>2, <1>9, <1>0, <1>i, <1>s DEF SubmitReport
  <2> QED BY <2>1, <2>2
\* The displaced job is not the latest.
<1>e. ASSUME callerPc \in {"insert", "reinsert"}, ~closed PROVE latest \notin EJ
  BY <1>e DEF Newest, EJ
<1>o. evicted \in Request => OverflowResult \in Result /\ OverflowResult.job = evicted
  BY DEF OverflowResult, Result
<1>10. CASE SubmitInsert
  <2>1. CASE ResultQueueFull
    BY <2>1, <1>10, <1>0, <1>i, <1>s DEF SubmitInsert
  <2>2. CASE ~ResultQueueFull
    <3>1. RJ' = RJ \cup {evicted}
      BY <2>2, <1>10, <1>o, <1>r DEF SubmitInsert, Held
    <3> QED BY <3>1, <2>2, <1>10, <1>0, <1>i, <1>s DEF SubmitInsert, EJ
  <2> QED BY <2>1, <2>2
<1>11. CASE SubmitMakeRoom
  <2>1. CASE resultQueue = <<>>
    BY <2>1, <1>11, <1>0, <1>i, <1>s DEF SubmitMakeRoom
  <2>2. CASE resultQueue # <<>> /\ ~closed
    <3>1. Head(resultQueue).job # latest
      <4> SUFFICES ASSUME Head(resultQueue).job = latest PROVE FALSE
        OBVIOUS
      <4>1. /\ Len(resultQueue) \in Nat /\ Len(resultQueue) # 0 /\ Head(resultQueue) = resultQueue[1]
            /\ DOMAIN resultQueue = 1..Len(resultQueue)
        BY <2>2, LenProperties, EmptySeq, HeadTailProperties DEF TypeOK
      <4>2. Len(resultQueue) >= 2
        <5>1. ResultCapacity \in Nat /\ ResultCapacity >= 4
          BY QueueAssumption DEF ResultCapacity
        <5>2. Len(resultQueue) + (IF workerPc = "reinsert" THEN 1 ELSE 0) >= ResultCapacity
          BY <2>2, <1>11 DEF SubmitMakeRoom, Newest
        <5> QED BY <5>1, <5>2, <4>1
      <4>3. latest \in RJ
        BY <2>2, ResultsMove
      <4>4. resultQueue[Len(resultQueue)].job = latest
        BY <4>3, <2>2, <1>11 DEF SubmitMakeRoom, Newest
      <4>5. 1 \in DOMAIN resultQueue /\ Len(resultQueue) \in DOMAIN resultQueue
        BY <4>1, <4>2
      <4>6. 1 = Len(resultQueue)
        BY <4>1, <4>4, <4>5 DEF Places, Distinct
      <4>7. \A k \in Nat : k >= 2 => 1 # k
        OBVIOUS
      <4> QED BY <4>1, <4>2, <4>6, <4>7
    <3>2. RJ' = RJ \ {Head(resultQueue).job}
      BY <2>2, <1>11, <1>s DEF SubmitMakeRoom
    <3> QED BY <3>1, <3>2, <1>11, <1>0, <1>i, <1>s DEF SubmitMakeRoom
  <2>3. CASE closed
    BY <2>3, <1>11 DEF SubmitMakeRoom, LatestKept
  <2> QED BY <2>1, <2>2, <2>3
<1>12. CASE SubmitReinsert
  <2>1. CASE closed
    BY <2>1, <1>12 DEF SubmitReinsert, LatestKept
  <2>2. CASE ~closed
    <3>1. RJ \subseteq RJ'
      BY <1>12, <1>o, <1>r, <1>s DEF SubmitReinsert, Held
    <3>2. latest \notin EJ
      BY <2>2, <1>12, <1>e DEF SubmitReinsert
    <3> QED BY <3>1, <3>2, <1>12, <1>0, <1>i, <1>s DEF SubmitReinsert
  <2> QED BY <2>1, <2>2
<1>13. CASE PollBegin
  <2>1. CASE resultQueue' = resultQueue /\ fetched' = fetched
    BY <2>1, <1>13, <1>0, <1>i, <1>s DEF PollBegin
  <2>2. CASE resultQueue # <<>> /\ fetched' = <<Head(resultQueue)>> /\ resultQueue' = Tail(resultQueue)
    <3>1. RJ' = RJ \ {Head(resultQueue).job} /\ FJ' = {Head(resultQueue).job}
      BY <2>2, <1>s, ResultsMove, FetchedMove
    <3>2. FJ = {}
      BY <1>13 DEF PollBegin, Hands, FJ, JobsOf
    <3> QED BY <3>1, <3>2, <1>13, <1>0, <1>i, <1>s DEF PollBegin
  <2> QED BY <2>1, <2>2, <1>13 DEF PollBegin
<1>14. CASE PollInspect
  BY <1>14, <1>0, <1>i, <1>s DEF PollInspect
<1>15. CASE PollRevoke
  <2>1. CASE StillActive
    <3>1. snapshot \in Request
      BY <1>15 DEF PollRevoke, Hands, TypeOK
    <3> QED BY <2>1, <3>1, <1>15, <1>00, <1>i, <1>s DEF PollRevoke, Answer
  <2>2. CASE ~StillActive
    BY <2>2, <1>15, <1>0, <1>i, <1>s DEF PollRevoke
  <2> QED BY <2>1, <2>2
<1>16. CASE PollDrain
  <2>1. CASE resultQueue = <<>>
    BY <2>1, <1>16, <1>0, <1>i, <1>s DEF PollDrain
  <2>2. CASE resultQueue # <<>>
    <3>1. /\ RJ' = RJ \ {Head(resultQueue).job}
          /\ FJ' = FJ \cup {Head(resultQueue).job}
      BY <2>2, <1>16, <1>s, <1>f, ResultsMove DEF PollDrain
    <3> QED BY <3>1, <2>2, <1>16, <1>0, <1>i, <1>s DEF PollDrain
  <2> QED BY <2>1, <2>2
<1>17. CASE PollJudge
  <2> DEFINE r == Head(fetched).job
  <2>1. Head(fetched) \in Result /\ r \in FJ /\ FJ' = FJ \ {r}
    BY <1>17, <1>s, FetchedMove DEF PollJudge
  <2>2. r \in Request
    BY <2>1 DEF Result
  <2>3. CASE IsRevoked(r)
    <3>1. answers[r] # <<>>
      <4>1. answers[r] = <<"TIMED_OUT">>
        BY <2>3 DEF IsRevoked, Ledger
      <4> QED BY <4>1
    <3>2. /\ latest' = latest /\ answers' = answers /\ workerPc' = workerPc /\ closed' = closed
          /\ QJ' = QJ /\ RJ' = RJ /\ WJ' = WJ /\ EJ' = EJ
      BY <2>3, <1>17, <1>s DEF PollJudge
    <3> QED BY <3>1, <3>2, <2>1, <1>i DEF LatestKept
  <2>4. CASE ~IsRevoked(r)
    <3>1. /\ latest' = latest /\ workerPc' = workerPc /\ closed' = closed
          /\ QJ' = QJ /\ RJ' = RJ /\ WJ' = WJ /\ EJ' = EJ
      BY <2>4, <1>17, <1>s DEF PollJudge
    <3>2. Verdicts(Head(fetched)) \subseteq Answer
      BY <2>1, OutcomeAssumption DEF Result, Verdicts, Answer
    <3>3. PICK v \in Verdicts(Head(fetched)) : answers' = [answers EXCEPT ![r] = Append(@, v)]
      BY <2>4, <1>17 DEF PollJudge
    <3>4. v \in Answer
      BY <3>2, <3>3
    <3>5. latest \in InFlight /\ latest # r => latest \in InFlight'
      BY <3>1, <2>1, <1>i
    <3> HIDE DEF r
    <3> QED BY <3>1, <3>3, <3>4, <3>5, <2>2, <1>00
  <2> QED BY <2>3, <2>4
<1>18. CASE PollReturn
  BY <1>18, <1>0, <1>i, <1>s DEF PollReturn
<1>19. CASE WorkerGet
  <2>1. QJ' = QJ \ {Head(qwenQueue)} /\ WJ = {} /\ latest # Sentinel
    BY <1>19, <1>s, <1>n DEF WorkerGet, Hands, WJ, TypeOK
  <2>2. CASE Head(qwenQueue) = Sentinel
    BY <2>1, <2>2, <1>19, <1>0, <1>i, <1>s DEF WorkerGet
  <2>3. CASE Head(qwenQueue) # Sentinel
    <3>1. WJ' = {Head(qwenQueue)} \ {None}
      BY <2>3, <1>19 DEF WorkerGet, WJ
    <3> QED BY <2>1, <3>1, <1>19, <1>0, <1>i, <1>s DEF WorkerGet
  <2> QED BY <2>2, <2>3
<1>20. CASE WorkerClaim
  <2>1. CASE closed
    BY <2>1, <1>20 DEF WorkerClaim, LatestKept
  <2>2. CASE ~closed
    BY <2>2, <1>20, <1>0, <1>i, <1>s DEF WorkerClaim
  <2> QED BY <2>1, <2>2
<1>21. CASE WorkerInfer
  BY <1>21, <1>0, <1>i, <1>s DEF WorkerInfer
<1>22. CASE WorkerFinish
  <2>1. CASE closed
    BY <2>1, <1>22 DEF WorkerFinish, LatestKept
  <2>2. CASE ~closed
    BY <2>2, <1>22, <1>0, <1>i, <1>s DEF WorkerFinish
  <2> QED BY <2>1, <2>2
<1>23. CASE WorkerPublish
  <2>1. CASE closed
    BY <2>1, <1>23 DEF WorkerPublish, LatestKept
  <2>2. CASE ~closed
    BY <2>2, <1>23, <1>0, <1>i, <1>s DEF WorkerPublish
  <2> QED BY <2>1, <2>2
\* The worker's result takes its job along.
<1>w. ASSUME workerPc \in {"insert", "reinsert"}, resultQueue' = Append(resultQueue, workerResult)
      PROVE  RJ' = RJ \cup {workerJob}
  BY <1>w, <1>r DEF Held, Hands
<1>24. CASE WorkerInsert
  <2>1. CASE ResultQueueFull
    BY <2>1, <1>24, <1>0, <1>i, <1>s DEF WorkerInsert
  <2>2. CASE ~ResultQueueFull
    <3>1. RJ' = RJ \cup {workerJob}
      BY <2>2, <1>24, <1>w DEF WorkerInsert
    <3> QED BY <3>1, <2>2, <1>24, <1>0, <1>i, <1>s DEF WorkerInsert, WJ
  <2> QED BY <2>1, <2>2
<1>25. CASE WorkerMakeRoom
  <2>1. CASE resultQueue = <<>>
    BY <2>1, <1>25, <1>0, <1>i, <1>s DEF WorkerMakeRoom
  <2>2. CASE resultQueue # <<>> /\ ~closed
    <3>1. latest # None => latest \notin RJ
      <4> SUFFICES ASSUME latest # None, latest \in RJ PROVE FALSE
        OBVIOUS
      <4>1. evicted # latest
        BY DEF Places, EJ
      <4>2. workerJob = None
        BY <4>1, <2>2, PublishedIsLast
      <4> QED BY <4>2, <1>25, <1>n DEF WorkerMakeRoom, Held
    <3>2. RJ' = RJ \ {Head(resultQueue).job}
      BY <2>2, <1>25, <1>s DEF WorkerMakeRoom
    <3> QED BY <3>1, <3>2, <1>25, <1>0, <1>i, <1>s DEF WorkerMakeRoom
  <2>3. CASE closed
    BY <2>3, <1>25 DEF WorkerMakeRoom, LatestKept
  <2> QED BY <2>1, <2>2, <2>3
<1>26. CASE WorkerReinsert
  <2>1. CASE ResultQueueFull
    BY <2>1, <1>26 DEF WorkerReinsert, LatestKept
  <2>2. CASE ~ResultQueueFull
    <3>1. RJ' = RJ \cup {workerJob}
      BY <2>2, <1>26, <1>w DEF WorkerReinsert
    <3> QED BY <3>1, <2>2, <1>26, <1>0, <1>i, <1>s DEF WorkerReinsert, WJ
  <2> QED BY <2>1, <2>2
<1>27. CASE CloseBegin
  BY <1>27 DEF CloseBegin, LatestKept
<1>28. CASE CloseSentinel
  BY <1>28 DEF CloseSentinel, Held, LatestKept
<1>29. CASE CloseMakeRoom
  BY <1>29 DEF CloseMakeRoom, Held, LatestKept
<1>30. CASE CloseResend
  BY <1>30 DEF CloseResend, Held, LatestKept
<1>31. CASE UNCHANGED vars
  BY <1>31, <1>0, <1>i, <1>s DEF vars
<1> QED
  BY <1>1, <1>2, <1>3, <1>4, <1>5, <1>6, <1>7, <1>8, <1>9, <1>10, <1>11, <1>12, <1>13,
     <1>14, <1>15, <1>16, <1>17, <1>18, <1>19, <1>20, <1>21, <1>22, <1>23, <1>24, <1>25,
     <1>26, <1>27, <1>28, <1>29, <1>30, <1>31
  DEF Next, Submit, Poll, Worker, WorkerBookkeeping, Close, Clock

\* For every set of commands, queue size and length of burst, flooded or not: while open,
\* the latest command that entered the job queue is answered, or still on its way, or the
\* worker is dead.
THEOREM LatestIsKept == Spec => []LatestKept
<1>1. Init => Newest /\ LatestKept
  BY DEF Init, Newest, Jobs, LatestKept
<1>2. AnswerInv /\ Newest /\ LatestKept /\ [Next]_vars => (Newest /\ LatestKept)'
  BY NewestStep, LatestStep DEF AnswerInv, BacklogInv
<1> QED
  BY <1>1, <1>2, AnswerInvCorrect, PTL DEF Spec
-----------------------------------------------------------------------------
(* The threads and queues implement RequestLifecycle.                      *)

LEMMA StatusIs ==
  ASSUME NEW r \in Request
  PROVE  /\ answers[r] # <<>> => StatusOf(r) = answers[r][Len(answers[r])]
         /\ answers[r] = <<>> /\ r \in accepted => StatusOf(r) = "pending"
         /\ answers[r] = <<>> /\ r \notin accepted /\ r \in refused => StatusOf(r) = "refused"
         /\ answers[r] = <<>> /\ r \notin accepted /\ r \notin refused => StatusOf(r) = "new"
  BY DEF StatusOf

LEMMA StatusIsNext ==
  ASSUME NEW r \in Request
  PROVE  /\ answers'[r] # <<>> => StatusOf(r)' = answers'[r][Len(answers'[r])]
         /\ answers'[r] = <<>> /\ r \in accepted' => StatusOf(r)' = "pending"
         /\ answers'[r] = <<>> /\ r \notin accepted' /\ r \in refused' => StatusOf(r)' = "refused"
         /\ answers'[r] = <<>> /\ r \notin accepted' /\ r \notin refused' => StatusOf(r)' = "new"
  BY DEF StatusOf

LEMMA StatusKept ==
  ASSUME NEW r \in Request, answers'[r] = answers[r],
         r \in accepted' <=> r \in accepted, r \in refused' <=> r \in refused
  PROVE  StatusOf(r)' = StatusOf(r)
<1>1. CASE answers[r] # <<>>
  BY <1>1, StatusIs, StatusIsNext
<1>2. CASE answers[r] = <<>> /\ r \in accepted
  BY <1>2, StatusIs, StatusIsNext
<1>3. CASE answers[r] = <<>> /\ r \notin accepted /\ r \in refused
  BY <1>3, StatusIs, StatusIsNext
<1>4. CASE answers[r] = <<>> /\ r \notin accepted /\ r \notin refused
  BY <1>4, StatusIs, StatusIsNext
<1> QED BY <1>1, <1>2, <1>3, <1>4

\* Every step of caller, worker, close() and clock is one step of the abstract lifecycle
\* or none.
LEMMA LifecycleStep ==
  ASSUME AnswerInv, [Next]_vars
  PROVE  [Promise!Next]_(Promise!vars)
<1> DEFINE st == [r \in Request |-> StatusOf(r)]
           Goal == Promise!Next \/ UNCHANGED <<st, ~closed>>
<1> SUFFICES Goal
  BY DEF Promise!vars
<1>v. st' = [r \in Request |-> StatusOf(r)']
  OBVIOUS
<1>a. /\ accepted \subseteq Request /\ refused \subseteq Request
      /\ answers \in [Request -> Seq(Answer)] /\ closed \in BOOLEAN
      /\ callerPc \in {"put", "evict", "restore", "reput"} => job \in Request
      /\ accepted \cap refused = {} /\ job \notin accepted \cup refused
      /\ \A r \in Request : r \notin accepted => answers[r] = <<>>
  BY DEF AnswerInv, BacklogInv, TypeOK, Held, Ledger
<1>0. ASSUME UNCHANGED <<accepted, refused, answers, closed>> PROVE Goal
  <2>1. \A r \in Request : StatusOf(r)' = StatusOf(r)
    BY <1>0, StatusKept
  <2>2. st' = st
    BY <2>1, <1>v
  <2> QED BY <1>0, <2>2
<1>u. ASSUME NEW x \in Request, NEW v, StatusOf(x)' = v,
             \A r \in Request \ {x} : StatusOf(r)' = StatusOf(r)
      PROVE  st' = [st EXCEPT ![x] = v]
  BY <1>u, <1>v
\* Turned away.
<1>r. ASSUME NEW x \in Request, x \notin accepted \cup refused, refused' = refused \cup {x},
             UNCHANGED <<accepted, answers, closed>>
      PROVE  Goal
  <2>1. answers[x] = <<>>
    BY <1>r, <1>a
  <2>2. StatusOf(x) = "new" /\ StatusOf(x)' = "refused"
    BY <2>1, <1>r, StatusIs, StatusIsNext
  <2>3. \A r \in Request \ {x} : StatusOf(r)' = StatusOf(r)
    BY <1>r, StatusKept
  <2>4. st[x] = "new" /\ st' = [st EXCEPT ![x] = "refused"]
    BY <2>2, <2>3, <1>u
  <2> QED BY <2>4, <1>r DEF Promise!Next, Promise!Refuse
\* Accepted.
<1>q. ASSUME NEW x \in Request, x \notin accepted \cup refused, accepted' = accepted \cup {x},
             UNCHANGED <<refused, answers, closed>>
      PROVE  Goal
  <2>1. answers[x] = <<>>
    BY <1>q, <1>a
  <2>2. StatusOf(x) = "new" /\ StatusOf(x)' = "pending"
    BY <2>1, <1>q, StatusIs, StatusIsNext
  <2>3. \A r \in Request \ {x} : StatusOf(r)' = StatusOf(r)
    BY <1>q, StatusKept
  <2>4. st[x] = "new" /\ st' = [st EXCEPT ![x] = "pending"]
    BY <2>2, <2>3, <1>u
  <2> QED BY <2>4, <1>q DEF Promise!Next, Promise!Accept
\* Answered.
<1>w. ASSUME NEW x \in accepted, NEW v \in Answer, answers[x] = <<>>,
             answers' = [answers EXCEPT ![x] = Append(@, v)],
             UNCHANGED <<accepted, refused, closed>>
      PROVE  Goal
  <2>1. answers'[x] = <<v>> /\ \A r \in Request \ {x} : answers'[r] = answers[r]
    <3>1. Append(<<>>, v) = <<v>>
      OBVIOUS
    <3> QED BY <3>1, <1>w, <1>a
  <2>2. <<v>> # <<>> /\ <<v>>[Len(<<v>>)] = v
    OBVIOUS
  <2>3. StatusOf(x) = "pending" /\ StatusOf(x)' = v
    BY <2>1, <2>2, <1>w, <1>a, StatusIs, StatusIsNext
  <2>4. \A r \in Request \ {x} : StatusOf(r)' = StatusOf(r)
    BY <2>1, <1>w, StatusKept
  <2>5. st[x] = "pending" /\ st' = [st EXCEPT ![x] = v]
    BY <2>3, <2>4, <1>u, <1>a
  <2> QED BY <2>5, <1>w, <1>a DEF Promise!Next, Promise!Reply
<1> USE DEF queueVars, lockVars, callerVars, workerVars, clockVars, ledgerVars
<1>1. ASSUME NEW r \in Request, SubmitRefused(r) PROVE Goal
  BY <1>1, <1>r DEF SubmitRefused, New
<1>2. CASE SubmitPut
  BY <1>2, <1>0, <1>q, <1>a DEF SubmitPut
<1>3. CASE SubmitRestore
  BY <1>3, <1>r, <1>a DEF SubmitRestore
<1>4. CASE SubmitReput
  BY <1>4, <1>r, <1>q, <1>a DEF SubmitReput
<1>5. CASE PollRevoke
  <2>1. CASE ~StillActive
    BY <2>1, <1>5, <1>0 DEF PollRevoke
  <2>2. CASE StillActive
    <3>1. /\ snapshot = activeJob /\ snapshot # None
          /\ workerJob = snapshot /\ snapshot \notin revoked
      BY <2>2, <1>5 DEF PollRevoke, StillActive, AnswerInv, Hands, Slot, ActiveSlot
    <3>2. snapshot \in InFlight
      BY <3>1, InFlightIs DEF WJ
    <3>3. snapshot \in accepted /\ answers[snapshot] = <<>>
      BY <3>1, <3>2 DEF AnswerInv, Ledger
    <3> QED BY <3>3, <2>2, <1>5, <1>w DEF PollRevoke, Answer
  <2> QED BY <2>1, <2>2
<1>6. CASE PollJudge
  <2>1. Head(fetched).job \in InFlight /\ Head(fetched) \in Result
    BY <1>6, FetchedMove, InFlightIs DEF PollJudge, AnswerInv, BacklogInv
  <2>2. Head(fetched).job \in accepted
    BY <2>1 DEF AnswerInv, Ledger
  <2>3. CASE Head(fetched).job \in revoked
    BY <2>3, <1>6, <1>0 DEF PollJudge, IsRevoked
  <2>4. CASE Head(fetched).job \notin revoked
    <3>1. answers[Head(fetched).job] = <<>>
      BY <2>1, <2>4 DEF AnswerInv, Ledger
    <3>2. PICK v \in Verdicts(Head(fetched)) :
            answers' = [answers EXCEPT ![Head(fetched).job] = Append(@, v)]
      BY <2>4, <1>6 DEF PollJudge, IsRevoked
    <3>3. v \in Answer
      BY <2>1, OutcomeAssumption DEF Verdicts, Answer, Result
    <3> QED BY <3>1, <3>2, <3>3, <2>2, <1>6, <1>w DEF PollJudge
  <2> QED BY <2>3, <2>4
<1>7. CASE CloseBegin
  <2>1. \A r \in Request : StatusOf(r)' = StatusOf(r)
    BY <1>7, StatusKept DEF CloseBegin
  <2>2. st' = st
    BY <2>1, <1>v
  <2> QED BY <2>2, <1>7, <1>a DEF CloseBegin, Promise!Next, Promise!Close
<1>8. ASSUME NEW r \in Request, SubmitBegin(r) PROVE Goal
  BY <1>8, <1>0 DEF SubmitBegin
<1>9. ASSUME NEW r \in Request, DeadlinePasses(r) PROVE Goal
  BY <1>9, <1>0 DEF DeadlinePasses
<1>10. ASSUME NEW r \in Request, TimeoutElapses(r) PROVE Goal
  BY <1>10, <1>0 DEF TimeoutElapses
<1>11. CASE SubmitEvict
  BY <1>11, <1>0 DEF SubmitEvict
<1>12. CASE SubmitReport
  BY <1>12, <1>0 DEF SubmitReport
<1>13. CASE SubmitInsert
  BY <1>13, <1>0 DEF SubmitInsert
<1>14. CASE SubmitMakeRoom
  BY <1>14, <1>0 DEF SubmitMakeRoom
<1>15. CASE SubmitReinsert
  BY <1>15, <1>0 DEF SubmitReinsert
<1>16. CASE PollBegin
  BY <1>16, <1>0 DEF PollBegin
<1>17. CASE PollInspect
  BY <1>17, <1>0 DEF PollInspect
<1>18. CASE PollDrain
  BY <1>18, <1>0 DEF PollDrain
<1>19. CASE PollReturn
  BY <1>19, <1>0 DEF PollReturn
<1>20. CASE WorkerGet
  BY <1>20, <1>0 DEF WorkerGet
<1>21. CASE WorkerClaim
  BY <1>21, <1>0 DEF WorkerClaim
<1>22. CASE WorkerInfer
  BY <1>22, <1>0 DEF WorkerInfer
<1>23. CASE WorkerFinish
  BY <1>23, <1>0 DEF WorkerFinish
<1>24. CASE WorkerPublish
  BY <1>24, <1>0 DEF WorkerPublish
<1>25. CASE WorkerInsert
  BY <1>25, <1>0 DEF WorkerInsert
<1>26. CASE WorkerMakeRoom
  BY <1>26, <1>0 DEF WorkerMakeRoom
<1>27. CASE WorkerReinsert
  BY <1>27, <1>0 DEF WorkerReinsert
<1>28. CASE CloseSentinel
  BY <1>28, <1>0 DEF CloseSentinel
<1>29. CASE CloseMakeRoom
  BY <1>29, <1>0 DEF CloseMakeRoom
<1>30. CASE CloseResend
  BY <1>30, <1>0 DEF CloseResend
<1>31. CASE UNCHANGED vars
  BY <1>31, <1>0 DEF vars
<1> QED
  BY <1>1, <1>2, <1>3, <1>4, <1>5, <1>6, <1>7, <1>8, <1>9, <1>10, <1>11, <1>12, <1>13, <1>14,
     <1>15, <1>16, <1>17, <1>18, <1>19, <1>20, <1>21, <1>22, <1>23, <1>24, <1>25, <1>26,
     <1>27, <1>28, <1>29, <1>30, <1>31
  DEF Next, Submit, Poll, Worker, WorkerBookkeeping, Close, Clock

\* The orchestrator takes only the steps its abstract lifecycle allows, for every set of
\* commands, queue size, interleaving and outcome of inference: a command is refused or
\* accepted once, answered at most once and only after it was accepted, and close() alone
\* closes.  In a flood this holds too.
THEOREM LifecycleCorrect == Spec => Lifecycle
<1>1. Init => Promise!Init
  <2> SUFFICES ASSUME Init PROVE Promise!Init
    OBVIOUS
  <2>1. \A r \in Request : StatusOf(r) = "new"
    <3>1. \A r \in Request : answers[r] = <<>> /\ r \notin accepted /\ r \notin refused
      BY DEF Init
    <3> QED BY <3>1, StatusIs
  <2> QED BY <2>1 DEF Init, Promise!Init
<1>2. AnswerInv /\ [Next]_vars => [Promise!Next]_(Promise!vars)
  BY LifecycleStep
<1> QED
  BY <1>1, <1>2, AnswerInvCorrect, PTL DEF Spec, Lifecycle, Promise!Safety
=============================================================================
