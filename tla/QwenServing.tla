---------------------------- MODULE QwenServing ----------------------------
(***************************************************************************)
(* The two bounded model servers and what calls them: QwenDecisionService   *)
(* (src/qwen_service/service.py, behind server.py), QwenServiceRuntime      *)
(* (src/qwen_service/runtime.py), and the client of the first               *)
(* (src/qwen_service/client.py) inside the scenario's fault injector        *)
(* (src/integration/qwen_fault_injection.py).                               *)
(*                                                                          *)
(* A request is one call of infer() on a thread of its own.  It takes a     *)
(* slot, hands the inference to the executor and waits; a request that      *)
(* gives up leaves its inference running and its slot held until the        *)
(* inference is over.  An action is one lock region, one executor or        *)
(* semaphore operation, or the end of a wait.                               *)
(***************************************************************************)
EXTENDS Integers, FiniteSets

CONSTANTS
  Request,   \* calls, each by a thread of its own
  Slots      \* max_concurrency

ASSUME ServeAssumption == IsFiniteSet(Request) /\ Slots \in Nat

Judged   == {"READY", "INVALID", "FAILED", "TIMEOUT"}   \* an inference may raise TimeoutError
Outcomes == {"READY", "INVALID", "EXPIRED", "UNAVAILABLE", "BUSY", "TIMEOUT", "FAILED", "RAISED", "DROPPED"}

VARIABLES
  service,   \* "decision" or "runtime"
  at,        \* where each handler thread is
  job,       \* the future of each request
  hooked,    \* the requests whose future releases the slot when it is done
  release,   \* how far the release of each request's slot has got
  free,      \* the value of the semaphore
  active,    \* _active, _in_flight
  total,     \* requests counted
  counts,    \* the outcome counters
  answer,    \* what each handler has replied, "NONE" before
  call,      \* where each caller is
  fault,     \* what the scenario does to each call
  stopping,  \* the runtime's _closed
  shut,      \* the executor has been shut down
  unloaded   \* the adapter has been closed

handlerVars == <<at, answer, total, counts>>
slotVars    == <<free, active, release>>
closeVars   == <<stopping, shut, unloaded>>
serveVars   == <<service, handlerVars, job, hooked, slotVars, call, fault, closeVars>>

ServeInit ==
  /\ service \in {"decision", "runtime"}
  /\ at = [r \in Request |-> "none"] /\ answer = [r \in Request |-> "NONE"]
  /\ job = [r \in Request |-> "none"] /\ hooked = {}
  /\ release = [r \in Request |-> "no"] /\ free = Slots /\ active = 0
  /\ total = 0 /\ counts = [o \in Outcomes |-> 0]
  /\ call = [r \in Request |-> "idle"]
  /\ fault \in [Request -> IF service = "decision" THEN {"NONE", "DELAY", "DISCONNECT", "TOKEN", "FIELD"}
                           ELSE {"NONE"}]
  /\ stopping = FALSE /\ shut = FALSE /\ unloaded = FALSE

Go(r, place) == at' = [at EXCEPT ![r] = place]
Reply(r, o)  == answer' = [answer EXCEPT ![r] = o] /\ Go(r, "done")
Tally(o)     == counts' = [counts EXCEPT ![o] = @ + 1]
-----------------------------------------------------------------------------
(* The caller: the injector, then the HTTP client.                         *)

Dial(r) ==
  /\ call[r] = "idle"
  /\ call' = [call EXCEPT ![r] =
       CASE fault[r] = "DISCONNECT" -> "ERROR"
         [] fault[r] = "TOKEN" -> "GARBLED"
         [] fault[r] = "DELAY" -> "asleep"
         [] OTHER -> "sent"]
  /\ IF fault[r] \in {"NONE", "FIELD"} THEN Go(r, "arrived") ELSE UNCHANGED at
  /\ UNCHANGED <<service, answer, total, counts, job, hooked, slotVars, fault, closeVars>>

\* The injected delay outlasts the deadline, and only then is the service called.
WakeUp(r) ==
  /\ call[r] = "asleep" /\ call' = [call EXCEPT ![r] = "sent"] /\ Go(r, "arrived")
  /\ UNCHANGED <<service, answer, total, counts, job, hooked, slotVars, fault, closeVars>>

\* urlopen gives up; the handler thread knows nothing of it.
HangUp(r) ==
  /\ call[r] = "sent" /\ call' = [call EXCEPT ![r] = "ERROR"]
  /\ UNCHANGED <<service, handlerVars, job, hooked, slotVars, fault, closeVars>>

\* Any reply but a plan is an HTTP error, which the client raises; a corrupted plan is returned.
Receive(r) ==
  /\ call[r] = "sent" /\ at[r] = "done"
  /\ call' = [call EXCEPT ![r] = IF answer[r] # "READY" THEN "ERROR"
                                 ELSE IF fault[r] = "FIELD" THEN "GARBLED" ELSE "READY"]
  /\ UNCHANGED <<service, handlerVars, job, hooked, slotVars, fault, closeVars>>
-----------------------------------------------------------------------------
(* The handler thread.                                                     *)

\* QwenDecisionService counts first and then looks at the request, its deadline and the backend.
DecisionArrives(r) ==
  /\ service = "decision" /\ at[r] = "arrived" /\ total' = total + 1
  /\ \/ \E o \in {"INVALID", "UNAVAILABLE"} : Tally(o) /\ Reply(r, o)
     \/ fault[r] = "DELAY" /\ Tally("EXPIRED") /\ Reply(r, "EXPIRED")
     \/ fault[r] # "DELAY" /\ Go(r, "admit") /\ UNCHANGED <<counts, answer>>
  /\ UNCHANGED <<service, job, hooked, slotVars, call, fault, closeVars>>

\* QwenServiceRuntime raises for a malformed request or a closed runtime before it counts.
RuntimeArrives(r) ==
  /\ service = "runtime" /\ at[r] = "arrived"
  /\ \/ Reply(r, "RAISED") /\ UNCHANGED total
     \/ ~stopping /\ total' = total + 1 /\ Go(r, "admit") /\ UNCHANGED answer
  /\ UNCHANGED <<service, counts, job, hooked, slotVars, call, fault, closeVars>>

\* The semaphore first, the counter after it, in lock regions of their own.
Admit(r) ==
  /\ at[r] = "admit"
  /\ IF free > 0 THEN free' = free - 1 /\ Go(r, "enter") ELSE Go(r, "busy") /\ UNCHANGED free
  /\ UNCHANGED <<service, answer, total, counts, job, hooked, active, release, call, fault, closeVars>>
RefuseBusyMutant(r) ==
  /\ at[r] = "busy" /\ Reply(r, "BUSY")
  /\ UNCHANGED <<service, total, counts, job, hooked, slotVars, call, fault, closeVars>>
RefuseBusy(r) ==
  /\ at[r] = "busy" /\ Tally("BUSY") /\ Reply(r, "BUSY")
  /\ UNCHANGED <<service, total, job, hooked, slotVars, call, fault, closeVars>>
Enter(r) ==
  /\ at[r] = "enter" /\ active' = active + 1 /\ Go(r, "submit")
  /\ UNCHANGED <<service, answer, total, counts, job, hooked, free, release, call, fault, closeVars>>

\* executor.submit raises once the executor is shut down, outside every handler of the code.
SubmitJob(r) ==
  /\ at[r] = "submit"
  /\ IF shut THEN Reply(r, "DROPPED") /\ UNCHANGED job
     ELSE /\ job' = [job EXCEPT ![r] = "queued"] /\ UNCHANGED answer
          /\ Go(r, IF service = "decision" THEN "hook" ELSE "wait")
  /\ UNCHANGED <<service, total, counts, hooked, slotVars, call, fault, closeVars>>

Over(r) == job[r] \in Judged \cup {"CANCELLED"}

\* add_done_callback: a future that is already done runs the callback in the caller.
Hook(r, next) ==
  /\ hooked' = hooked \cup {r}
  /\ release' = IF Over(r) THEN [release EXCEPT ![r] = "due"] ELSE release
  /\ Go(r, next)

DecisionHooks(r) ==
  /\ service = "decision" /\ at[r] = "hook" /\ Hook(r, "wait")
  /\ UNCHANGED <<service, answer, total, counts, job, free, active, call, fault, closeVars>>

\* future.result(): what the inference, or the cancellation, came to.
Verdict(r) == IF job[r] = "CANCELLED" THEN "FAILED" ELSE job[r]
GiveUpOrSee(r, o) == \/ o = "TIMEOUT" /\ ~Over(r)
                     \/ Over(r) /\ o = Verdict(r)

DecisionWaits(r) ==
  /\ service = "decision" /\ at[r] = "wait"
  /\ \E o \in Judged : GiveUpOrSee(r, o) /\ Tally(o) /\ Reply(r, o)
  /\ UNCHANGED <<service, total, job, hooked, slotVars, call, fault, closeVars>>

\* The runtime records, and a request that was answered releases its own slot.
RuntimeWaits(r) ==
  /\ service = "runtime" /\ at[r] = "wait"
  /\ \E o \in Judged :
       /\ GiveUpOrSee(r, o)
       /\ Tally(IF o = "INVALID" THEN "FAILED" ELSE o)
       /\ answer' = [answer EXCEPT ![r] = IF o = "INVALID" THEN "FAILED" ELSE o]
  /\ Go(r, "settle")
  /\ UNCHANGED <<service, total, job, hooked, slotVars, call, fault, closeVars>>
RuntimeSettles(r) ==
  /\ service = "runtime" /\ at[r] = "settle"
  /\ IF answer[r] = "TIMEOUT" THEN Hook(r, "leave")
     ELSE release' = [release EXCEPT ![r] = "due"] /\ Go(r, "leave") /\ UNCHANGED hooked
  /\ UNCHANGED <<service, answer, total, counts, job, free, active, call, fault, closeVars>>
RuntimeLeaves(r) ==
  /\ at[r] = "leave" /\ release[r] \notin {"due", "half"} /\ Go(r, "done")
  /\ UNCHANGED <<service, answer, total, counts, job, hooked, slotVars, call, fault, closeVars>>
-----------------------------------------------------------------------------
(* The executor, the release of a slot, and closing.                       *)

Occupied == {r \in Request : job[r] = "running"}
StartJob(r) ==
  /\ job[r] = "queued" /\ Cardinality(Occupied) < Slots
  /\ job' = [job EXCEPT ![r] = "running"]
  /\ UNCHANGED <<service, handlerVars, hooked, slotVars, call, fault, closeVars>>

FinishMutant(r, how) == job' = [job EXCEPT ![r] = how] /\ UNCHANGED release
Finish(r, how) ==
  /\ job' = [job EXCEPT ![r] = how]
  /\ release' = IF r \in hooked THEN [release EXCEPT ![r] = "due"] ELSE release
FinishJob(r) ==
  /\ job[r] = "running" /\ \E how \in Judged : Finish(r, how)
  /\ UNCHANGED <<service, handlerVars, hooked, free, active, call, fault, closeVars>>

\* _release_slot: the counter in its lock, then the semaphore.
ReleaseCount(r) ==
  /\ release[r] = "due" /\ active' = active - 1 /\ release' = [release EXCEPT ![r] = "half"]
  /\ UNCHANGED <<service, handlerVars, job, hooked, free, call, fault, closeVars>>
ReleaseSlot(r) ==
  /\ release[r] = "half" /\ free' = free + 1 /\ release' = [release EXCEPT ![r] = "done"]
  /\ UNCHANGED <<service, handlerVars, job, hooked, active, call, fault, closeVars>>

\* shutdown(cancel_futures=True): the queued futures are cancelled, and their callbacks run.
CloseRuntime ==
  /\ service = "runtime" /\ ~stopping /\ stopping' = TRUE
  /\ UNCHANGED <<service, handlerVars, job, hooked, slotVars, call, fault, shut, unloaded>>
Shutdown ==
  /\ ~shut /\ (service = "runtime" => stopping) /\ shut' = TRUE
  /\ LET dropped == {r \in Request : job[r] = "queued"}
     IN  /\ job' = [r \in Request |-> IF r \in dropped THEN "CANCELLED" ELSE job[r]]
         /\ release' = [r \in Request |-> IF r \in dropped \cap hooked THEN "due" ELSE release[r]]
  /\ UNCHANGED <<service, handlerVars, hooked, free, active, call, fault, stopping, unloaded>>
\* wait=True: the adapter is closed when the worker threads have come to an end.
Unload ==
  /\ service = "runtime" /\ shut /\ ~unloaded /\ Occupied = {} /\ unloaded' = TRUE
  /\ UNCHANGED <<service, handlerVars, job, hooked, slotVars, call, fault, stopping, shut>>
-----------------------------------------------------------------------------
Handles(r) ==
  \/ DecisionArrives(r) \/ RuntimeArrives(r) \/ Admit(r) \/ RefuseBusy(r) \/ Enter(r) \/ SubmitJob(r)
  \/ DecisionHooks(r) \/ DecisionWaits(r) \/ RuntimeWaits(r) \/ RuntimeSettles(r) \/ RuntimeLeaves(r)
Calls(r) == Dial(r) \/ WakeUp(r) \/ HangUp(r) \/ Receive(r)
Releases(r) == ReleaseCount(r) \/ ReleaseSlot(r)
ServeNext ==
  \/ \E r \in Request :
       Calls(r) \/ Handles(r) \/ StartJob(r) \/ FinishJob(r) \/ Releases(r)
  \/ CloseRuntime \/ Shutdown \/ Unload

\* Threads run and deadlines pass; whether an inference returns is another matter.
ServeFairness ==
  \A r \in Request : WF_serveVars(Handles(r)) /\ WF_serveVars(Releases(r)) /\ WF_serveVars(StartJob(r))
-----------------------------------------------------------------------------
ServeTypeOK ==
  /\ total \in 0 .. Cardinality(Request) /\ \A o \in Outcomes : counts[o] \in 0 .. total
  /\ \A r \in Request :
       /\ at[r] \in {"none", "arrived", "admit", "busy", "enter", "submit", "hook", "wait", "settle", "leave", "done"}
       /\ job[r] \in {"none", "queued", "running", "CANCELLED"} \cup Judged
       /\ answer[r] \in Outcomes \cup {"NONE"} /\ release[r] \in {"no", "due", "half", "done"}
       /\ call[r] \in {"idle", "asleep", "sent", "READY", "ERROR", "GARBLED"}

Admitted == {r \in Request : at[r] \in {"enter", "submit"} \/ job[r] # "none" \/ answer[r] = "DROPPED"}

\* Slots are neither lost nor invented: each admitted request holds one until it is released,
\* once, and a request that gave up keeps its slot for as long as its inference runs, so the
\* model is never asked to do more at a time than it has been given slots for.
SlotsBalance ==
  /\ free + Cardinality({r \in Admitted : release[r] # "done"}) = Slots
  /\ \A r \in Request : job[r] \in {"queued", "running"} => release[r] = "no"

\* The number of active requests that health and metrics report never exceeds the slots.
ActiveWithinSlots == active \in 0 .. Slots

Counted ==
  counts["READY"] + counts["INVALID"] + counts["EXPIRED"] + counts["UNAVAILABLE"] + counts["BUSY"]
    + counts["TIMEOUT"] + counts["FAILED"] + counts["RAISED"] + counts["DROPPED"]

\* The outcome counters and the requests still in hand always add up to the requests counted.
MetricsAddUp ==
  total = Counted + Cardinality({r \in Request :
     at[r] \in {"admit", "busy", "enter", "submit", "hook"} \/ (at[r] = "wait" /\ answer[r] = "NONE")
     \/ answer[r] = "DROPPED"})

\* The adapter is not closed under an inference that is still using it.
AdapterOutlivesInference == unloaded => Occupied = {}

\* Every request that arrives is replied to, though inference hang for ever or the service close.
EveryRequestAnswered == \A r \in Request : at[r] = "arrived" ~> at[r] = "done"

\* If every inference returns, every slot an inference held is given back.
SlotsReturn ==
  (\A r \in Request : WF_serveVars(FinishJob(r))) =>
    \A r \in Request : job[r] = "running" ~> release[r] = "done"

\* Slots, activity and counters always account for the same requests, and no inference
\* outlives its adapter.
ServiceAccounts ==
  SlotsBalance /\ ActiveWithinSlots /\ MetricsAddUp /\ AdapterOutlivesInference

\* Nobody waits for ever: not the caller for a reply, not the service for its slot.
NobodyWaitsForEver == EveryRequestAnswered /\ SlotsReturn
=============================================================================
