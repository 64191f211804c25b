-------------------------- MODULE RequestLifecycle --------------------------
(***************************************************************************)
(* What the slow path promises its caller, without queues or threads: a    *)
(* driving command is refused at the door or accepted, and an accepted     *)
(* command is answered exactly once as long as the orchestrator is open.   *)
(* SlowPath implements this specification (SlowPath!Lifecycle).            *)
(***************************************************************************)
CONSTANTS
  Request,     \* the driving commands a run submits
  Answer       \* the dispositions poll_slow can return for a command

VARIABLES
  status,      \* what the caller has been told about each command
  open         \* FALSE once the orchestrator has been closed

vars == <<status, open>>

TypeOK ==
  /\ status \in [Request -> {"new", "refused", "pending"} \cup Answer]
  /\ open \in BOOLEAN

Init ==
  /\ status = [r \in Request |-> "new"]
  /\ open = TRUE

\* The command is turned away before it can reach the model.
Refuse(r) ==
  /\ status[r] = "new"
  /\ status' = [status EXCEPT ![r] = "refused"]
  /\ UNCHANGED open

\* The command is queued; from here on the caller waits for its answer.
Accept(r) ==
  /\ status[r] = "new"
  /\ status' = [status EXCEPT ![r] = "pending"]
  /\ UNCHANGED open

\* The one answer.
Reply(r, a) ==
  /\ status[r] = "pending"
  /\ status' = [status EXCEPT ![r] = a]
  /\ UNCHANGED open

Close ==
  /\ open
  /\ open' = FALSE
  /\ UNCHANGED status

Next ==
  \/ \E r \in Request : Refuse(r) \/ Accept(r)
  \/ \E r \in Request, a \in Answer : Reply(r, a)
  \/ Close

\* While open, a pending command is not left waiting for ever.
Answering(r) == open /\ \E a \in Answer : Reply(r, a)

Safety  == Init /\ [][Next]_vars
Answers == \A r \in Request : WF_vars(Answering(r))

Spec == Safety /\ Answers
=============================================================================
