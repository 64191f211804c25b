----------------------------- MODULE MCSlowPath -----------------------------
(* The instance of SlowPath that TLC checks, at two paces: a few commands   *)
(* with everything that can happen to them, and a flood of commands from a  *)
(* caller that never lets the queues drain.  `pace` says which one runs.    *)
EXTENDS SlowPath

Flooded == INSTANCE SlowPath
             WITH Request <- 1..5, MaxBurst <- 5, Outcome <- {"READY"}

VARIABLE pace
paceVars == <<vars, pace>>

\* Commands differ in nothing but their names, so they are named as they are submitted.
InOrder == \A r \in DOMAIN answers, q \in DOMAIN answers : q < r /\ New(q)' => New(r)'

Flood == \/ \E r \in 1..5 : Flooded!SubmitBegin(r)
         \/ Flooded!SubmitContinues \/ Flooded!Poll \/ Flooded!Worker

MCInit == \/ pace = "calm" /\ Init
          \/ pace = "flood" /\ Flooded!Init
MCNext == /\ UNCHANGED pace
          /\ \/ pace = "calm" /\ Next
             \/ pace = "flood" /\ Flood
          /\ InOrder
MCSpec == /\ MCInit /\ [][MCNext]_paceVars
          /\ CallerFairness /\ WF_vars(WorkerBookkeeping)
=============================================================================
