CONSTANTS
  d1 = d1
  d2 = d2
  w1 = w1
  w2 = w2
  s1 = s1
  s2 = s2
  None = None
  NoPlan = NoPlan
  Driving = {d1, d2}
  Live = {d1, d2}
  Command = {w1, w2, s1, s2}
  WaitOf <- MCWaitOf
  StepOf <- MCStepOf
  Envelope <- MCEnvelope
  Plan <- MCPlan
  StepSpeed <- MCStepSpeed
  Speeds = {0, 1, 2}
  Default = 0
  Timeout = 1
  Cooldown = 1
  MaxReplans = 1
  Redelivers = FALSE
SPECIFICATION LoopSpec
CHECK_DEADLOCK FALSE
INVARIANT WaitHolds
VIEW MCView
