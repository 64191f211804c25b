SPECIFICATION MCSpec
CONSTANTS
  Request = {1, 2}
  QueueSize = 1
  Outcome = {"READY", "REJECTED", "ERROR"}
  MaxBurst = 2
  None = None
  Sentinel = Sentinel
INVARIANTS
  Answering
  NothingDropped
  LatestKept
PROPERTIES
  Lifecycle
  AnswersCome
