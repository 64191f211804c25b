CONSTANTS
  c1 = c1
  c2 = c2
  c3 = c3
  None = None
  Command = {c1, c2, c3}
  Envelope <- MCGated
  Speeds = {0, 1}
  Default = 1
  Timeout = 2
  Redelivers = FALSE
  Stories <- MCStories
  Contracts <- MCContracts
  Sayings <- MCSayings
  Confused <- MCConfused
  Trigger = 2
  EndSilence = 2
  MaxFrames = 6
  MinVoiced = 3
  PreRoll = 3
  SegmentLimit = 1
  MaxUtterances = 3
  Jobs <- MCJobs
  MaxRuns = 2
CHECK_DEADLOCK FALSE
SPECIFICATION MCSpec
INVARIANTS
  ConfirmingIsGated
  VoiceSound
PROPERTIES
  ScenarioSound
  CommandEnds
