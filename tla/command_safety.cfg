CONSTANTS
  c1 = c1
  c2 = c2
  c3 = c3
  None = None
  Command = {c1, c2}
  Envelope <- MCDriving
  Speeds = {0, 1, 2}
  Default = 1
  Timeout = 3
  Redelivers = TRUE
SPECIFICATION Spec
INVARIANTS
  OneOwner
  EndedNeverReturns
  EndsAreReported
  StopMeansZero
  LatchBrakes
PROPERTIES
  ElapsedWins
  SpeedGoesWithItsCommand
