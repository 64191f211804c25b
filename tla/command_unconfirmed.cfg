CONSTANTS
  c1 = c1
  c2 = c2
  c3 = c3
  None = None
  Command = {c1}
  Envelope <- MCHesitant
  Speeds = {0, 1}
  Default = 1
  Timeout = 3
  Redelivers = FALSE
SPECIFICATION Spec
PROPERTY NoUnconfirmedSuccess
