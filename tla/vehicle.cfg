SPECIFICATION MCSpec
CONSTANTS
  Module = {"perception", "control"}
  StaleAfter = 2
  StartupGrace = 1
  Horizon = 9
  Required = {"rgb", "lidar"}
  Optional = {"radar"}
  EventKind = {"collision", "lane_invasion"}
  MaxFrames = 1
  RetainFrames = 1
  LastFrame = 1
  MaxEvents = 2
  Ego = ego
  Streamed = {rgb, lidar}
  Event = {bump}
  None = None
  VruHold = 3
  Ranges = {60, 80, 600}
  Returns <- MCReturns
  Speeds = {10}
  Gaps = {1, 2}
  Class = {"car", "person"}
  Place = {0, 1}
  Distance = {20, 30}
  NoRange = NoRange
  MaxShift = 1
  RangeGate = 3
  FrameGap = 1
  MaxDetections = 2
  MaxIds = 4
  LastFrameNo = 3
  EgoSpeeds = {0, 4}
  Requests = {0, 4}
  Views <- MCViews
  LightRange = 9
  Leads <- MCLeads
  CurveCap = 4
  MaxAccel = 2
  MaxDecel = 4
  Comfortable = 2
  AccelStep = 1
  DecelStep = 2
  Delta = 60
  HoldLevel = 55
  EmergencyLevel = 100
  CreepSpeed = 1
  HoldDistance = 1
  HoldSpeed = 0
  GapAtRest = 2
  TimeGap = 1
  EmergencyTtc = 1
  Kp = 1
  Ki = 1
  Kd = 1
  IntegralLimit = 2
  TargetStep = 3
  Loop = 5
  Points = 7
  Window = 1
  Reacquire = 1
  CacheSize = 2
  Lookahead = 2
  Steers = {0, 2}
  MaxDelta = 1
  MaxDetour = 3
  MaxSources = 5
  Faults = {"conflict", "invalid", "steer"}
  Wanted <- MCWanted
  CapBrakes = {35, None}
  Confirmation = 2
  Cooldown = 4
  MaxAttempts = 2
  Orders = {0, 1}
  LastTime = 11
  Mission = 2
  Edges = {1, 2, 3, 4, 5, 6}
  Size <- MCSize
  Dir <- MCDir
  First <- MCFirst
  Row <- MCRow
  Follows <- MCFollows
  Markings <- MCMarkings
  Endpoints <- MCEndpoints
  RunUp = 1
  Change = 2
  Penalty = 13
  MaxGap = 3
  Expansions = 20
  Estimates <- MCEstimates
  Routes <- MCRoutes
  Backward = 3
  Forward = 7
  Behind = 2
  Before = 6
  RefreshMargin = 3
  FinishRadius = 2
  JumpGate = 2
  Contract = 10
  Roads = {1, 2, 3, 4, 5}
  Cells <- MCCells
  Onward <- MCOnward
  Starts <- MCStarts
  AskedDistance = 40
  Foresight = 8
  Tolerated <- MCTolerated
CHECK_DEADLOCK FALSE
INVARIANTS
  NothingLeftBehind
  LeadIsReal
  VruHoldLasts
  IdentityHolds
  AuthoritySound
PROPERTIES
  AlertIsLostTime
  SensorsReachTheLoop
  SpeedSound
  LateralSound
  RoutesSound
