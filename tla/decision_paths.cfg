SPECIFICATION MCSpec
CONSTANTS
  None = None
  lead = lead
  person = person
  ghost = ghost
  Situations <- MCSituations
  FreePlans <- MCFreePlans
  Sightings <- MCSightings
  TopK = 1
  MaxSpeed = 14
  near = near
  far = far
  r1 = r1
  r2 = r2
  r3 = r3
  MaxRequests = 3
  Ttl = 2
  Asked <- MCAsked
  Composed <- MCComposed
  LibraryReplies <- MCLibraryReplies
  Request = {r1, r2}
  Slots = 1
INVARIANTS
  StopsAreObeyed
  LaneChangesAreGuarded
  RefusedForTheScene
  IntentKept
  NewestOwnsBridge
  RepliesAreGrounded
  ServiceAccounts
PROPERTIES
  VerdictsStand
  AnswerOrAlert
  NobodyWaitsForEver
CHECK_DEADLOCK FALSE
