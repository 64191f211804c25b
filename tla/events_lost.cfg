INIT SensorInit
NEXT SensorNext
CONSTANTS
  Required = {"rgb", "lidar"}
  Optional = {"radar"}
  EventKind = {"collision", "lane_invasion"}
  MaxFrames = 2
  RetainFrames = 4
  LastFrame = 1
  MaxEvents = 2
INVARIANT EventsAreKept
CHECK_DEADLOCK FALSE
