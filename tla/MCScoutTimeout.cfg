CONSTANTS
  Streams <- MCStreams
  Kind <- MCKind
  Reorders = {"map_update"}
  Window <- MCWindow
  MaxMessageAge = 1
  Validity = 1
  Names <- MCNames
  LastSeq <- MCLastSeq
  LastVersion <- MCLastVersion
  LastTime = 2
  Nothing = Nothing
  Required <- MCRequired
  Parts = {"reference_line"}
  MapIds = {"a", "b"}
  Payloads = {"p", "q"}
  MaxMapSeq = 2
  MaxVersion = 2
  MapAge = 1
  MaxTime = 2
  None = None
  Sensors = {"robot_state"}
  MaxAge <- MCAges
  TrackerAge = 0
  Tolerance = 0
  MaxSeq = 2
  MaxRevision = 7
  Gaps = {"g"}
  Timeout = 1
  MaxRequests = 2
  MinimumSafe = 2
  HysteresisDistance = 1
  LeadTime = 2
  HorizonTime = 4
  HysteresisTime = 1
  Desired = 1
  Continue = 2
  Stop = 3
  Furthest = 4
  MergeDistance = 0
  Interval = 1
  Unit = 16
SPECIFICATION MCSpec
CHECK_DEADLOCK FALSE
INVARIANT TimeoutIsReported
