CONSTANTS
  Lines = {1, 2}
  Modes = {"a", "b"}
  Bounds <- MCBounds
  MaxContexts = 2
  MaxEnvelopes = 2
  MaxPlans = 1
  MaxNow = 1
  None = None
  ReuseTime = 1
  Margin = 0
  Progresses <- MCProgresses
  Deviations = {1, 2}
  Failing = {3, 17, 22}
  MaxLeases = 1
  Lanes = {1, 2}
  LaneCost <- MCLaneCost
  Horizon = 3
  Reach = 1
  StoppingMargin = 1
  Threshold = 1
  Topology = None
  MaxProfile = 4
  NoPath = None
  Line <- MCLine
  Offsets = {0, 1}
  DistanceWeight = 2
  HeadingPenalty = 1
  ScoreTolerance = 0
  Backward = 1
  PerLaying = 1
  Slack = 1
  MaxSegments = 3
  Longest = 2
  NoProgress = None
  History = 2
  MaxResidual = 2
  Residuals <- MCResiduals
  MaxGap = 2
  MaxDriven = 5
  MaxStates = 4
  NoState = None
  Missing = Missing
  NotFinite = NotFinite
  AuditLimit <- MCAuditLimit
  Spacing = 2
  Support = 2
  SharpestBend <- MCSharpestBend
  PreferredBend <- MCPreferredBend
  SupportRange <- MCSupportRange
  Elevation <- MCElevation
  BadSeabed <- MCBadSeabed
  Start = 1
  Goals = {5}
  Motions <- MCMotions
  Position <- MCPosition
  Worlds <- MCWorlds
  Interval = 2
  MaxExpansions = 6
  MaxLabels = 5
  Cells <- MCCells
  Tasks <- MCTasks
  MaxExpanded = 30
  MaxQueue = 13
  WaitTime = 2
  ObserveTime = 1
  Objects = {"map", "prediction", "coordination", "geometry", "health"}
  Stream <- MCStream
  NoStream = NoStream
  Reported = {"geometry", "health"}
  ObservedObjects = {"map", "prediction", "coordination", "health"}
  Names <- MCNames
  Paired = {"prediction", "coordination"}
  Messages <- MCMessages
  First <- MCFirst
  Instants = {2}
  MaxAge = 1
  MaxDelta = 1
  NotSynced = None
  MaxGeneration = 3
  MaxAdmitted = 2
  Planners = {p1, p2}
  NoRecord = None
  Fine = 12
  Unlimited = Unlimited
  SafetyMargin = 1
  Seabed <- MCSeabed
  Terrain <- MCTerrain
  NoLayers = None
  NoInput = None
  Domains <- MCDomains
  VarianceAfter <- MCVariance
  DecayOver <- MCDecay
  MaxLag = 1
  NotBuilt = None
  Curves <- MCCurves
  Tolerance = 0
  MaxNewton = 2
  MaxImprovements = 2
  NoCurve = None
  SweepCell = 20
  Columns = 5
  Rows = 3
  Scenarios = {"validation", "switching", "progress", "tracking", "search", "scout_search", "context", "builder", "smoothing", "verdicts", "scout_verdicts"}
SYMMETRY Symmetry
SPECIFICATION MCSpec
CHECK_DEADLOCK FALSE
INVARIANTS
  TypeOK
  LeaseFollowsContext
  ProgressStaysWithCable
  TrackedHistoryIsReal
  
  SearchSound
  ScoutSearchSound
  ContextsNeverRegress
  EnvelopeCoversMotion
  SmoothedPathSound
PROPERTIES
  SwitchesOnlyImprove
