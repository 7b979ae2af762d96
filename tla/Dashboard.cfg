CONSTANTS
  None = None
  KeyOrder <- MCKeyOrder
  PageSize = 2
  Identity <- MCIdentity
  Stores = {"s1", "s2", "s1b"}
  StoreLists <- MCStoreLists
  AppOf <- MCAppOf
  Hits = {"r1", "r3"}
  FirstList <- MCFirstList
  MaxActs = 3
  MaxChanges = 1
  Children = {"r2"}
  LoadedBy <- MCLoadedBy
  WorkflowDb <- MCWorkflowDb
  WorkflowLists <- MCWorkflowLists
  WorkflowChurn <- MCWorkflowChurn
  Internal = {"r2"}
  Base64 = {"r3"}
  RecordDb <- MCRecordDb
  RecordChurn <- MCRecordChurn
  MaxRequests = 2
  Instances = {"p", "c"}
  Root = "p"
  EventPool <- MCEventPool
  MaxEvents <- MCMaxEvents
  MaxDetailActs = 2
  LogApps = {"a", "b"}
  Streamable <- MCStreamable
  StaticCp = {"sched"}
  FetchedCp = {"compose"}
  Script <- MCScript
  LINE_CAP = 2
  MaxBreaks = 1
  MaxLogActs = 2
  Schemas = {"redis", "mongo", "kafka"}
  CategoryOf <- MCCategoryOf
  ProfilesOf <- MCProfilesOf
  Required <- MCRequired
  Optional <- MCOptional
  MaxEntries = 8
  AppKeys = {"web", "job"}
  SourceOf <- MCSourceOf
  FirstApps <- MCFirstApps
  AppChurn <- MCAppChurn
  StoreTypes = {"redis", "mongo"}
  FirstType = "redis"
  RequiredOf <- MCRequiredOf
  OptionalOf <- MCOptionalOf
  SyntheticOf <- MCSyntheticOf
  Numeric = {"timeout"}
  Connections = {"c1", "c2", "new"}
  NewId = "new"
  FirstConnections <- MCFirstConnections
  MaxPanelActs = 6
  Unset = Unset
  PolicyNames = {"n1", "n2", "DaprBuiltIn"}
  BuiltIn = {"DaprBuiltIn"}
  TargetNames = {"x"}
  MaxEdits = 5
SPECIFICATION Spec
INVARIANTS
  
  ListCatchesUp
  PairsMatch
  
  StreamOrderKept
  FollowPinned
  
  ReferencesResolve
CHECK_DEADLOCK FALSE
