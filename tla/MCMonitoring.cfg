CONSTANTS
  NoSnapshot = NoSnapshot
  NoRepo = NoRepo
  NoCode = NoCode
  NoOutput = NoOutput
  NoStatus = NoStatus
  NoLag = NoLag
  RepoLists <- MCRepoLists
  SnapshotsOf <- MCSnapshotsOf
  StorageOf <- MCStorageOf
  Running <- MCRunning
  IndexStats <- MCIndexStats
  NumSyncing = 1
  NumFailed = 0
  FailedIndices <- MCFailedIndices
  Rules <- MCRules
  IndicesOf <- MCIndicesOf
  StatusOf <- MCStatusOf
  PodLists <- MCPodLists
  LogOf <- MCLogOf
  Now = 3
  Intervals <- MCIntervals
  TotalNodes = {0, 2}
  MaxNodes = 3
  Bodies <- MCBodies
  Configured = {TRUE, FALSE}
  InitFolders <- MCFolders
  InitSnapshots <- MCSnapshots
  MaxEvictions = 2
  ClientEnvs <- MCClientEnvs
  Externals = {TRUE, FALSE}
  Deadline = 3
  ConfigLists <- MCConfigLists
  InitIndices <- MCIndices
  MaxJobs = 2
  SchedulerEnvs <- MCSchedulerEnvs
  ClusterEnvs <- MCClusterEnvs
  LoggedRecords <- MCLogged
  ShardTables <- MCShardTables
  Nodes <- MCShardNodes
SPECIFICATION Spec
INVARIANTS
  BMTypeOK
  MetricMatchesSnapshots
  RMTypeOK
  RuleIndicesReported
  SLTypeOK
  SentWithinWindow
  RecentRecordsSent
  HealthStatusIsWorst
  EvictRemovesOwnBackup
  InvalidConfigDeletesNothing
  PlainLinesRoundTrip
  SourceConfined
  PromotionSeen
PROPERTY
  CheckerEndsUnlessHung
CHECK_DEADLOCK FALSE
