SPECIFICATION MCSpec
CONSTANTS
  MAX_WORKERS = 4
  MAX_IN_FLIGHT_PER_WORKER = 5
  Absent = Absent
  NoKey = NoKey
  Missing = Missing
  Server = "server"
  Transports = {"stdio", "http"}
  DefaultsBlocks <- MCDefaultsBlocks
  ExecutionBlocks <- MCExecutionBlocks
  CanonicalBlocks <- MCCanonicalBlocks
  InferredTokens <- MCInferredTokens
  Identities <- MCIdentities
  AffinityArgs <- MCAffinityArgs
  WorkerArgs <- MCWorkerArgs
  Processes = {"p1", "p2"}
  Roots = {"r1", "r2"}
  Files <- MCFiles
  Names = {"x", "y"}
  Commands <- MCCommands
  Sources <- MCSources
  HomeFile <- MCHomeFile
  Fragment <- MCFragment
  Rank <- MCRank
  Seedable <- MCSeedable
  NoFile = "none"
  MaxStale = 1
  Installers = {"p1", "p2"}
  Urls = {"u1", "u2"}
  Parts = {"a", "b"}
  EmptyPart = "empty"
  NoEntry = "no entry"
  ByUrl = TRUE
  MaxBackups = 2
INVARIANTS IsolationSeparates SetPolicyTakesEffect SuccessIsEffective BackupsRestore
PROPERTIES NothingLost OnlyHomeImportShadows
