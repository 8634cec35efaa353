SPECIFICATION ComponentsSpec
CONSTANTS
  Scenes = {"price", "push", "days", "codex",
            "pi", "jsonl", "projects",
            "costs", "models", "files", "copies", "machines", "blocks",
            "transcripts", "sessions", "paths", "labels",
            "tables", "dates", "windows", "daily", "savings",
            "requests", "telemetry", "repeats",
            "arrays", "cuts", "histories", "frames"}
  Loaders = {l1, l2}
  DefaultUrl = DefaultUrl
  CustomUrl = CustomUrl
  PriceTtl = 1
  FetchTries = 2
  MaxDay = 3
  MaxAhead = 1
  Exports <- MCExports
  EnvelopeBytes = 1
  ResourceBytes = 1
  MaxBatchBytes = 7
  MaxAttempts = 2
  DayTicks = 4
  HourTicks = 2
  MaxTick = 9
  Offsets = {0, 2, 3}
  NoWindow = NoWindow
  Versions = {"lastOnly", "totals", "spawns", "records"}
  TokenCounts = {1, 2}
  Prompts = {hi}
  MaxTurns = 2
  Missing = Missing
  NoProvider = "none"
  Dotted = "dot"
  FirstParty = {"openai", "moonshot"}
  Clouds = {"azure"}
  EffortSegments = {"high"}
  ReleaseSegments = {"date"}
  Alias <- MCAlias
  Preferred <- MCPreferred
  NeverFuzzy <- MCNeverFuzzy
  Letters <- MCLetters
  Distance <- MCDistance
  Hour = 2
  BlockHours = 2
  MaxSessions = 3
  PiModels <- MCPiModels
  MaxClock = 4
  NoEntry = NoEntry
  Byte = byte
  LF = lf
  CR = cr
  BOM = bom
  MaxBytes = 3
  MaxRewrites = 1
  ChunkSize = 2
  NoCursor = NoCursor
  NoRead = NoRead
  HashOf <- MCHashOf
  Unknown = Unknown
  Invalid = Invalid
  GitDirs <- MCGitDirs
  RepoDirs <- MCRepoDirs
  WorkDirs <- MCWorkDirs
  Home <- MCHome
  NamesIn <- MCNamesIn
  NameLength <- MCNameLength
  MinMatchedNameLength = 4
  ProjectRuns = {r1, r2}
  MaxLogged = 2
  MaxGitSteps = 2
  NoPath = NoPath
  Rootless = 0
  Here <- MCHere
  Reserved <- MCReserved
  TicksADay = 3
  IdleGapCap = 3
  SpikeBaselineDays = 3
  SpikeMinActiveDays = 2
  SpikeMinMultiple = 3
  SpikeMinCost = 2
  MinLine = 3
  MinCut = 3
  MaxWalkDepth = 2
  ChunkSizes = {1, 2, 3, 9}
INVARIANTS
  PricesAsTold PushIsTold DayIsLocal CreditStays
  UsageCountsOnce ReadsGoOn ReportsAddUp
CHECK_DEADLOCK FALSE
