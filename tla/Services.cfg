INIT ServicesInit
NEXT ServicesNext
CONSTANTS
  Pids = {"p", "q"}
  Grace = 2
  Waiter = 1
  Jobs = {"often", "seldom"}
  Every <- TwoPaces
  Timeout = 2
  MaxTime = 3
  Askers = {"a", "b"}
  Fickle = {"key"}
  MaxVersion = 2
  Volumes = {"v1", "v2"}
  Swappers = {"s1"}
  Logged = {"web"}
  Dotted = {}
  MaxSize = 2
  MaxFiles = 1
  KeepRuns = 1
  MaxRunLines = 4
  MaxSeconds = 1
  EntryNames = {"a", "b"}
  Hidden = {"b"}
  DirLength = 1
  Inodes = {"root", "i", "j"}
  MaxLength = 1
  MaxHandles = 1
  Lines <- SmallLines
  Patterns <- SmallPatterns
  MaxLines = 3
  MaxPipes = 2
  MaxArgs = 3
  Viewers = {"v"}
  Rows = 1
  Capacity = 2
  MaxEntries = 3
  Callers = {"x", "y"}
  Procs = {"web", "db"}
  Queue = 1
  Room = 1
  PubKeys = {"k", "junk"}
  Unparsable = {"junk"}
  Served <- EntryKeys
  Indices = {"0", "1"}
  MaxEpoch = 2
  ArgTexts <- SomeArgs
  ValueTexts <- SomeValues
  FilePaths <- SomeFiles
  Said = {"killing", "unhealthy", "back-off"}
  Keep = 2
  MaxSeq = 6
  Apis = {"x", "y"}
  Latencies = {1, 9}
  Window = 1
  P50 = 1
  P99 = 4
  MaxChecks = 2
  MaxRefused = 1
  Typed = {"l", "s", "/", " "}
  Wide = {"agrave"}
  LatinOf <- AGrave
  Systemctl <- TheSystemctl
  Subcommands <- SomeSubcommands
  Builtins <- SomeBuiltins
  Leaving <- SomeLeaving
  ProcessCmds <- SomeProcessCmds
  FileCmds <- SomeFileCmds
  ProcessNames <- SomeNames
  HereDir <- SomeHere
  RootDir <- OneDir
  SubDirs <- OneDir
  SubEntries <- OneEntry
  MaxTyped = 4
INVARIANTS
  StatusKept
  OneRunPerJob
  ServesNewest
  GoldenServed RunsWithGolden NothingLeft
  LinesAccounted NewestRunsKept
  DoneAsSaid
  AppletsRight NoNeedlessWait
  SeenOrTold
  OnlyOutsidersBlock
  KeysCurrent
  FilledAlike
  CountedAndTold
  FileIsNewest
  LineIsSeen
CHECK_DEADLOCK FALSE
