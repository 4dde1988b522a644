CONSTANTS
  u = u
  v = v
  m = m
  n = n
  x = x
  y = y
  z = z
  Hooks = {u, v}
  Queries = {x, y}
  Warm = z
  Nearby <- SimilarTo
  LifeTime <- OneUse
  QueryBytes = 1
  WarmBytes = 1
  MaxEntries = 2
  MaxBytes = 2
  CacheHorizon = 2
  CacheBudget = 3
  Teammates = {u, v}
  Topics = {x, y}
  Evidence <- Matches
  ArchiveAfter = 1
  SweepThresholds = {0}
  LedgerHorizon = 2
  LedgerBudget = 3
  Reviewers = {u, v}
  ReviewRequests = {m, n}
  ManualRequests = {x}
  DecisionBudget = 3
  prompt = prompt
  guide = guide
  servers = servers
  large = large
  small = small
  Installers = {u, v}
  BundleFiles = {prompt, guide, servers}
  Form <- Forms
  Bundle <- Bundles
  MaxVersion = 2
  Values <- Nameables
  Entries <- Served
  Printed = {1}
  Dollars = {2}
  LocalText = LocalText
  LocalEntries <- Mine
  Shreds = Shreds
  NotThere = NotThere
  Unmanaged = Unmanaged
  AutoBudget = 3
  Packers = {u, v}
  Outputs = {m, n}
  Unlisted = Unlisted
  CutShort = CutShort
  PackHorizon = 1
  PackBudget = 2
  Facades = {u, v}
  Slugs = {m, n}
  Briefs = {x, y}
  Missing = Missing
  TaskAttempts = 2
  JourneyBudget = 5
  GraphFiles = {"f1", "f2", "f3"}
  GraphSymbols = {"s1", "s2", "s3"}
  FileOfSymbol <- SymbolFiles
  Manifests <- SmallManifests
  Depths = {3}
  NodeLimits = {3, 9}
  NoLookup = NoLookup
  CodeFiles = {"f1", "f2", "f3"}
  FileForms <- FileVersions
  FirstTrees <- Checkouts
  EditLimit = 2
  CommitLimit = 2
  Unreadable = Unreadable
SPECIFICATION OneStoreSpec
CHECK_DEADLOCK FALSE
SYMMETRY StoresSymmetry
INVARIANTS
  StoresTypeOK
  OneTaskOneBrief
  ListedPacksAreThere
  LocalContentIsKept
  InstallSettles
  GraphAnswersHold
PROPERTIES
  NeverServesStale
  LoneSaveIsKept
  LedgerKeepsHistory
  AnswersStand
  ActiveTaskIsPreserved
  ChangesAreDeclared
