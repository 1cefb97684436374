CONSTANTS
  fetch = fetch
  build = build
  probe = probe
  verify = verify
  knot = knot
  base = base
  lenient = lenient
  NoTask = NoTask
  Task = {fetch, build, verify}
  AllowFail = {}
  NStages = 2
  StageOf <- MCStageOf
  Rank <- MCRank
  Deps <- MCDeps
  MaxRetries <- MCMaxRetries
  Recipe = {base, lenient}
  Disabled <- MCDisabled
  ContinueOnFailure = {lenient}
  Tails = {"clean", "torn"}
  MaxRuns = 3
  MaxCrashes = 2
  Attempts = 2
  MaxJobs = 2
  MaxChanges = 2
  Thread = {t1, t2}
  Limited = {{"memory"}, {"wall", "cpu"}}
  MaxTraces = 2
  MaxWorkers = 1
  MaxCalls = 2
  Widget = {w1, w2, w3}
  Addr = {a1, a2}
  MaxBroadcasts = 2
  Service = {1, 2, 3}
  Critical = {1, 2}
  MaxSteps = 2
  OnDisk = {"b"}
  MaxLines = 3
  FewLines = 2
  Node = {n1, n2}
  MaxTime = 6
  MaxUses = 5
  Pools = 2
  MaxFailures = 2
  Slot = {k1, k2}
  MaxSweeps = 1
  MaxExits = 1
  MaxProc = 2
  Limit = 1
  Window = 2
  MaxIdle = 2
  MaxUpdates = 2
  MaxTyped = 1
  MaxPauses = 2
  IdleCycles = 3
  MaxSkip = 5
  Mult = 2
  Grace = 5
  ActiveSamples = 5
  TrendSamples = 4
  Recheck = 2
  Refresh = 5
  Gaps = {1, 2}
  NormalWindow = 2
  MaxCycles = 2
  StableSkip = 2
  Target = 1
  Stretch = 2
  FileInterval = 2
  FilesTtl = 5
  Gap = 2
  MaxOps = 3
  MaxScans = 2
  MaxTurns = 1
SPECIFICATION AllSpec
CHECK_DEADLOCK FALSE
INVARIANTS ResumeIsExact JournalClosed ResumeInv BooksInv
PROPERTIES CompletedNeverRerun ImplementsLedger BooksSteps
