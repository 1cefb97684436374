CONSTANTS
  fetch = fetch
  build = build
  probe = probe
  verify = verify
  knot = knot
  base = base
  lenient = lenient
  NoTask = NoTask
  Task = {fetch, build, probe, verify, knot}
  AllowFail = {probe}
  NStages = 2
  StageOf <- MCStageOf
  Rank <- MCRank
  Deps <- MCDeps
  MaxRetries <- MCMaxRetries
  Recipe = {base, lenient}
  Disabled <- MCDisabled
  ContinueOnFailure = {lenient}
  Tails = {"clean", "torn", "bare"}
  MaxRuns = 2
  MaxCrashes = 1
  Overlay = {o1, o2}
  Pid = {1, 2}
  MaxFocus = 2
  MaxJoins = 3
  Window = {1, 2}
  Tips = {2}
  Caller = {c1, c2}
  RecentMax = 2
  MaxChanges = 2
SPECIFICATION AllFair
CHECK_DEADLOCK FALSE
INVARIANTS TypeOK NoMissingDependency SomeTaskHasItsTurn ResumeNeverOverclaims WorkbenchInv
PROPERTIES NoWorkAfterFailure ReturnAccountsForAll RunEnds WorkbenchEnds
