CONSTANTS
  Window = {w1}
  Nobody = Nobody
  Call = Call
  MaxAsks = 2
  MaxPosted = 2
  MaxLoops = 1
  Configured = {TRUE, FALSE}
  EnvSkip = FALSE
  Owner = TRUE
  Error = Error
  Timeout = Timeout
  Watched = {TRUE}
  MaxReuses = 1
  Pid = {1, 2}
  Sizes = {1}
  MaxBirths = 1
  MaxRefreshes = 1
  HostSets = {{}, {h1, h2}}
  Modes = {"auto", "given"}
  Port = {1, 2}
  Pings = 1
  Scans = 2
  Fetches = 1
  Scale = 2
  MaxErrors = 1
  MaxClicks = 2
  MaxForeign = 1
SPECIFICATION AllFair
CHECK_DEADLOCK FALSE
INVARIANTS DesktopInv
PROPERTIES Promised KillsChosen ProgressClimbs AllEnd
