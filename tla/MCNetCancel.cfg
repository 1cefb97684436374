CONSTANTS
  HostSets = {{}, {h1}, {h1, h2}}
  Modes = {"auto", "given", "filtered", "measured"}
  Port = {1, 2}
  Pings = 2
  Scans = 2
  Fetches = 1
  Scale = 2
  MaxErrors = 1
SPECIFICATION FairScan
CHECK_DEADLOCK FALSE
PROPERTIES CancelStops
