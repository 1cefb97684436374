CONSTANTS
  a = a
  b = b
  standard = standard
  recovery = recovery
  rescue = rescue
  legacy = legacy
  alone = alone
  NoProfile = NoProfile
  Plugin = {a, b}
  Installed = {b}
  Profile = {standard, recovery, rescue, legacy, alone}
  PluginsOf <- MCPluginsOf
  LoadsPlugins <- MCLoadsPlugins
  RecoveryOf <- MCRecoveryOf
  HasStages <- MCHasStages
  Worker = {u}
  Capability = {network, files}
  Channel = {stable, beta}
  Stable = stable
  Version = {v1, v2}
  MaxHistory = 2
  MaxFaults = 1
  Service = {a, b}
  Thread = {x1, x2}
  Scope = {view}
  Root = root
  Offers <- MCOffers
  MaxAttempts <- MCAttempts
  HasFallback = {a}
  MaxRegs = 2
  MaxInstances = 2
  Poller = {h1}
  Main = Main
  t1 = t1
  t2 = t2
  Tool = {t1, t2}
  MaxHandles = 4
  MaxLoads = 2
  p1 = p1
  p2 = p2
  x1 = x1
  x2 = x2
  x3 = x3
  Process = {p1, p2}
  Caller = {x1, x2, x3}
  Key = {v1, v2}
  Value = {va}
  Blank = Blank
  MaxWrites = 3
  MaxCalls = 3
  MaxSaveFails = 1
  Event = {x1, x2, e3, e4}
  Unencodable = {e4}
  Remote = TRUE
  BatchSize = 2
  Bad = Bad
  MaxRuns = 3
  MaxTroubles = 2
  Plain = {va, vb}
  Shipped = va
  File = {v1, v2}
  Limit = 1
  Section = {s1}
  NoFile = NoFile
  Broken = Broken
  Unset = Unset
  MaxSaves = 3
  Requester = {r1}
  Looks = 2
  MaxForeign = 1
  Error = {x1, x2, x3}
  Package = {k1}
  MaxEdits = 1
  MaxLosses = 1
  MaxBoots = 2
  MaxCrashes = 1
SPECIFICATION AllSpec
CHECK_DEADLOCK FALSE
SYMMETRY Sym
CONSTRAINT MCFocus
INVARIANTS TypeOK FailureStays RecordMatchesBoot NoCulpritInApp ManagerInv PermissionsInv UpdaterInv RegistryInv CacheInv TelemetryInv ConfigInv PopupsInv BuiltinInv
PROPERTIES HonestOutcome RollbackReverts NoWorkerLost
