----------------------------- MODULE MCServices -----------------------------
(* Eleven components that do not call each other: a behaviour is one of the boot
   pipeline, of requests for a protection, of the settings, of the telemetry, of
   the permission manager, of the plugin manager with its workers, of a plugin's
   release channels, of the application's services, of a cache file, of the error
   popups or of the built-in tasks of a setup (part).  The first five have the
   variables of their modules, the cache and the popups variables of their own;
   every other part has as many of the cells m01 .. m28 as it has variables, in
   their order.  The two plugins of the plugin manager both want one of the
   tools. *)
EXTENDS BootManager, ProtectionSwitch, ConfigStore, TelemetryDelivery, Permissions, Integers, TLC

CONSTANTS
  a, b, standard, recovery, rescue, legacy, alone,
  Channel, Stable, Version, MaxHistory, MaxFaults,
  Service, Thread, Scope, Root, Offers, MaxAttempts, HasFallback, MaxRegs, MaxInstances,
  Poller, Main, Tool, MaxHandles, MaxLoads, t1, t2,
  Process, Caller, Key, Value, Blank, MaxWrites, MaxCalls, MaxSaveFails, p1, p2, x1, x2, x3,
  Error,
  Package, MaxEdits, MaxLosses, MaxBoots, MaxCrashes

VARIABLES
  part,
  contents, mtime, clock, mem, seen, lock, call, calls, stat, up, behind, writers, saveFails,
  keep, app, hidden, rootRef, pump, polls, queue, posted, stack, probes, taken, shown, native,
  astray, reported, over,
  m01, m02, m03, m04, m05, m06, m07, m08, m09, m10, m11, m12, m13, m14, m15,
  m16, m17, m18, m19, m20, m21, m22, m23, m24, m25, m26, m27, m28

fileVars ==
  <<contents, mtime, clock, mem, seen, lock, call, calls, stat, up, behind, writers, saveFails>>
popupVars ==
  <<keep, app, hidden, rootRef, pump, polls, queue, posted, stack, probes, taken, shown, native,
    astray, reported, over>>

\* the cells after the first so many, and those cells unused
After21 == <<m22, m23, m24, m25, m26, m27, m28>>
After18 == <<m19, m20, m21, After21>>
After12 == <<m13, m14, m15, m16, m17, m18, After18>>
After0 == <<m01, m02, m03, m04, m05, m06, m07, m08, m09, m10, m11, m12, After12>>
Blank21 ==
  /\ m22 = "-" /\ m23 = "-" /\ m24 = "-" /\ m25 = "-" /\ m26 = "-" /\ m27 = "-"
  /\ m28 = "-"
Blank18 == m19 = "-" /\ m20 = "-" /\ m21 = "-" /\ Blank21
Blank12 ==
  m13 = "-" /\ m14 = "-" /\ m15 = "-" /\ m16 = "-" /\ m17 = "-" /\ m18 = "-" /\ Blank18
Blank0 ==
  /\ m01 = "-" /\ m02 = "-" /\ m03 = "-" /\ m04 = "-" /\ m05 = "-" /\ m06 = "-"
  /\ m07 = "-" /\ m08 = "-" /\ m09 = "-" /\ m10 = "-" /\ m11 = "-" /\ m12 = "-"
  /\ Blank12

(* standard lists two plugins and names a recovery profile without any, as the
   tests' manifests do; rescue keeps its list but not its loading, with recovery
   stages, as README.md describes; legacy relies on entry points; alone recovers
   with its own profile, as the bundled manifest's default does. *)
MCPluginsOf == (standard :> {a, b}) @@ (recovery :> {}) @@ (rescue :> {a})
                 @@ (legacy :> {}) @@ (alone :> {a, b})
MCLoadsPlugins == [p \in Profile |-> p \notin {recovery, rescue}]
MCRecoveryOf == [p \in Profile |-> CASE p = standard -> recovery [] p = legacy -> rescue
                                     [] OTHER -> NoProfile]
MCHasStages == [p \in Profile |-> p \in {rescue, alone}]

Shared == (a :> {t1}) @@ (b :> {t1, t2})

CallerOf == (x1 :> p1) @@ (x2 :> p1) @@ (x3 :> p2)

Plug == INSTANCE PluginManager WITH
  Tools <- Shared, made <- m01, pluginOf <- m02, handles <- m03, disabled <- m04,
  validators <- m05, registry <- m06, bus <- m07, perms <- m08, worker <- m09, hosted <- m10,
  job <- m11, main <- m12, loads <- m13, toLoad <- m14, active <- m15, current <- m16,
  expired <- m17, toVisit <- m18, cur <- m19, fatal <- m20, raised <- m21
Upd == INSTANCE PluginUpdater WITH
  selected <- m01, history <- m02, active <- m03, staged <- m04, loaded <- m05, todo <- m06,
  failed <- m07, faults <- m08, stored <- m09, activeFile <- m10, rollbackFile <- m11,
  stagedFile <- m12
Serv == INSTANCE ServiceRegistry WITH
  reg <- m01, regs <- m02, given <- m03, cache <- m04, callbacks <- m05, scopes <- m06,
  open <- m07, held <- m08, closers <- m09, down <- m10, chores <- m11, stack <- m12,
  made <- m13, stored <- m14, late <- m15, dropped <- m16, handed <- m17, disposed <- m18
Cache == INSTANCE FileCache WITH
  Thread <- Caller, ProcessOf <- CallerOf, disk <- contents, failed <- saveFails
Pop == INSTANCE ErrorPopups WITH lost <- astray
Built == INSTANCE BuiltinSetup WITH
  reqs <- m01, mtime <- m02, sentinel <- m03, venv <- m04, stamp <- m05, stamps <- m06,
  log <- m07, inVenv <- m08, recipe <- m09, pc <- m10, run <- m11, early <- m12, caller <- m13,
  planned <- m14, credits <- m15, past <- m16, context <- m17, result <- m18, outcome <- m19,
  settled <- m20, quiet <- m21, bypassed <- m22, losses <- m23, boots <- m24, crashes <- m25,
  unwritten <- m26, host <- m27, made <- m28

ASSUME SwitchAssumption
ASSUME ConfigAssumption
ASSUME TelemetryAssumption
ASSUME Plug!PluginAssumption
ASSUME Upd!UpdaterAssumption
ASSUME Serv!RegistryAssumption
ASSUME Cache!CacheAssumption
ASSUME Built!BuiltinAssumption

\* a has two attempts and a fallback and needs b, which may come to need a
MCOffers == (a :> {[lifetime |-> "singleton", deps |-> <<b>>]})
              @@ (b :> {[lifetime |-> "scoped", deps |-> <<>>],
                        [lifetime |-> "transient", deps |-> <<a>>]})
MCAttempts == (a :> 2) @@ (b :> 1)

\* The same names are given to different things of different parts, so that
\* few permutations do for all.
Sym == Permutations(Thread) \union Permutations(Version)

\* How the parts with variables of their own begin where they take no step.
BootRests == profile = standard
SwitchRests ==
  /\ feature = "firewall" /\ machine = [platform |-> "other", admin |-> FALSE, barriers |-> {}]
  /\ ~on /\ ~onRecord /\ copied = {} /\ ~service /\ \A r \in Requester : req[r].kind = "control" /\ ~req[r].want
ConfigRests == stored = NoFile
TelemetryRests == consent = "none"

AllInit ==
  /\ \/ part \in {"boot", "protection", "settings", "telemetry", "permissions", "cache", "popups"} /\ Blank0
     \/ part = "plugins" /\ Plug!Init /\ Blank21
     \/ part = "updates" /\ Upd!Init /\ Blank12
     \/ part = "services" /\ Serv!Init /\ Blank18
     \/ part = "tasks" /\ Built!Init
  /\ SwitchInit /\ (part # "protection" => SwitchRests)
  /\ Init /\ (part # "boot" => BootRests)
  /\ ConfigInit /\ (part # "settings" => ConfigRests)
  /\ TelemetryInit /\ (part # "telemetry" => TelemetryRests)
  /\ PermissionInit
  /\ Cache!Init
  /\ Pop!Init /\ (part # "popups" => ~keep)

Owned == <<vars, switchVars, configVars, telemetryVars, permissionVars, fileVars, popupVars>>
Only(p) ==
  /\ part = p /\ part' = p
  /\ IF p = "boot" THEN TRUE ELSE UNCHANGED vars
  /\ IF p = "protection" THEN TRUE ELSE UNCHANGED switchVars
  /\ IF p = "settings" THEN TRUE ELSE UNCHANGED configVars
  /\ IF p = "telemetry" THEN TRUE ELSE UNCHANGED telemetryVars
  /\ IF p = "permissions" THEN TRUE ELSE UNCHANGED permissionVars
  /\ IF p = "cache" THEN TRUE ELSE UNCHANGED fileVars
  /\ IF p = "popups" THEN TRUE ELSE UNCHANGED popupVars
AllNext ==
  \/ Only("boot") /\ Next /\ UNCHANGED After0
  \/ Only("protection") /\ SwitchNext /\ UNCHANGED After0
  \/ Only("settings") /\ ConfigNext /\ UNCHANGED After0
  \/ Only("telemetry") /\ TelemetryNext /\ UNCHANGED After0
  \/ Only("permissions") /\ PermissionNext /\ UNCHANGED After0
  \/ Only("cache") /\ Cache!Next /\ UNCHANGED After0
  \/ Only("popups") /\ Pop!Next /\ UNCHANGED After0
  \/ Only("plugins") /\ Plug!Next /\ UNCHANGED After21
  \/ Only("updates") /\ Upd!Next /\ UNCHANGED After12
  \/ Only("services") /\ Serv!Next /\ UNCHANGED After18
  \/ Only("tasks") /\ Built!Next
AllSpec == AllInit /\ [][AllNext]_<<part, Owned, After0>>

\* Two threads at once are explored while no scope is open, one service is
\* registered and neither resolves a dependency; else one thread at a time
\* resolves.  The tasks meet one edit, loss, failing write or crash, or run in
\* an interpreter that has packages of its own.  Of a plugin's channels one at a
\* time meets failing writes and restarts with a history, and at most two things
\* are in the way of a switch.
MCFocus ==
  /\ part = "services" =>
       \/ \E t \in Thread : m12[t] = <<>>
       \/ /\ \A t \in Thread : Len(m12[t]) <= 1
          /\ \E s \in Service : \A other \in Service \ {s} : ~Serv!Registered(other)
          /\ m06 = {} /\ \A c \in Scope : m08[c] = Serv!Nothing
  /\ part = "updates" => m08 = 0 \/ \E c \in Channel : \A d \in Channel \ {c} : m02[d] = <<>>
  /\ part = "protection" => Cardinality(machine.barriers) <= 2
  /\ part = "tasks" => (m02 - 1) + m23 + m25 + (IF m27 = {} THEN 0 ELSE 1) <= 1

\* What the manager, its supervisor, the tool bus and the permissions hold of a
\* plugin agrees (PluginManager).
ManagerInv == part = "plugins" => Plug!ManagerInv
\* A worker is shut down before another takes its place (PluginManager).
NoWorkerLost == [][part = "plugins" => Plug!WorkersKept]_After0
\* Memory and disk name the same releases, and what they name exists, between
\* operations and wherever one fails (PluginUpdater).
UpdaterInv == part = "updates" => Upd!UpdaterInv
\* A rollback reverts to a release of another version (PluginUpdater).
RollbackReverts == [][part = "updates" => Upd!Reverts]_After0
\* A singleton is one, a service never waits for itself, and an instance is
\* disposed of once, by whichever of its owners goes first (ServiceRegistry).
RegistryInv == part = "services" => Serv!RegistryInv
\* What a process of the cache holds is what the file holds, as far as it has
\* looked and saved (FileCache).
CacheInv == part = "cache" => Cache!CacheInv
\* An error nobody was told of is on its way (ErrorPopups).
PopupsInv == part = "popups" => Pop!PopupsInv
\* The sentinel, the installer and the verification agree (BuiltinSetup).
BuiltinInv == part = "tasks" => Built!BuiltinInv
=============================================================================
