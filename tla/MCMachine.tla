----------------------------- MODULE MCMachine -----------------------------
(* Sixteen parts whose books must agree with what they do not own.  A behaviour is
   one of the setup and its journal, of the installer, of the lines of a requirements
   file, of the calls of a plugin, of the widgets to refresh, of the service
   registry's reports, of what is remembered of the network, of a detailed scan, of a
   sweep that kills, of the list of processes, of the sampling's pace, of an entry's
   details, of the file tools, of the port scanners, of a Mac's firewall or of the window of a
   scan (part).  The journal has the variables of SetupRun; every other part has as many
   of the cells m01 .. m19 as it has variables, in their order. *)
EXTENDS SetupRun, Integers, TLC

CONSTANTS
  fetch, build, probe, verify, knot, base, lenient,
  Attempts, MaxJobs, MaxChanges,
  Thread, Limited, MaxTraces, MaxWorkers, MaxCalls,
  Widget, Addr, MaxBroadcasts,
  Service, Critical, MaxSteps,
  OnDisk, MaxLines, FewLines,
  Node, MaxTime, MaxUses,
  Pools, MaxFailures,
  Slot, MaxSweeps, MaxExits,
  MaxProc, Limit, Window, MaxIdle, MaxUpdates, MaxTyped, MaxPauses,
  IdleCycles, MaxSkip, Mult, Grace, ActiveSamples, TrendSamples, Recheck, Refresh, Gaps,
  NormalWindow, MaxCycles, StableSkip, Target, Stretch, FileInterval, FilesTtl, Gap,
  MaxOps, MaxScans, MaxTurns

VARIABLES
  part,
  m01, m02, m03, m04, m05, m06, m07, m08, m09, m10, m11, m12, m13, m14, m15,
  m16, m17, m18, m19

\* the cells after the first so many, and those cells unused
After18 == <<m19>>
After15 == <<m16, m17, m18, After18>>
After12 == <<m13, m14, m15, After15>>
After11 == <<m12, After12>>
After10 == <<m11, After11>>
After9 == <<m10, After10>>
After6 == <<m07, m08, m09, After9>>
After2 == <<m03, m04, m05, m06, After6>>
After0 == <<m01, m02, After2>>
Blank18 == m19 = "-"
Blank15 == m16 = "-" /\ m17 = "-" /\ m18 = "-" /\ Blank18
Blank12 == m13 = "-" /\ m14 = "-" /\ m15 = "-" /\ Blank15
Blank11 == m12 = "-" /\ Blank12
Blank10 == m11 = "-" /\ Blank11
Blank9 == m10 = "-" /\ Blank10
Blank6 == m07 = "-" /\ m08 = "-" /\ m09 = "-" /\ Blank9
Blank2 == m03 = "-" /\ m04 = "-" /\ m05 = "-" /\ m06 = "-" /\ Blank6
Blank0 == m01 = "-" /\ m02 = "-" /\ Blank2

\* fetch and build in the first stage, the others in the second; the lenient recipe
\* skips the probe.
MCStageOf == [t \in Task |-> IF t \in {fetch, build} THEN 1 ELSE 2]
MCRank    == [t \in Task |-> CASE t = build -> 1 [] t = fetch -> 2
                               [] t = verify -> 3
                               [] t = probe -> 4 [] OTHER -> 5]
MCDeps    == [t \in Task |-> CASE t = build -> {fetch} [] t = verify -> {build}
                               [] t = knot -> {knot} [] OTHER -> {}]
MCDisabled == [r \in Recipe |-> IF r = lenient THEN {probe} \cap Task ELSE {}]
MCMaxRetries == [t \in Task |-> IF t = build THEN 2 ELSE 1]

\* Two packages with versions 1 and 2: b is content with either, and only version 1
\* is in the wheel cache.  The last file is not plain.
MCPackage == {"a", "b"}
MCFile(a, b, plain) == [needs |-> [p \in MCPackage |-> IF p = "a" THEN a ELSE b], plain |-> plain]
MCFiles == {MCFile({1}, {1, 2}, TRUE), MCFile({2}, {}, TRUE), MCFile({1}, {2}, FALSE)}
MCWheels == [p \in MCPackage |-> {1}]
MCHost == [p \in MCPackage |-> 1]
\* one module with a service, and one with two
MCModules == <<<<1>>, <<2, 3>>>>

\* a pinned requirement of the index, and what may be different about a line
MCLine == [kind |-> "req", pkg |-> "a", ver |-> "1", from |-> "index", marker |-> "none",
         hash |-> FALSE, more |-> FALSE, note |-> FALSE]
MCLines ==
  {[MCLine EXCEPT !.kind = k] : k \in {"blank", "comment", "hash", "noindex"}} \cup
  {[MCLine EXCEPT !.kind = "option", !.ver = o] : o \in {"pre", "binary", "other"}} \cup
  {[MCLine EXCEPT !.kind = "hash", !.more = TRUE]} \cup
  {[MCLine EXCEPT !.ver = v] : v \in {"none", "range", "wild", "1", "2"}} \cup
  {[MCLine EXCEPT !.from = s] : s \in {"url", "http", "file", "user", "path"}} \cup
  {[MCLine EXCEPT !.marker = m] : m \in {"holds", "fails"}} \cup
  {[MCLine EXCEPT !.pkg = "b"], [MCLine EXCEPT !.note = TRUE], [MCLine EXCEPT !.more = TRUE],
   [MCLine EXCEPT !.hash = TRUE], [MCLine EXCEPT !.hash = TRUE, !.more = TRUE],
   [MCLine EXCEPT !.ver = "range", !.more = TRUE]} \cup
  {[MCLine EXCEPT !.kind = "editable", !.from = s] : s \in {"path", "user"}} \cup
  {[MCLine EXCEPT !.kind = k, !.from = s] :
     k \in {"include", "index", "links"}, s \in {"url", "file"}} \cup
  {[MCLine EXCEPT !.kind = "include", !.from = "path", !.pkg = p] : p \in {"a", "b"}} \cup
  {[MCLine EXCEPT !.kind = "index", !.from = "http"], [MCLine EXCEPT !.kind = "constraint", !.from = "url"]}

MCTtl == [arp |-> 2, hosts |-> 2, ping |-> 2]
MCTargets == <<"h1", "h2", "h3">>
\* The program's parent has the program and another process under it; the program
\* can always be ended, the other one in every way or not at all.
MCPid == {"self", "shell", "other"}
MCKids == [p \in MCPid |-> IF p = "shell" THEN {"self", "other"} ELSE {}]
MCNatures ==
  [p \in MCPid |-> CASE p = "self" -> {"soft"} [] p = "shell" -> {"soft", "denied"}
                     [] p = "other" -> {"soft", "hard", "denied"}]

\* What an install may meet: two packages to install, and one thing more
MCUsual == [exists |-> TRUE, stamp |-> "same", python |-> "same", old |-> FALSE,
            has |-> [p \in {"a", "b"} |-> "1"], offline |-> FALSE, online |-> TRUE,
            dev |-> FALSE, devFile |-> TRUE, upgrade |-> FALSE, venv |-> TRUE, pipOld |-> FALSE]
MCLacking == [MCUsual EXCEPT !.has = [p \in {"a", "b"} |-> IF p = "a" THEN "2" ELSE "0"]]
MCHosts ==
  {MCUsual, MCLacking} \cup
  {[MCLacking EXCEPT !.exists = FALSE], [MCLacking EXCEPT !.stamp = "other"],
   [MCLacking EXCEPT !.stamp = "none", !.python = "none"], [MCLacking EXCEPT !.python = "other"],
   [MCLacking EXCEPT !.old = TRUE], [MCLacking EXCEPT !.offline = TRUE],
   [MCLacking EXCEPT !.online = FALSE], [MCLacking EXCEPT !.dev = TRUE],
   [MCLacking EXCEPT !.dev = TRUE, !.devFile = FALSE], [MCLacking EXCEPT !.upgrade = TRUE],
   [MCLacking EXCEPT !.venv = FALSE], [MCLacking EXCEPT !.pipOld = TRUE]}
\* Folders: copies and twins, older and newer, a link, and folders
MCNames == {"a", "b", "p1", "p2"}
MCFolder(f) == [n \in MCNames |-> IF n \in DOMAIN f THEN f[n]
                                   ELSE [kind |-> "none", what |-> "none", at |-> 0]]
MCEntry(k, w, t) == [kind |-> k, what |-> w, at |-> t]
MCFolders ==
  {MCFolder([a |-> MCEntry("file", "x", 1), b |-> MCEntry("file", "y", 1),
             p1 |-> MCEntry("file", "x", 1)]),
   MCFolder([a |-> MCEntry("file", "x", 1), b |-> MCEntry("file", "y", 2)]),
   MCFolder([a |-> MCEntry("file", "x", 1), b |-> MCEntry("link", "a", 1)]),
   MCFolder([a |-> MCEntry("dir", "x", 1), b |-> MCEntry("file", "y", 1),
             p1 |-> MCEntry("dir", "y", 1)])}
MCSize == [c \in {"x", "y", "torn", "none"} |-> 1]

\* A range with a port 0, and two ports; a host with both families, one port open on each
MCPort(a, b) == [from |-> a, to |-> b, step |-> 1, dash |-> a < b]
MCWritten == {{MCPort(0, 1)}, {MCPort(1, 1)}, {MCPort(2, 2)}}
MCNets == {[names |-> [h \in {"h"} |-> {"v4", "v6"}],
            open |-> [h \in {"h"} |-> [f \in {"v4", "v6"} |-> IF f = "v4" THEN {1} ELSE {2}]]]}

\* A Mac with each of its tools or without; one that is managed, and one without an
\* administrator
MCMac == [ctl |-> FALSE, defaults |-> TRUE, launch |-> "ok", admin |-> TRUE, locked |-> FALSE,
          hidden |-> FALSE, managed |-> FALSE]
MCMacs ==
  {[MCMac EXCEPT !.ctl = c, !.defaults = d, !.launch = l, !.locked = k] :
     c, d, k \in BOOLEAN, l \in {"none", "broken", "bare", "ok"}} \cup
  {[MCMac EXCEPT !.ctl = c, !.defaults = d, !.managed = TRUE] : c, d \in BOOLEAN} \cup
  {[MCMac EXCEPT !.ctl = c, !.defaults = d, !.admin = FALSE, !.hidden = h] : c, d, h \in BOOLEAN}

Inst == INSTANCE Installer WITH
  Package <- MCPackage, Files <- MCFiles, Wheels <- MCWheels, Host <- MCHost, reqFile <- m01,
  venv <- m02, stamp <- m03, stamps <- m04, python <- m05, online <- m06, job <- m07,
  jobs <- m08, changes <- m09
Req == INSTANCE RequirementLines WITH
  MayHold <- MCLines, Hosts <- MCHosts, Usual <- MCUsual, file <- m01, host <- m02
Calls == INSTANCE WorkerCalls WITH
  workers <- m01, current <- m02, peak <- m03, call <- m04, metrics <- m05, ended <- m06
Infra == INSTANCE AppInfrastructure WITH
  Modules <- MCModules, where <- m01, shown <- m02, views <- m03, items <- m04, cast <- m05,
  broadcasts <- m06, over <- m07, asked <- m08, reached <- m09, awaited <- m10, shadowed <- m11,
  registered <- m01, needs <- m02, health <- m03, modules <- m04, checking <- m05, bad <- m06,
  steps <- m07, down <- m08, steady <- m09
Net == INSTANCE ScanCaches WITH
  Ttl <- MCTtl, clock <- m01, table <- m02, tableAt <- m03, saved <- m04, list <- m05,
  savedList <- m06, pings <- m07, uses <- m08, asked <- m09, made <- m10, answer <- m11
Detail == INSTANCE DetailedScan WITH
  Targets <- MCTargets, wants <- m01, state <- m02, pool <- m03, halt <- m04, alive <- m05,
  scanned <- m06, named <- m07, detailed <- m08, paged <- m09, raised <- m10, returned <- m11,
  cutAt <- m12
Sweeps == INSTANCE KillSweeps WITH
  Pid <- MCPid, Self <- "self", Shell <- "shell", Kids <- MCKids, Natures <- MCNatures,
  proc <- m01, nature <- m02, reaped <- m03, sweep <- m04, matched <- m05, queue <- m06,
  slot <- m07, nice <- m08, gone <- m09, sweeps <- m10, exits <- m11, raised <- m12,
  byTree <- m13, killed <- m14, reused <- m15
List == INSTANCE ForceQuitList WITH
  entry <- m01, key <- m02, normals <- m03, cache <- m04, rows <- m05, tags <- m06, idle <- m07,
  debounced <- m08, timers <- m09, paused <- m10, open <- m11, enabled <- m12, progress <- m13,
  updates <- m14, typed <- m15, pauses <- m16, resumes <- m17, chosen <- m18
Sampling == INSTANCE AdaptiveSampling WITH
  Ttl <- FilesTtl, pace <- m01, known <- m02, trending <- m03, waited <- m04, skipped <- m05,
  seen <- m06, astir <- m07, owed <- m08, ended <- m09, since <- m01, every <- m02, same <- m03,
  cycles <- m04, quiet <- m05, stable <- m06, normal <- m07, cached <- m08, all <- m09,
  allScan <- m10, ownScan <- m11, files <- m12
Tools == INSTANCE FileTools WITH
  File <- MCNames, Serial <- <<"p1", "p2">>, Content <- {"x", "y"}, Size <- MCSize,
  Start <- MCFolders,
  posix <- m01, twins <- m02, disk <- m03, clock <- m04, digests <- m05, finder <- m06,
  renamer <- m07, ops <- m08, last <- m09
Ports == INSTANCE PortScans WITH
  Host <- {"h"}, Written <- MCWritten, MaxPort <- 2, Start <- MCNets, Flags <- {"bare"},
  Family <- {"any", "v6"}, PortTtl <- 1, HostTtl <- 1,
  clock <- m01, names <- m02, open <- m03, shut <- m04, known <- m05, kept <- m06, tool <- m07,
  bar <- m08, closed <- m09, turns <- m10
Mac == INSTANCE MacFirewall WITH
  Machines <- MCMacs, MaxOthers <- 1, machine <- m01, plist <- m02, enforced <- m03,
  seen <- m04, copy <- m05, job <- m06, stale <- m07, jobs <- m08, others <- m09
Dialog == INSTANCE ScanDialog WITH
  Host <- {"h"}, MaxStarts <- 2, MaxSwitched <- 1, buttons <- m01, bar <- m02, event <- m03,
  thread <- m04, asked <- m05, found <- m06, last <- m07, rows <- m08, posted <- m09,
  timers <- m10, on <- m11, query <- m12, window <- m13, starts <- m14, switched <- m15,
  ended <- m16, stopped <- m17, late <- m18, typed <- m19
ASSUME Detail!DetailAssumption
ASSUME Sweeps!SweepAssumption
ASSUME Sampling!PaceAssumption
ASSUME Sampling!EntryAssumption

AllInit ==
  /\ Init
  /\ \/ part = "journal" /\ Blank0
     \/ part = "installer" /\ Inst!InstallerInit /\ Blank9
     \/ part = "lines" /\ Req!LinesInit /\ Blank2
     \/ part = "calls" /\ Calls!CallsInit /\ Blank6
     \/ part = "widgets" /\ Infra!RefreshInit /\ Blank11
     \/ part = "services" /\ Infra!TopologyInit /\ Blank9
     \/ part \in {"caches", "pings"} /\ Net!CachesInit /\ Blank11
     \/ part = "detailed" /\ Detail!DetailInit /\ Blank12
     \/ part = "sweeps" /\ Sweeps!SweepInit /\ Blank15
     \/ part = "list" /\ List!ListInit /\ Blank18
     \/ part = "pace" /\ Sampling!PaceInit /\ Blank9
     \/ part = "files" /\ Tools!FilesInit /\ Blank9
     \/ part = "ports" /\ Ports!PortsInit /\ Blank10
     \/ part = "mac" /\ Mac!MacInit /\ Blank9
     \/ part = "dialog" /\ Dialog!DialogInit
     \/ part = "entry" /\ Sampling!EntryInit /\ Blank12
  /\ part # "journal" => recipe = base
AllNext ==
  \/ part = "journal" /\ Next /\ UNCHANGED <<part, After0>>
  \/ part = "installer" /\ Inst!InstallerNext /\ UNCHANGED <<part, vars, After9>>
  \/ part = "lines" /\ Req!LinesNext /\ UNCHANGED <<part, vars, After2>>
  \/ part = "calls" /\ Calls!CallsNext /\ UNCHANGED <<part, vars, After6>>
  \/ part = "widgets" /\ Infra!RefreshNext /\ UNCHANGED <<part, vars, After11>>
  \/ part = "services" /\ Infra!TopologyNext /\ UNCHANGED <<part, vars, After9>>
  \/ part = "caches" /\ Net!TableNext /\ UNCHANGED <<part, vars, After11>>
  \/ part = "pings" /\ Net!PingNext /\ UNCHANGED <<part, vars, After11>>
  \/ part = "detailed" /\ Detail!DetailNext /\ UNCHANGED <<part, vars, After12>>
  \/ part = "sweeps" /\ Sweeps!SweepNext /\ UNCHANGED <<part, vars, After15>>
  \/ part = "list" /\ List!ListNext /\ UNCHANGED <<part, vars, After18>>
  \/ part = "pace" /\ Sampling!PaceNext /\ UNCHANGED <<part, vars, After9>>
  \/ part = "files" /\ Tools!FilesNext /\ UNCHANGED <<part, vars, After9>>
  \/ part = "ports" /\ Ports!PortsNext /\ UNCHANGED <<part, vars, After10>>
  \/ part = "mac" /\ Mac!MacNext /\ UNCHANGED <<part, vars, After9>>
  \/ part = "dialog" /\ Dialog!DialogNext /\ UNCHANGED <<part, vars>>
  \/ part = "entry" /\ Sampling!EntryNext /\ UNCHANGED <<part, vars, After12>>
AllSpec == AllInit /\ [][AllNext]_<<part, vars, After0>>

\* Every call is counted once (WorkerCalls), every widget is reached by a refresh
\* and the service registry's reports are right (AppInfrastructure), the
\* warnings about a requirements file name what they should (RequirementLines),
\* nothing older than its time is served (ScanCaches), a detailed scan returns what
\* it found (DetailedScan), a sweep kills and counts what it matched (KillSweeps),
\* the list shows what it should (ForceQuitList), the pace stays in its bounds and an
\* entry's details are as old as they say (AdaptiveSampling), no tool loses a file's content that was not to be lost (FileTools), a port that is
\* reported was open (PortScans), what is remembered and told of a Mac's firewall is so
\* (MacFirewall), and the window of a scan shows how it stands (ScanDialog).
BooksInv ==
  /\ part = "calls" => Calls!Accounted
  /\ part = "widgets" => Infra!RefreshInv
  /\ part = "services" => Infra!TopologyInv
  /\ part = "lines" => Req!LinesInv
  /\ part \in {"caches", "pings"} => Net!CachesInv
  /\ part = "detailed" => Detail!DetailInv
  /\ part = "sweeps" => Sweeps!SweepInv
  /\ part = "list" => List!ListInv
  /\ part = "pace" => Sampling!PaceInv
  /\ part = "entry" => Sampling!EntryInv
  /\ part = "files" => Tools!FilesInv
  /\ part = "ports" => Ports!PortsInv
  /\ part = "mac" => Mac!MacInv
  /\ part = "dialog" => Dialog!DialogInv
\* A call is blamed for what it did (WorkerCalls), and an install that is skipped
\* or reports no error leaves what is required (Installer); the list of changed
\* processes only shrinks between snapshots (ForceQuitList), a skipped visit's CPU
\* time is paid for and an entry's counts are kept (AdaptiveSampling), and a Mac's
\* firewall that is said to be switched is (MacFirewall).
BooksSteps ==
  [][/\ part = "calls" => Calls!CallSteps
     /\ part = "installer" => Inst!InstallSteps
     /\ part = "list" => List!ChangedShrinks
     /\ part = "pace" => Sampling!HalfIsPaid
     /\ part = "entry" => Sampling!CountIsKept
     /\ part = "mac" => Mac!MacSteps]_After0
=============================================================================
