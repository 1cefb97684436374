# Verification of CoolBox

TLA+ models, TLC checks and TLAPS proofs for CoolBox (`src/coolbox`): setup
orchestration and recovery, the tasks and the installer every setup runs, the
plugin runtime, the tool bus, permissions and release channels, boot and its
fallbacks, the services, caches and threads underneath, and the dialogs whose
threads can get in each other's way.  File names below are relative to the
repository; line numbers are those of the modelled commit.

## 1. Inventory

| Component | State it keeps | Operations | Interacts with | What is hard | What makes it correct |
|---|---|---|---|---|---|
| Setup orchestrator `setup/orchestrator.py` | registered tasks, results, attempts, resume state; a JSON-lines journal on disk | `run`, `retry`, `rerun_stage`, `resume_from_journal`, journal writes | boot manager, plugin manager, recipes, remediation | crash inside a write, resume, retries, filters against dependencies | nothing runs on a missing or failed basis; a resume credits exactly what succeeded; every run ends |
| Built-in tasks `setup/stages.py`, installer `setup.py`, check before a boot `cli/bootstrap.py` | context keys of a run; the `.setup_done` sentinel, `.req_hash` stamps, the virtual environment | digest, requirements, install, verification tasks; plan, pip, stamp | orchestrator | a resumed task does not set its context keys; requirements.txt is edited between its four readings | the sentinel vouches only for what was installed or found |
| Recipe loader `setup/recipes.py` | `_loading` chain | `load`, `extends` merging | orchestrator | cycles, diamonds | a cycle is reported; every parent is merged once |
| Boot manager `boot/manager.py`, plugin state `plugins/state.py` | plugin failure record on disk, recovery flags | run, console fallback, recovery launch | orchestrator, app | a crash while loading plugins, repeated failures | a failed plugin boot falls back once and is recorded; recovery ends |
| Plugin manager `setup/plugins/__init__.py`, supervisor `plugins/worker.py` | handles, registrations, violations, workers, watched paths | register, remove, reload, dispatch hooks | tool bus, hot reload, permissions | reload on the watcher's thread during a dispatch; registration that fails half way | no hook of a removed plugin; nothing left behind by a failed registration; no worker replaced alive |
| Hot reload `plugins/hotreload.py` | watched paths, mtimes, poll thread | watch, unwatch, stop | plugin manager | stop and re-start race, callback after unwatch | one poller; no reload after unwatch |
| `toold` runtime `plugins/runtime/toold_client.py`, `toold_runner.py` | pending requests, response slots, daemon process | call, shutdown, stream loops, heartbeat | plugin worker | crash of the daemon, timeout against late answer, stream closed under a waiter, lock held while writing | a call ends with its own answer or an error; the runner does not deadlock |
| Release channels `plugins/update.py` | per-plugin channel, staged and active release; files on disk | bootstrap, stage, promote, rollback | manifest, plugin manager | a write that raises between two others, a restart between staging and promotion | memory and files name the same releases, and those exist |
| Tool bus `tools/bus.py`, `tools/recipes.py` | endpoints, subscriber queues, worker delegation | invoke, stream, subscribe, publish, register, unregister | plugins, recipes | publish against close; a consumer waiting on a closed subscription | each event reaches each open subscriber once, in order; a closed iteration ends |
| Permissions `utils/security/permissions.py` | workers, grants, requests, activity | register, request, resolve, expire, notify | worker supervisor, Security Center | a request resolved twice, an expired grant | an allowance rests on what allowed it; the supervisor's copy follows |
| Service registry `app/infrastructure.py` | registrations, singletons, scopes, shutdown callbacks | register, replace, resolve, close, shut down | the application | a resolve that stores after the service has gone; retries and fallbacks; cycles | one singleton; disposed of once; nobody waits for itself |
| Telemetry `telemetry/*.py` | consent, buffered events, a JSON-lines file, ClickHouse batches, knowledge, SLO windows | ask, record, flush, bootstrap, suggest | boot, setup, plugins | a flush that fails or dies half way | nothing without consent; nothing told twice or forgotten |
| Config `config/manager.py`, settings screen | defaults, loaded values, a JSON file, what the screen shows | load, save, set, reset, import, edit | UI | crash inside save, containers shared with the defaults | until its first reset a run does not change the defaults a reset restores; a save that is cut off loses every setting, and nothing promises otherwise |
| File cache `utils/files/cache.py` | entries with expiry, a JSON file, its time | get, set, get_or_set, pop, prune, clear | network tools, UI | two threads, two processes, reload by modification time | memory is what the file holds, as far as the process has looked |
| Error handler `app/error_handler.py`, thread manager `utils/processes/thread_manager.py` | root windows, queue of errors, pump, probes | handle, enqueue, poll, show | application, tools | dialogs in nested loops, windows that go, threads that wait | an error the user was not told of is on its way |
| Click overlay `ui/views/overlays/click_overlay.py`, listener `utils/display/mouse_listener.py` | state machine, timers, hook, selection | choose, clicks, moves, update loop, reset, close | Kill by Click | callbacks that outlive a reset, hooks that die, a close before the overlay is visible | an answer was clicked for this call; a click ends its wait |
| Kill by Click `ui/views/dialogs/force_quit.py`, watchdog | session, threads, poller, watchdog process | start, cancel, finish, timeout | overlay, process watcher | late ends of a cancelled session, closes that are lost, a watchdog that does not die, reused process ids | only what was clicked is killed; the dialog comes back unless its cleanup failed |
| Process watcher `utils/processes/monitor.py` | snapshot, batches, a queue of one place | sample, pause, stop; refresh of the list | force quit dialog | a batch that replaces an unread one | differences add up; a closed dialog leaves no thread |
| Network tools `utils/network/__init__.py`, `auto_scan.py` | hosts, results, progress, file caches, worker pools | ping, scan, fetch, cancel | file cache, dialog | cancel while items are queued, exceptions in workers | every host has one result or none; progress climbs; a scan ends |
| Firewall and Defender control `utils/security/*.py` | the machine's protection and its service | set, verify, repair, wait | Security Center | chains of fallbacks, other programs, failing queries | success is reported only for what the last look found |
| Security Center `ui/views/dialogs/security.py` | switches, jobs by token, message boxes, busy messages, automatic refresh | toggle, refresh, dispatch | firewall control, permissions | answers of superseded jobs, boxes over boxes | what is shown is not older than what was done; inputs come back |
| Worker budgets and metrics `plugins/worker.py` | definitions, the current call, peaks, counters per plugin, traces | call in the program or a daemon, register, unregister | plugin manager, toold runtime | calls side by side, a daemon that dies with another call's events | every call is counted once and blamed for what it did |
| Widgets to refresh, views `app/infrastructure.py`, service reports | weak references by address, broadcast queue; modules, health, critical set | register, refresh, broadcast; install, check, shut down | registry, UI | an address used again while a refresh walks the list; cycles among services | every widget alive is reached once; the reports name what is so |
| Remembered network, detailed scan `utils/network/__init__.py` | ARP table, hosts, pings, in memory and on disk; pools of one scan | list, ping, map over a pool | file cache, dialogs | entries that age while they are used, a cancel or an exception in a pool | nothing older than its time is served as new; what was found is returned |
| Network scan window `ui/views/dialogs/auto_scan.py` | buttons, bar, results, rows, a thread, calls left for later | start, cancel, switch, filter, close | detailed scan of the network | a timer of the last scan during the next, a cancel after the end, an exception | one scan at a time; what is shown and exported is what was found |
| Port scanners `ui/views/screens/tools.py`, `utils/network/__init__.py` | `PORT_CACHE`, `_HOST_CACHE`, progress bar | parse, ping, resolve, connect, show | tools screen | an answer kept for another question; a window that goes | a port that is reported was open for what was asked |
| File tools `utils/files/*.py`, tools screen | files, hashes kept by path and time | rename, find duplicates, convert, copy, move, delete | file cache | tools side by side on one folder; two spellings of one file | no content is lost that nobody asked to lose |
| Process list and adaptive sampling `ui/views/dialogs/force_quit.py`, `utils/processes/monitor.py` | rows, marks, filters, timers; intervals, baselines, kept details | filter, refresh, kill by criterion; sample, skip, recount | process watcher | a refresh over a paused one; figures carried over skipped visits | the list shows what it should; what is kept is as old as it says |
| Foreground window and windows `utils/display/window_utils.py` | subscribers and their thread; cache of windows, recent ones | subscribe, unsubscribe, list | overlay | a thread joined under the lock it needs; two workers | news arrives; no request for a list is lost |
| Requirement analyses `setup.py` | the file's lines, the host | eight analyses, warnings, the smart plan | installer | each has its own idea of a requirement; one unreadable line ends an analysis | what a user must know is named; the plan covers what is missing |
| Mac firewall tools `utils/security/firewall.py` | which tools are there, socketfilterfw, preference file, daemon | query, set, bootstrap, verify | firewall control | tools that are looked for once, a damaged file, no daemon | success is reported only where the rule is written or in force |
| Manifests, catalog, console, command line, remaining views | - | - | - | mostly parsing, drawing, single transactions | - |

The components, their sources and what is left out of each are listed once more
in `PROJECT.json` (`components`), the places where the code is hard to test in
`hazards`, each with the properties that watch it or the reason why none does.

### How the parts interact

`cli/bootstrap.py` calls `BootManager.run`, which reads the persisted record of
plugin failures, selects a profile and runs the orchestrator once for the
profile's recipe and, after a failure, a second time for a recovery.  The
orchestrator loads plugins into the `PluginManager`, then runs tasks stage by
stage and dispatches a hook to every plugin before and after each stage and
task.  A plugin's hooks run through the `WorkerSupervisor`; a sandboxed plugin
lives in a `toold` daemon, and a hook call is a request on its stdin.  The
`HotReloadController` calls `reload_plugin` from a polling thread.  Plugins put
endpoints on the `ToolBus`; tool recipes and the orchestrator's events use it
from an asyncio loop and from the setup thread.

Three kinds of concurrency exist: threads of the host process without a common
lock (hot reload against the setup thread, callers and readers of a daemon,
publishers against the loop), a host and its daemons, and processes that follow
one another over the same files after a crash (journal, plugin record).

### Hazards no property covers

Of the listed ones, `save()` of the settings (config/manager.py:98) has none: it
empties the file before it writes it, `Save` of `ConfigStore` models what a crash
leaves, and nothing in the repository promises that the settings survive it.  Others
have a property that excepts the case where the code goes wrong; their notes in
`PROJECT.json` say which.  Beside them, these were met while reading
and stay outside the models: the refresh chain of the force quit dialog ends when
its queue raises `Empty` (force_quit.py:971) and multiplies when it is paused and
resumed; a
hook that is stalled but alive goes unnoticed (click_overlay.py:1865); `start()`
of the mouse listener with a native hook returns before it counts its reference
(mouse_listener.py:354); `register()` of a plugin that raises something else
than a plugin error ends the setup unrecorded (boot/manager.py:331); an application that
raises after hours is started again by the console (cli/bootstrap.py:196); the
shutdown request of a daemon uses the next id without taking it
(toold_client.py:164); two iterators of one subscription share one end marker
(tools/bus.py:102); a violation is recorded on a handle that a reload may have
replaced (setup/plugins/__init__.py:625); a `Popen` runner that timed out waits
without a limit (utils/security/core.py:621); a dependency listed twice and a
remediation result named like a task (setup/orchestrator.py:1111, 1199).

## 2. Plan

Done, in this order:

1. The setup run with its journal (`SetupRun`), the abstract ledger it
   implements (`TaskLedger`), the proofs that a resume is safe
   (`WorkbenchProofs`).
2. The plugin runtime: client and runner of the tool daemon (`TooldClient`,
   `TooldRunner`), hot reload (`HotReload`), the plugin manager with its
   supervisor (`PluginManager`), the event side of the tool bus (`ToolBus`).
3. Boot and the record of plugin failures (`BootManager`).
4. State that outlives a call: `Permissions`, `PluginUpdater`,
   `ServiceRegistry`, `FileCache`, `TelemetryDelivery`, `ConfigStore`.
5. Dialogs and their threads: what a chooser promises (`Chooser`), the overlay
   that implements it (`ClickOverlay`), Kill by Click over the promise
   (`KillByClick`), `ProcessWatcher`, `ErrorPopups`, a network scan
   (`NetworkScan` over `WorkPool`).
6. The machine: `BuiltinSetup`, `ProtectionSwitch`, `SecurityCenter`, `Installer`.
7. What is kept, counted and shown: `WorkerCalls`, `AppInfrastructure`,
   `RequirementLines`, `ScanCaches`, `DetailedScan`,
   `PortScans`, `FileTools`, `KillSweeps`, `ForceQuitList`, `AdaptiveSampling`,
   `MacFirewall`, `ScanDialog`, `ActiveWindow`, `WindowCache`.
8. Proofs, each of what a run checks: the parts of `workbench` in
   `WorkbenchProofs`, those of `runtime` and `desktop` in `MCRuntime` and
   `MCDesktop` beside the parts they compose, the boot, the telemetry and the
   other parts of `services` in `ServicesProofs`.  A part whose variables are cells
   there is proved in its own module, where its behaviours are meant
   (`PluginManager`, `PluginUpdater`, `BuiltinSetup`, `ServiceRegistry`);
   `ServicesProofs` shows that a behaviour of the services run is one of it and
   carries its theorem over.

Components that do not call each other share an MC module, whose next-state
relation is the union of theirs: a variable `part` says which one a behaviour
is of, the variables of the others stay as they begin.  Where a component has
no variables of its own there, it uses the first of the cells `m01`, `m02`, ...
by `INSTANCE ... WITH`, so that unlike parts do not multiply the variables.

Left: `BooksInv` and `BooksSteps` of the run `machine`, whose module reaches a
recursive operator, and the parts the inventory calls not modelled.

## 3. Modules and the code

Definitions carry the names of the code where they can; `PROJECT.json` (`map`)
gives the lines of each.  An operator marked `\* mutant of X` is not part of a
specification: it is X with a plausible mistake, and replacing X by it makes
the property named with it in `PROJECT.json` (`mutants`) fail.

### SetupRun, TaskLedger (setup/orchestrator.py)

A task is its name, a result its status, the journal the sequence of its
readable result lines with a `header` (the recipe its run line names) and a
`tail` that says how the file ends.  `StartRun` is `run()` up to the stage loop:
plan, journal, reset; `Run`, `BootRun` and `Retry` are its callers.
`rerun_stage` is `Retry({s}, {})`.  `EnterStage`, `Skip`, `Reuse`, `Begin`,
`Act`, `RetryTask`, `Settle` are the branches of `_run_stage`, one step for
what happens between two points at which the process may die with a different
journal; `LeaveStage`, `Break`, `Return`, `StageRaises` end a stage or the run.
`Crash`, `CrashRecording`, `CrashOpening` end the process anywhere, inside a
result line, or inside the first line of a fresh journal.

The plan is not computed by a heap but characterised: a task has its turn when
its dependencies of the same stage are behind and no task registered earlier is
ready, and Kahn's algorithm fails exactly when a non-empty set of tasks has no
member free of dependencies on the set.

Left out: events, telemetry, spans; plugin hooks other than one that ends a
stage (`StageRaises`); the results remediations return (the shipped plugin
names them after no registered task); duplicates in a dependency list;
unreadable journals other than by a crash.

`TaskLedger` is the abstract specification: a set of completed tasks that grows
by a task whose dependencies it holds, or starts over.  `SetupRun` implements it
with `completed <- Successes(log)`, the tasks whose last line is a success.

### TooldClient, TooldRunner (plugins/runtime)

`TooldClient` has the host's threads (constructor, callers, the thread that
shuts down, two readers) and a daemon reduced to what its pipes show.  Each
action is a stretch of code between two points where another thread or the
daemon can act: `Check`, `TakeId`, `Send`, `Return`/`Raise` are `call()`,
`ReadLine`, `HandleLine`, `ReadEnd` are `_stdout_loop`.  `shutdown()` closes the
pipes in turn, and closing a stream waits for the lock a blocked reader holds.
The daemon may answer, write raw lines, hang or die at any point.

`TooldRunner` is the daemon's side of one question: `main()` replaces
`sys.stdout` by a stream that sends every line written to it as an event through
the `_JsonRpcStream`, whose own writes go to `sys.stdout`, under a lock that is
not reentrant.  `TooldClient` assumes a daemon whose messages reach the pipe;
`TooldRunner` shows that the present runner does not get that far.

### HotReload (plugins/hotreload.py)

The setup thread watches, unwatches and stops; pollers run rounds of
`Top`, `Snapshot`, `Detect`, `Callback`, `EndRound`.  A signature is the number
of edits so far.  `stop()` waits a second for the poller and then forgets it, so
a poller can outlive it (`expired`); a path may vanish once, after which its
signature is the time of day.

### PluginManager (setup/plugins/__init__.py, plugins/worker.py)

`register_plugin` step by step on either thread: `Remove`, `Unregister`,
`Register` or `RegisterRaises`, `Supervise`, `Store`; `Clear`, `Halt`, `Load`,
`Configure` are `load_from_manifest`; `Dispatch` to `EndDispatch` a hook.  A
handle is a number, what it registered is known by it: `validators` stands for
the three lists of hooks, `registry` and `bus` for tool endpoints.  The pops of
`_remove_handle` are one step, since no step of another thread reads between
them.  Budgets, metrics, spans, entry points and the catalog are left out.

### ToolBus (tools/bus.py, tools/recipes.py)

A reader is a coroutine, a step what it does between two awaits.  `home` tells
where events are published: on the loop, in one step, or on the setup thread,
where `publish` is a membership test, a listing and one `put_nowait` per queue,
and where `put_nowait` does not wake a loop asleep in its selector.  `Delegate`
and the `Forward*` actions are a subscription served by a tool's own handler,
`CancelOf` is the closure that cancels either kind.  `invoke` and `stream` look
an endpoint up and change nothing of the bus; they are not modelled.

### BootManager (boot/manager.py, plugins/state.py, cli/bootstrap.py)

One process at a time, which may die at every step; the file is `disk`.  `Boot`
reads arguments and record, `MainSetup` is the first setup, `Truncate` and
`Write` are the two halves of `_write_state`, each of which may raise and be only
logged (`NotOpened`, the second alternative of `Write`): the boot then goes on as if
it had recorded (`Recorded`), and `unsaved` remembers it, `RecoverySetup` is
`_attempt_recovery_launch`, `Console` is `_fallback_to_console`, `Exit` what
`bootstrap.main` does afterwards, `EnablePlugins` the Security Center.  A setup
is reduced to its outcome and to which plugins it leaves loaded, disabled and
in violation.  Manifests are the same for every boot.  Left out: manifest
parsing, preloading, the debugger and VM modes (they return before any of this
state is touched), consent and the dashboard.

### BuiltinSetup (setup/stages.py, setup.py, cli/bootstrap.py)

The six tasks of `register_builtin_tasks`, the installer they call and the
check `_missing_requirements` before a boot.  A line of requirements.txt stands
for the distributions that satisfy it; what is installed in the environment,
the stamp `.req_hash`, the stamps under the user's cache directory and the
sentinel `.setup_done` are sets of such lines.  `reqs` may be edited between any
two readings.  While there is no `.venv` with packages (`made`), what is missing is
looked up among the distributions of the interpreter (`host`), as
`_existing_distributions` does (stages.py:405-456).  A write of the sentinel may
fail before it has opened the file or after it has emptied it; the run warns and
goes on to report success (stages.py:291-295, bootstrap.py:144-147), which
`unwritten` remembers.  `EndsHonestly` therefore says that everything is there, and that the
sentinel names the file as it is or its write has failed.  `Credit` is a result taken from the journal, which does not
restore the run's context: `context` is what this process has set.  The installer
is the step from "plan" over "pip" to "finish", since the file is read anew for
each.  The python version does not change.

What the model shows beside its properties, and what `BuiltinInv` leaves out
for that reason: after a crash in the install task the resumed run credits the
requirements check and passes over the installation as "cache-valid"; a
profile that lists stages resumes a completed journal, so verification is
credited on later boots though requirements have changed; SKIP_SETUP is not
looked at when preflight.env is credited; `write_sentinel_on_skip` has no
effect; the stamp names the file as it is after pip, whatever pip did, and a
stamp from the user's cache is copied into a new environment (the check of
what is missing catches both); a recipe's force reaches an installer whose plan
says "Requirements unchanged"; the check before a boot looks at the running
interpreter while pip installs into .venv, and the sentinel is written
although pip failed.

### ProtectionSwitch, SecurityCenter (utils/security, ui/views/dialogs/security.py)

`ProtectionSwitch` is one request, or several, to turn the firewall, Defender's
realtime monitoring or Defender's service on or off: each command, each query (`Look`),
the diagnosis that Defender's status makes after it has asked (`Diagnose`,
defender_control.py:208, 219 and 233) and what is made of the answer (`Report`)
are steps, other programs change the protection between them, a change takes
effect or does not.  A change between the query and the report is not seen: `moved` has
the requests for which another program or request has changed something since their
look, and `HonestOutcome` promises nothing of them.  On a Mac the query reads the record
through `defaults` (firewall.py:663-669), or what the program remembers of it,
which need not be in force (`onRecord`, `copied`, `Shows`): a success rests on one of the
three.  `MacFirewall` has it in detail.  `barriers` is what stands in the way of a change; a failing query
finds nothing.  To disable Defender stops its service, whose verification
then starts it again; netsh is compared with one spelling of its answer only.

`SecurityCenter` is the dialog: `jobs` are the threads, of which
`_AsyncDispatcher` listens to the youngest of a kind (`current`); `boxes` are
message boxes, in whose nested loop answers are handled and clicks are not.
What its properties leave out because the code does so: the busy bar stays after a
nested refresh (security.py:560), a switch keeps "applying change" after a
toggle that failed, Apply stays enabled under a child dialog, and a refresh by
an administrator starts services.

### Permissions, PluginUpdater (utils/security/permissions.py, plugins/update.py)

`Permissions` has one action per call of the `PermissionManager`, each of which
holds the manager's lock, and the supervisor's copy it pushes.  Instants are
left out: an expiry is running or over, a use recent or long ago.  `basis` is a
history variable: what a grant rests on.

`PluginUpdater` is one plugin's releases in two channels.  An operation leaves
the files it still has to write in `todo`, one per step, and each write may
raise or be the last of its process.  Nothing reads the files back, so a
restart forgets what was staged.

### ServiceRegistry (app/infrastructure.py)

The main thread registers, replaces, unregisters, opens and closes scopes and
shuts down; other threads resolve, each with a stack of services it is
building.  A resolve looks up and stores under the lock and builds without it,
so what it stores may be of a registration that is gone: such instances are told
apart (`late`) and excepted.  What the main thread still has to do of a call is a
list of `chores`: callbacks to make, entries to drop, scopes to release.

### FileCache, TelemetryDelivery, ConfigStore

`FileCache`: every operation is preceded by `_check_reload`, which looks at the
file's time and reads it in two steps.  The constructor reads before it looks at
the time, so that a write in between is missed until the next one.

`TelemetryDelivery`: starts of the program with their consent, the buffer, the
file, ClickHouse batches, and failures and deaths at each line.

`ConfigStore`: the settings, the defaults they share containers with
(`shared`), the file, and what the screen shows.  Loading lays the file over the defaults
(manager.py:70), so a container that the file lacks is the defaults' own, as all of them
are without a file; the editor stores whatever was typed and may drop any key
(settings.py:554-562), and an import replaces what it has.  A setting that is not there
reads as the shipped one, a container that is not there as an empty one (`Listed`, `Sections`),
and looking at a section makes its container (`LookUpSection`).  A reset after a
shared container was changed restores what the user has changed, the list of recent
files can exceed its limit when the limit is lowered, and widgets keep what they
show: `ConfigInv` says, for each container apart, that until the first reset the defaults
stay as shipped unless this run took the container from them (`took`).  Of what a save
that is cut off loses it says nothing.

### ErrorPopups (app/error_handler.py, utils/processes/thread_manager.py)

The main thread's `stack` of dialogs and callbacks, the queue other threads put
errors into, the callbacks scheduled to take them (`polls`), and the probes that
look a second later.  The callback is not scheduled again after it has run.

### Chooser, ClickOverlay, KillByClick

`Chooser` says what `choose()` promises: it answers with a window clicked since
it was asked, or with none.  A call shows the overlay and only then waits (`Open`, `Show`);
calls nest, and the inner one answers first.  `ClickOverlay` implements it (`Promised`).
`Begin` is `choose()` up to `wait_visibility()` (click_overlay.py:1918), whose nested loop
handles clicks, closes and even another `choose()`: a close there writes `_closed`
before anybody waits for it and is lost.  `Appear` is the end of that loop with the start of
the listener, which may fail; `Wait` enters `wait_variable()`, for whose end `_closed`
must be written anew (`written`).  Beside that, the Tk callbacks in order, timers in any order, a
hook thread that may die, a selection that is read after `close()` has reset it, which is why
with `skip_confirm` a click selects nothing (click_overlay.py:1697).

`KillByClick` is the dialog over the promise: sessions with their threads, the watchdog
process that reports at any time, and ids that come to mean another process.  A thread that
wakes looks at the process and posts the end in one step (`PostEnd`): nobody sees it in
between.  A cancel closes the overlay (`Cancel`), waits for the thread, which may still post
its end, and cleans up (`Cancelled`).  `Cleanup` waits a tenth of a second for the watchdog
process and may raise there (`CleanupRaises`, force_quit.py:2474): the session stays, with
the dialog hidden, until a cancel succeeds, and the end that called it kills nobody.
`missed` has the calls that were closed before they waited, `raised` and `robbed` say
that a cleanup gave up and that the poller of an earlier session took the thread of this one; the
properties except exactly these.

### ProcessWatcher (utils/processes/monitor.py)

The sampling thread batch by batch, the queue of one place, and the
dialog's refresh that applies differences.  `lost` are removals that a
replaced batch took with it.

### WorkPool, NetworkScan (utils/network)

`WorkPool` is the pool of workers that every fan-out writes out; `NetworkScan`
is one scan built from three of them, the generator that yields results and the dialog's
cancel and close.  The hosts of a scan keep the order of the list they are chosen from
(`InOrder`).  Progress is counted in parts: one port of a host counts `Scale` divided
by the hosts there are, and what has been reported is known from the pairs of host and
port that have answered (`Counted`), in whatever order they did.

Left out: which hosts a text stands for.  `parse_hosts` expands a wildcard that is not
at the end ("10.*.5.1") to a network nobody wrote.

### ScanCaches, DetailedScan, PortScans (utils/network, ui/views/screens/tools.py)

`ScanCaches` is what is remembered of the network: the ARP table, the list of
hosts with its file, the pings.  Time is a clock that ticks between calls.  The
code, and so the model, re-stamps the whole table on a miss; serves an old table
for as long as its command fails, and stores it as of now when a miss comes after
the failure; dates an entry read from disk to now, so that it may live twice its
time; keeps one list whatever limit was asked; keeps pings without a limit.
`TableAges` therefore counts from the last run of the command, failed or not
(`asked`): the table is used for twice its time from there, and for twice its time
more for each miss, and what it serves was told in that run or since unless the
run failed.  How old an address is that a failed run has left, nothing bounds.
The run has ticks for the bound after one miss to be reached and passed; the
tables and the pings, which share nothing, are explored apart.

`DetailedScan` is `async_scan_hosts_detailed` with its three pools, hosts taken and
given back one step each.  The cancel event is looked at between pools only.

`PortScans` has the scanners of the tools screen with both caches, one host in the
run.  The key of `PORT_CACHE` has neither family nor timeout and answers from it
lose services and banners, a failed resolution is kept for the time of a good one,
a progress callback that raises (the window is gone) leaves the queue's `join`
waiting, and a network scan that pings first never hides its bar.  The functions
without a loop (`scan_ports`, `scan_targets`, ...) are called by nothing and left out.

### ScanDialog (ui/views/dialogs/auto_scan.py)

`ScanDialog` is the window of the automatic scan: its thread, whose calls of Tk are
one step each, what it leaves for later with `after()`, and the timers of the bar.
`DialogInv` says that there is one scan at a time and that what is shown and exported
was found, and it excepts what the code does: after an exception nothing enables Start
again; the timer of one scan hides the bar of the next; a scan that meets nobody
reports 1.0 instead of its end and leaves its bar; "Cancelled" is written on a label
that is hidden by then, unless the scan had ended when Cancel was pressed.  A refresh
puts back the rows that the filter left out.

### FileTools (utils/files, ui/views/screens/tools.py)

Batch rename, duplicate finder with its hash cache, converter and file manager on
one folder, side by side.  `FilesInv` says whose content may go and excepts what the
code does: on POSIX a batch rename replaces a name of the sequence that is in
use, on Windows it stops half way; the finder keeps whichever it hashed first,
a symlink too, and does not look again before it deletes; a hash is kept by
path and time, which `copy2` and `rename` carry along; `copy_dir` and `move_dir` onto the
same folder delete it; `move_file` with overwrite fails on Windows.

### KillSweeps, ForceQuitList, AdaptiveSampling

`KillSweeps` is the sweep over a criterion, thread by thread, while processes exit
and their ids are used again; a priority that was raised for a kill may stay so
after two threads did it at once.

`ForceQuitList` is the list while it is typed into, paused and resumed.  Rows are
never moved, whatever the sort (README.md:71 and :90 speak of a sorted list); filters
such as "Changed" apply only beside a text; each resume starts a chain of refreshes of
which a close ends the last; the sweep that runs by itself does not spare the program.

`AdaptiveSampling` has two halves, either of which a behaviour is of.  One is when a process
is measured: `_should_skip_cpu` is called twice a visit, so that the grace and the active
samples last half of what README.md:329 and :356 promise; `HalfIsPaid` states that half
and no more, and the promise itself is not kept.  The first call (monitor.py:1363) is outside
any `try`: a process that has gone by the time its CPU time is read there ends the watcher's
thread, and so does a process without a memory figure (1347) (`End`); the second call raises
into `collect`, which leaves the entry alone (`Fail`).  `ProcessWatcher` has a watcher that
does not end in this way.  After skipped visits the
CPU figure covers all of them and is divided by one loop's time.  The other is what
is counted again and when: the interval is written in cycles and compared with
seconds; connections, batch sizes and the pool are left out.

### MacFirewall (utils/security/firewall.py)

`MacFirewall` is the firewall of a Mac as the program reaches it: through `socketfilterfw`, or
through the preference file and `launchctl`.  Which tools there are is looked for once and
remembered, and other programs change the file and the state meanwhile.  `MacInv`
says what is remembered was true and what a query answers is so; `MacSteps` says what a
success rests on.  They show by their exceptions that a damaged file is
neither repaired nor reported (`_bootstrap` returns without writing, which counts as done),
that a write that fails half way leaves a damaged file behind, that without `launchctl` a
success is only that of the file, and that with neither tool no request ever
succeeds, although the file was written.  The further flags of `_mac_query_socketfilterfw` and a file
without the key are left out.

### ActiveWindow, WindowCache (utils/display/window_utils.py)

`ActiveWindow` is the subscription to the foreground window, by polling, by an X11
or a Windows hook; `unsubscribe()` joins the thread under the lock the thread needs,
which is the run `window_deadlock`.  `WindowCache` is the list of windows: callers, workers
that a race may start, and the recent windows.  Each window a caller or
worker remembers is a step of its own, since the other may remember between two.  A
recent window answers without asking for a new list (against window_utils.py:1041), and of two workers the older list may come last.

### WorkerCalls (plugins/worker.py), AppInfrastructure (app/infrastructure.py)

`WorkerCalls` is a call from the supervisor through its budget to metrics and
trace; threads call side by side, a daemon dies, a plugin is registered anew
while it is called.  Registering again forgets a worker without ending its daemon.

`AppInfrastructure` is two parts.  One is the registry of widgets by weak reference and its broadcasts: an
address that is used again answers for the widget before it, which the
invariant excepts (`shadowed`).  The other is the order services
depend on each other in, cycles, health and shutdown: after the shutdown
nothing is registered, so that `critical_services_healthy()` is true, and a module
whose `configure` fails half way cannot be installed again.

### Installer, RequirementLines (setup.py)

`Installer` is `install` and `upgrade` with every failure of pip, offline, and a
kill at any step.  A file that is not plain makes `_missing_requirements` raise, so
that after a failed install the stamp, which is always written, makes the next
run skip; an environment whose creation was interrupted is never repaired; the
wheel cache only ever gets the project's own wheel.  check_outdated's upgrades run
in a pool of threads and are modelled one after another.

`RequirementLines` is every file of a few lines and the analyses of it.  `LinesInv` says
what they name and, by its exceptions, what they do not: an editable or bare
address is a marker error; a line with a hash is invisible to the search for
duplicates; `git+ssh://git@host` is not seen as needing the network, a `file://` is.

The smart plan is made of these analyses, for a host that is as usual or lacks its
interpreter, a stamp, a network, ...: `PlanExplained` says that nothing is planned
without a reason, `PlanCovers` that what is missing is installed by a step of
the plan, `PlanSettles` that an install that succeeded leaves nothing to plan, `PipFirst` that
pip is brought up to date once and first.  One line that cannot be read ends
`_missing_requirements`, and the plan then says that nothing is missing; the
warning "Site-packages directory missing" is never given, because only
directories that exist are looked at.

## 4. Runs, bounds and fairness

| Run | Shows |
|---|---|
| `workbench` | setup: nothing starts on a missing or failed basis (`NoMissingDependency`, `NoWorkAfterFailure`), a stage is never stuck, every planned task gets a result, the journal never claims a success memory lacks, every run ends; a thread follows the foreground window while somebody asks for it, the recent windows differ (`WorkbenchInv`), news and lists arrive (`WorkbenchEnds`) |
| `machine` | the journal resumes exactly the successes of a process that was lost (`ResumeIsExact`, `JournalClosed`), no credited task runs again, the ledger is implemented; what fifteen other parts keep, serve, count, skip and show is what it should be, state by state (`BooksInv`) and step by step (`BooksSteps`) |
| `services` | a recorded plugin failure stays and keeps plugins out until it is pardoned, the record says what the boot did, no plugin that failed is active in the application; what the plugin manager and its supervisor hold agrees; the sentinel, the installer and the verification agree (`BuiltinInv`); a protection is reported as switched only if the last look found it so and no other changed it since (`HonestOutcome`); grants, releases, services, cache, telemetry, settings and popups keep the relation between their tables, files and copies |
| `runtime` | a call gets its own answer, an edit its callback, a subscription each event once and in order (`RuntimeInv`); calls, starts, shutdowns, edits, iterations and queued events come to their end (`WaitsEnd`) |
| `desktop` | the overlay implements the chooser (`Promised`); only what was clicked for a session is killed; an overlay outlives its session only if it was closed before it waited; differences add up; hosts keep their places and progress climbs; the Security Center shows nothing older than what is done; every one of them ends, but for the cases named below (`AllEnd`) |
| `boot_offline` | finding: the console's recovery run loads the plugins of a profile that says `load_plugins: false` |
| `toold_hang` | finding: the constructor's timeout is no help against a daemon that hangs before it is ready |
| `toold_runner` | finding: the runner waits for its own lock with its first captured line |
| `window_deadlock` | finding: the last overlay's `destroy()` waits for a thread that waits for it |
| `net_cancel` | finding: a cancelled scan never ends |
| `popup_window` | finding: an error dialog destroys the application's window |
| `setup_bypass` | finding: a boot under SKIP_SETUP makes the next one fail |

Five runs check the passing properties, several parts in each; the others run a component's
own module (`boot_offline` the services run's) with one property of the documentation.

**Bounds.**  `workbench`: five tasks in two stages contain a chain, a dependency
across stages, a task that may fail, one that depends on itself and one with
retries; all 2^2 x 2^5 filters are tried on each of two runs, so that a resumed run follows
a lost one.  Two overlays, three subscriptions and two changes of focus: a thread ends
and another begins while the first one's news is out.  Two windows, of which one is a
tip, two callers and two changes.  `machine`: three runs and two crashes of the
orchestrator, a resume of a resume with a crash in each (the unterminated last line,
`"bare"`, is excluded there: a resume glues its first line to it,
orchestrator.py:594, and the completed task runs again); two jobs of the
installer over two changes of file, packages, interpreter or network; files of three lines, enough
for a hash that is continued and a pair with something between; two calls on two threads; three widgets at two
addresses; three services; times of one or two ticks over five; three hosts and two
pools; three processes, one the program and one its parent; two entries of the list with
two pauses; two cycles beyond every threshold of the sampler; three operations of file tools on
four folders that hold twins, a link and a folder; two scans of a host with both families; two requests to a Mac's firewall with one change by others; two starts of the scan window;
a usual host, one for each thing a host can lack, with files of up to two lines for the plan.
`services`: two plugins that share a tool, four handles and two loads, so that
each is loaded, reloaded and loaded again; a worker with two capabilities; two
channels and two versions; two threads that resolve two services in two
registrations; three threads in two processes and three writes, so that one is
overtaken; three starts of telemetry; three saves of settings; one request for a
protection and one foreign change, enough to come before the look, between it and the
report, or after;
three errors; two boots of the built-in tasks with an edit, a loss or a crash.
`MCFocus` explores two resolving threads at once only while one service is
registered, no scope is open and neither resolves a dependency, and an edit, a loss and a crash of the tasks one at a time; what is
proved of them (section 5) has no such bound.  The boot needs no bound:
4837 states are all there are for five profiles that differ in what they list,
load and recover to.  `runtime`: two callers, one call each, are enough for ids
to be taken out of order and for a late answer; two plugins, one edit each, two
watches, two pollers, so that a plugin is watched anew and a poller outlived;
two subscriptions (one on two topics, one that may be delegated and stops at its
limit), two events.  `desktop`: two calls of choose(), which may nest, two sessions, with the watchdog (developer
mode) where `skip_confirm` is set (`Watched`), since whether a prompt follows an end does not
bear on the watchdog, one process
that exits and one that starts, two hosts with two ports, two clicks.

**Deadlock** is not checked: a setup that has used its runs, a client whose daemon
is gone, a bus with nothing to publish may all stop.  That nothing stops half way is
what the liveness properties say.

**Fairness.**  `SetupRun`: one thread that waits for no one, so weak fairness of
its steps, provided task actions return.  `TooldClient`: weak fairness of each
thread, and of a daemon that has not hung; none for calls, shutdowns, crashes,
hangs.  `TooldRunner`: strong fairness of acquiring the lock, which a
`threading.Lock` gives to a waiter in the end.  `HotReload`: weak fairness of
the poller and of a `stop()` under way, none for edits and watches.  `ToolBus`: the loop
runs a coroutine that is ready; nothing wakes a sleeping loop, a handler need
neither yield nor end, but a cancelled one ends.  `ClickOverlay`, `KillByClick`,
`SecurityCenter`: Tk's loop runs what is due, threads go on, hooks and users do as
they like, and an overlay need never become visible (`Appear`).  `ProcessWatcher`, `NetworkScan`: the thread, the coroutine and its
workers go on.  `ActiveWindow`, `WindowCache`: threads go on; nobody need subscribe
or ask.  The modules whose parts are in `machine` and `services` state
safety only.

**What the properties except.**  `CallsAreChanges`, `StopIsFinal`, `Coherent`,
`HooksTracked` and `NoWorkerLost` hold while no poller has outlived its `stop()`
(`expired`); with one left behind each fails, because `stop()` clears the flag
the poller would see.  `NoWorkerLost` excepts `clear()`, `HooksTracked` the hooks of
a registration that failed, `CallsAreChanges` a path that vanished: all three
are hazards the code has.  `QueuedIsTaken` is for publishers on the loop: from the
setup thread an event waits until the loop wakes for another reason.
`CallEnds` excepts a daemon that hangs and a reader that a scalar line ended.
`RegistryInv` excepts instances that are stored late; `ConfigInv` what follows a
reset, and before it the containers that the file did not have.  `RecordMatchesBoot`
excepts a boot whose write of the record failed, `EndsHonestly` a sentinel whose write
failed, `HonestOutcome` a change by others between the look and the report, and on a Mac a
record that is not in force.  `NoOrphan` excepts a `choose()` that was closed before it waited;
`AllEnd` the clicks that come then, a session whose predecessor's poller was late, one whose
cleanup raised, and a scan that is
disturbed (cancelled, its window gone, its cache failing).  A task that failed
and succeeded on its retry still breaks the run off (orchestrator.py:460), so
`NoWorkAfterFailure` counts it as failed.

## 5. Proofs

Thirty-three theorems are listed in `PROJECT.json`; each states a property some run
checks, for every value of the constants.  The numbers that bound the runs (`MaxRuns`,
`MaxWrites`, ...) are arbitrary there, so they restrict nothing.  Every safety
property of the runs `workbench`, `services`, `runtime` and `desktop` is proved, and of
`machine` those of the setup run.

**The setup run** (`WorkbenchProofs`, from `TaskAssumption`: a finite set of tasks with
any stages, ranks and dependencies, any recipes).

* `Typing`: `Spec => []TypeOK`.
* `ResumeInvariant`: `[]ResumeInv` for a `Spec` whose crashes leave a complete or
  torn last line (`"bare" \notin Tails`).
  `ResumeIsExact` is not inductive: that a success in memory is on disk depends on the
  resume state having been read from the journal that is being extended
  (`ResumeStateFresh`), on a task that is executed not being a success
  already (`AttemptGrounded`), which needs that successes are behind the loop or
  still to be reused (`SuccessesBehind`, `DoneInStage`).  `ResumeExact` and `ClosedJournal`
  are parts of it; `CompletedOnce` follows from it and the step.
* `NeverOverclaims` has the unterminated line too: the successes on disk are a
  part of those in memory, whatever the tail.
* `AlwaysATurn`: the loop of a stage is never stuck.  An accepted plan has no set of
  tasks each of which needs another one of the set; the ranks are a well-founded order,
  and a least element of the tasks that are left has its turn.
* `NoneMissing`, `AllAccounted`, `FailFast`: the place in the plan says which tasks have a
  result; what is behind the loop has one, and a failure that counts ends the
  loop before another task begins.
* `LedgerImplemented`: every step completes one task of the ledger, starts it over,
  or leaves it.

**The boot** (`ServicesProofs`, from `BootAssumption`: any plugins, profiles, manifest).
`BootTyping`, `RecordedFailureStays`, `RecordIsOfTheBoot`, `CulpritsStayOut`, all from
`BootInv`, over any number of processes.  `FailureStays` alone is not inductive: it
needs that a process under a recorded failure records nothing itself
(`ForcedIsPassive`), that the failure is not being overwritten (`KeptIsOnDisk`) and that a
new process hosts nothing (`FreshProcess`).  `NoCulpritInApp` needs that up to the recovery
every plugin that failed is known as a violator (`CulpritsKnown`), which is what
the recovery filters by.  `SetupEffect` and the lemmas beside it say what a setup does to the
plugin manager; the proof of a step uses them and not `Setup`.

**The other services** (`ServicesProofs`), each from its invariant, in the module named
or, for those whose variables are the run's own, in `ServicesProofs`:

* `PermissionsHold`: tables, pending list and the supervisor's copy agree.
* `UpdaterHolds`, `RollbacksRevert` (`PluginUpdater`, `UpdaterAssumption`).  Between two
  writes memory and files differ; the invariant says by what (`Differing`, `Marked`,
  `Announced`), that a release is stored before it is named (`StoredFirst`,
  `HistoryStored`), that the writes that are left are those of one operation on one
  channel (`Fits`, `OneChannel`).
* `CacheHolds` (from `CacheAssumption`): what a thread looked up is not newer than
  the file, and who is behind is known to be.
* `PopupsHold`: a dialog of a queued error stands above the loop that took
  it from the queue (`Queued`), however loops nest.
* `RegistryHolds` (`ServiceRegistry`, `RegistryAssumption`: finitely many services and
  scopes, any lifetimes and dependencies).  `RegistryInv` is not inductive: whether an
  instance will be disposed of depends on where it is, in the stack of a thread that builds
  it, in a cache, in a scope, or in the list of chores.  `RegistryBooks` says that it is in
  one place (`Places`, `Fates`), that a frame's registration is the present one or
  none's (`FrameAgrees`), that no service of a stack waits for itself (`Chain`), that an
  instance about to be stored has been handed to nobody (`Stacks`), and what a
  shutdown under way still has to close (`Ending`).
* `ManagerHolds`, `NoneLost` (`PluginManager`, `PluginAssumption`: at least one plugin): the handle
  of each registration under way is of its plugin and in no table yet (`JobHandles`,
  `Phases`), the tables are of handles in the list or in the hands of a thread (`Owners`,
  `Tracked`), and a worker is prepared, whole or at rest (`Workers`).  Both are stated up
  to a poller that outlives its `stop()`; until then one thread registers at a time
  (`Sole`, `Alone`), which the code relies on and no lock ensures.
* `SetupIsHonest` (`BuiltinSetup`, `BuiltinAssumption`): what the sentinel vouches for, what
  a stamp names, what a process of the setup found before, in the environment or in
  the interpreter (`Established`, which carries whether the sentinel's write failed); no file
  names a time after the last edit.
* `RequestsAreHonest` (from `SwitchAssumption`): an action property.  A
  request stands where it may (`Sound`), and what its last query found is still so unless another
  has changed something since (`Holds`), over the diagnosis that lies between query and report.
* `DefaultsAreKept` (from `ConfigAssumption`): until a reset the settings share with
  the defaults no container beyond those this run took from them (`OwnContainers`), whatever
  is typed, imported or looked at, and what they share is the same (`SharedIsSame`).
* `NothingIsForgotten` (from `TelemetryAssumption`): the file holds a
  beginning of what was recorded, each event once (`RecordedOnce`), and a torn last line
  is the one the previous process left, until the first line is written behind it.

**The foreground window and the window list** (`WorkbenchProofs`, for any overlays,
windows, callers and bounds).  `WorkbenchHolds`: that
somebody is told of the focus needs that a thread is there exactly while somebody is
subscribed or waits for it, and who may hold the lock then (`FollowBooks`); that recent
windows differ and stay few needs what is being remembered by whom (`WindowBooks`).
What a list keeps of the windows remembered before is a recursive function (`Kept`); that
it adds nothing (`KeptIs`) is shown by a least counterexample, since no theorem of
induction can be used.

**The plugin runtime** (`MCRuntime`, for any callers, plugins, tools and bounds; what the
two subscriptions want, and their limits, is as in the run).
`RuntimeHolds`, from three invariants.

* `ClientBooks`: a request and an answer under way belong to the thread that took the
  id (`Own`), ids differ, and the id of the shutdown, which may be given out a second
  time, is told apart.  `NoForeignAnswer` and `WaiterHasHope` follow.
* `HotBooks`: a poller that is not the known one has ended, unless a `stop()` gave up
  on it (`Pollers`); each callback made or about to be made has a change of its own
  (`Counted`).  `HotReloadAssumption` asks for one plugin.
* `BusBooks`: the queues of a topic are those of the open subscriptions that want it
  (`Registers`), and what was given to a subscription is what was published between its
  start and its end, with one event of slack while a thread publishes (`LocalGiven`):
  it has taken the listing and not yet put the event.

**The dialogs** (`MCDesktop`, from `DesktopAssumption`: finitely many hosts and ports, a
`Scale` that can be divided by the hosts; any targets, sessions, rows, processes, clicks).
`DesktopHolds`, from `DesktopBooks`, one part per component:

* `OverlayBooks`: the listener is held at most once for the dialog and once for each call that
  started it (`Holders`), the phase is that of the innermost call and the calls around it have
  got as far as one of the two loops (`Nested`), a call is posted once (`Calls`), a
  click on its way was made since every call was asked for that it can reach (`Fresh`), and `_closed`
  is written during a wait only (`Unwritten`).
* `SessionBooks`: a session that is over stays over and its number is not given again
  (`Over`), a call under way is of a session that has left nothing for its thread yet, and what is
  posted is of a session that began (`Served`), and from the overlay over the thread to the prompt
  a target is one clicked since that session began (`Aimed`).
* `WatcherBooks`: what the thread has in its hand is on its way from the snapshot
  (`OnTheWay`), without which the sums do not add up in the middle of a batch.
* `ScanBooks`: every host has one place, said by its stage (`Placed`), a pool's workers,
  queue and count agree (`PoolOK`, `Exact`), and a host is lost only in a scan that was
  disturbed.  The lemmas on pools and on lists without repetition are stated once and
  used for pings, hosts and pages.  The bar is not ahead of what hosts have reported
  (`BarBooks`), whose progress is the size of a set that only grows, in whichever order
  they report.
* `CenterBooks`: one kind of job is listened to at a time (`Sole`), which boxes may stand over
  which (`BoxBooks`), and a refresh that read before a switch was listened to is
  not (`JobBooks`).

`PromiseHolds` is the refinement: every step of the overlay, late hooks and timers included,
is a step of `Chooser` or leaves what it sees alone; it needs `Fresh`, or a
click for an earlier call would be an answer.  `KillsHold` and `ProgressHolds` are the
action properties, from `Aimed` and `BarBooks`.

**Composition.**  `part` never changes, so a behaviour of the services
run is one of its part: for a part in cells `AllSpec /\ part = k` implies the component's `Spec`
under the instance's substitution, for a component with the run's own variables (the boot,
protection, settings, telemetry, permissions, cache, popups) `AllSpec` implies its `Spec`
outright, since it takes its steps or stutters.  The component's theorem, cited through
its `INSTANCE`, then gives the property the run checks:
`PluginsAgree`, `WorkersLast`, `InstancesAreDisposedOf`, `ReleasesAgree`, `RollbacksChange`,
`SentinelIsTrue` from other modules, `GrantsAgree`, `CachesAgree`, `ErrorsAreTold` from
`ServicesProofs`.  In `MCWorkbench`, `MCRuntime` and `MCDesktop` each part keeps its books
whatever the others do, and their conjunction is invariant.

**What proving changed in the models.**  A `CASE` whose guards overlapped chose an arm
that the code's `if` would not (it is an `IF` now).  The telemetry file had two torn ends where
a line was cut after a cut one; the code's reader sees one.  Both had passed TLC.
Recent windows were remembered in one step for a whole list.  `NetworkScan` counted its
progress by recursion and numbered its ports; it now counts a set (`Counted`) and takes any
ports.

**Only model-checked.**  Liveness (`RunEnds`, `WorkbenchEnds`, `WaitsEnd`, `AllEnd`), which the prover
does not reach.  `BooksInv` and `BooksSteps`: the module of that run reaches
`AppInfrastructure`, whose search for cycles is a recursive operator, as the depth-first
search of the code is; the prover takes no module that reaches one.  What a
recursive function computes for every list is checked over bounded inputs, except where an
argument by a least counterexample was enough (`KeptIs`).

## 6. Findings

Seven runs end in a violation, each of a line of the repository's own
documentation, comments or tests; `PROJECT.json` (`findings`) quotes it.

1. The console's recovery run loads plugins although the profile, or the record
   of a failure, says not to (`boot_offline`, boot/manager.py:745).
2. The constructor of a daemon that hangs while it loads never returns
   (`toold_hang`, plugins/runtime/toold_client.py:172).
3. The daemon's first message after its stdout is redirected waits for the lock
   it holds (`toold_runner`, plugins/runtime/toold_runner.py:247).
4. Closing the last overlay while the foreground window changes waits for ever
   (`window_deadlock`, utils/display/window_utils.py:542).
5. A scan that is cancelled while something is queued never ends
   (`net_cancel`, utils/network/__init__.py:1369).
6. After the first error dialog the application's window is gone
   (`popup_window`, app/error_handler.py:444).
7. After a boot under SKIP_SETUP the next one fails (`setup_bypass`,
   setup/orchestrator.py:718).
