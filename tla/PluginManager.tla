---------------------------- MODULE PluginManager ----------------------------
(***************************************************************************)
(* PluginManager (src/coolbox/setup/plugins/__init__.py) with its          *)
(* WorkerSupervisor (src/coolbox/plugins/worker.py).  The setup thread     *)
(* loads the plugins of a manifest and dispatches hooks to them; a hot     *)
(* reload poller (HotReload) replaces one plugin at a time, on a thread of *)
(* its own and without a lock.  Both run register_plugin, step by step; a  *)
(* PluginHandle is a number, and what it registered is known by that       *)
(* number.                                                                 *)
(***************************************************************************)
EXTENDS Naturals, FiniteSets, FiniteSetTheorems, TLAPS

CONSTANTS
  Plugin, Poller,
  Main,          \* the setup thread
  Tool,
  Tools,         \* plugin -> names of the tools it registers
  MaxHandles,    \* bound on handles made
  MaxLoads       \* bound on manifests loaded

PluginAssumption ==
  /\ Main \notin Poller /\ Tools \in [Plugin -> SUBSET Tool]
  /\ MaxHandles \in Nat /\ MaxLoads \in Nat /\ Plugin # {}

VARIABLES
  made, pluginOf,  \* handles made, and the plugin of each
  handles,         \* _handles: plugin -> handle, 0 when absent
  disabled,        \* handles with the disabled flag
  validators,      \* hooks in the manager's lists, by handle
  registry, bus,   \* _tool_endpoint_registry; the tool bus: tool -> {its plugin}
  perms,           \* plugins the permission manager knows
  worker,          \* the supervisor's worker: plugin -> handle it was made for, 0 when absent
  hosted,          \* keys of _workers
  job,             \* per thread: its registration in progress
  main,            \* empty, stopping, loading, ready, dispatching, calling, aborted
  loads, toLoad,   \* manifests loaded; plugins still to register
  active, current, \* pollers that run; the one of the present controller
  expired,         \* a poller has outlived HotReloadController.stop()
  toVisit, cur, fatal,  \* the dispatch: handles left, the one being
                   \* called, a before_stage hook?
  raised           \* handles whose registration failed

hooks == <<handles, validators, registry, bus, perms, worker>>
loading == <<hosted, loads, toLoad, active, current, expired>>
dispatch == <<disabled, toVisit, cur, fatal>>
vars == <<made, pluginOf, raised, hooks, job, main, loading, dispatch>>

Actor == Poller \cup {Main}
Handle == 1..MaxHandles
Nothing == [p \in Plugin |-> 0]
NoTools == [p \in Plugin |-> {}]
Free == [t \in Tool |-> {}]
Resting == [at |-> "idle", plugin |-> CHOOSE p \in Plugin : TRUE, handle |-> 0]
Idle(t) == job[t].at = "idle"
SameJob(p, at) == [at |-> at, plugin |-> p, handle |-> 0]
Wanted(p) == {t \in Tools[p] : bus[t] \subseteq {p}}   \* register_endpoint accepts them
Without(p) == [t \in Tool |-> bus[t] \ {p}]

Init ==
  /\ made = 0 /\ pluginOf \in [Handle -> {Resting.plugin}]
  /\ handles = Nothing /\ validators = {} /\ registry = NoTools /\ bus = Free
  /\ perms = {} /\ worker = Nothing
  /\ job = [t \in Actor |-> Resting] /\ main = "empty"
  /\ hosted = {} /\ loads = 0 /\ toLoad = {} /\ active = {} /\ current = {}
  /\ disabled = {} /\ toVisit = {} /\ cur = 0 /\ fatal = FALSE
  /\ raised = {} /\ expired = FALSE

-----------------------------------------------------------------------------
(* register_plugin() on either thread *)

KeepEndpoints(t) ==                       \* mutant of Remove
  LET p == job[t].plugin
      h == handles[p]
  IN /\ job[t].at = "removing"
     /\ handles' = [handles EXCEPT ![p] = 0] /\ validators' = validators \ {h}
     /\ registry' = IF h = 0 THEN registry ELSE [registry EXCEPT ![p] = {}]
     /\ job' = [job EXCEPT ![t].at = IF h = 0 THEN "registering" ELSE "unregistering"]
     /\ UNCHANGED <<bus, made, pluginOf, raised, perms, worker, main, loading, dispatch>>

KeepHooks(t) ==                           \* mutant of Remove
  LET p == job[t].plugin
      h == handles[p]
  IN /\ job[t].at = "removing"
     /\ handles' = [handles EXCEPT ![p] = 0]
     /\ registry' = IF h = 0 THEN registry ELSE [registry EXCEPT ![p] = {}]
     /\ bus' = IF h = 0 THEN bus ELSE Without(p)
     /\ job' = [job EXCEPT ![t].at = IF h = 0 THEN "registering" ELSE "unregistering"]
     /\ UNCHANGED <<validators, made, pluginOf, raised, perms, worker, main, loading, dispatch>>

\* _remove_handle(): everything the handle tracks goes
Remove(t) ==
  LET p == job[t].plugin
      h == handles[p]
  IN /\ job[t].at = "removing"
     /\ handles' = [handles EXCEPT ![p] = 0] /\ validators' = validators \ {h}
     /\ registry' = IF h = 0 THEN registry ELSE [registry EXCEPT ![p] = {}]
     /\ bus' = IF h = 0 THEN bus ELSE Without(p)
     /\ job' = [job EXCEPT ![t].at = IF h = 0 THEN "registering" ELSE "unregistering"]
     /\ UNCHANGED <<made, pluginOf, raised, perms, worker, main, loading, dispatch>>

KeepWorker(t) ==                          \* mutant of Unregister
  /\ job[t].at = "unregistering"
  /\ perms' = perms \ {job[t].plugin}
  /\ job' = [job EXCEPT ![t].at = "registering"]
  /\ UNCHANGED <<made, pluginOf, raised, handles, worker, validators, registry, bus, main, loading, dispatch>>

\* ... and the supervisor and the permission manager forget the plugin
Unregister(t) ==
  LET p == job[t].plugin
  IN /\ job[t].at = "unregistering"
     /\ worker' = [worker EXCEPT ![p] = 0] /\ perms' = perms \ {p}
     /\ job' = [job EXCEPT ![t].at = "registering"]
     /\ UNCHANGED <<made, pluginOf, raised, handles, validators, registry, bus, main, loading, dispatch>>

UnnamedHandle(p) ==                       \* mutant of NewHandle
  made < MaxHandles /\ made' = made + 1 /\ UNCHANGED pluginOf

\* A new handle; register() and the tools the definition declares
NewHandle(p) ==
  /\ made < MaxHandles /\ made' = made + 1
  /\ pluginOf' = [pluginOf EXCEPT ![made + 1] = p]

Serve(p, S) ==
  /\ registry' = [registry EXCEPT ![p] = @ \cup S]
  /\ bus' = [t \in Tool |-> bus[t] \cup (IF t \in S THEN {p} ELSE {})]

Register(t) ==
  LET p == job[t].plugin
  IN /\ job[t].at = "registering" /\ NewHandle(p)
     /\ Wanted(p) = Tools[p] /\ Serve(p, Tools[p])
     /\ validators' = validators \cup {made + 1}
     /\ job' = [job EXCEPT ![t].at = "supervising", ![t].handle = made + 1]
     /\ UNCHANGED <<raised, handles, perms, worker, main, loading, dispatch>>

\* An exception leaves behind what was registered before it.  From register()
\* it is caught; from a declared tool whose name is taken it ends the load or
\* the poller.
RegisterRaises(t) ==
  LET p == job[t].plugin
      taken == Wanted(p) # Tools[p]
  IN /\ job[t].at = "registering" /\ NewHandle(p) /\ raised' = raised \cup {made + 1}
     /\ \E S \in SUBSET Wanted(p) : Serve(p, S)
     /\ validators' \in {validators, validators \cup {made + 1}}
     /\ job' = [job EXCEPT ![t] = Resting]
     /\ \/ UNCHANGED <<main, active>>
        \/ taken /\ t = Main /\ main' = "aborted" /\ UNCHANGED active
        \/ taken /\ t # Main /\ active' = active \ {t} /\ UNCHANGED main
     /\ UNCHANGED <<handles, perms, worker, hosted, loads, toLoad, current, expired,
                    disabled, toVisit, cur, fatal>>

StoreFirst(t) ==                          \* mutant of Supervise
  LET p == job[t].plugin
  IN /\ job[t].at = "supervising"
     /\ handles' = [handles EXCEPT ![p] = job[t].handle]
     /\ \/ /\ worker' = [worker EXCEPT ![p] = job[t].handle]
           /\ job' = [job EXCEPT ![t].at = "storing"] /\ UNCHANGED raised
        \/ /\ job' = [job EXCEPT ![t] = Resting]
           /\ raised' = raised \cup {job[t].handle} /\ UNCHANGED worker
     /\ UNCHANGED <<made, pluginOf, validators, registry, bus, perms,
                    main, loading, dispatch>>

\* WorkerSupervisor.register() starts a worker
Supervise(t) ==
  LET p == job[t].plugin
  IN /\ job[t].at = "supervising"
     /\ \/ /\ worker' = [worker EXCEPT ![p] = job[t].handle]
           /\ job' = [job EXCEPT ![t].at = "storing"] /\ UNCHANGED raised
        \/ /\ job' = [job EXCEPT ![t] = Resting]
           /\ raised' = raised \cup {job[t].handle} /\ UNCHANGED worker
     /\ UNCHANGED <<made, pluginOf, handles, validators, registry, bus, perms,
                    main, loading, dispatch>>

Store(t) ==
  LET p == job[t].plugin
  IN /\ job[t].at = "storing"
     /\ perms' = perms \cup {p} /\ handles' = [handles EXCEPT ![p] = job[t].handle]
     /\ job' = [job EXCEPT ![t] = Resting]
     /\ UNCHANGED <<made, pluginOf, raised, validators, registry, bus, worker, main, loading, dispatch>>

-----------------------------------------------------------------------------
(* load_from_manifest() and reload_plugin() *)

\* clear(), up to stopping the controller.  It forgets the permissions of the
\* plugins that have a handle.
Clear ==
  /\ main \in {"empty", "ready", "aborted"} /\ Idle(Main) /\ loads < MaxLoads
  /\ main' = "stopping" /\ loads' = loads + 1
  /\ hosted' = {} /\ handles' = Nothing /\ validators' = {}
  /\ registry' = NoTools /\ bus' = [t \in Tool |-> {p \in bus[t] : t \notin registry[p]}]
  /\ perms' = {p \in perms : handles[p] = 0}
  /\ UNCHANGED <<made, pluginOf, raised, worker, job, toLoad, active, current, expired,
                 disabled, toVisit, cur, fatal>>

\* the rest of clear(), and the definitions of the new manifest
Halt ==
  /\ main = "stopping"
  /\ \/ (\A t \in current : Idle(t)) /\ active' = active \ current /\ UNCHANGED expired
     \/ current # {} /\ expired' = TRUE /\ UNCHANGED active
  /\ current' = {} /\ worker' = Nothing
  /\ toLoad' = Plugin /\ main' = "loading"
  /\ UNCHANGED <<made, pluginOf, raised, handles, validators, registry, bus, perms, job,
                 hosted, loads, dispatch>>

Load(p) ==
  /\ main = "loading" /\ Idle(Main) /\ p \in toLoad
  /\ toLoad' = toLoad \ {p} /\ hosted' = hosted \cup {p}
  /\ job' = [job EXCEPT ![Main] = SameJob(p, "removing")]
  /\ UNCHANGED <<made, pluginOf, raised, hooks, main, loads, active, current, expired, dispatch>>

\* _configure_hot_reload(): a new controller with a poller, or none
Configure ==
  /\ main = "loading" /\ Idle(Main) /\ toLoad = {}
  /\ \/ UNCHANGED <<active, current>>
     \/ \E t \in Poller \ active : active' = active \cup {t} /\ current' = {t}
  /\ main' = "ready"
  /\ UNCHANGED <<made, pluginOf, raised, hooks, job, hosted, loads, toLoad, expired, dispatch>>

Reload(t, p) ==
  /\ t \in active /\ Idle(t) /\ p \in hosted
  /\ job' = [job EXCEPT ![t] = SameJob(p, "removing")]
  /\ UNCHANGED <<made, pluginOf, raised, hooks, main, loading, dispatch>>

-----------------------------------------------------------------------------
(* Dispatching a hook to the plugins *)

Dispatch ==
  /\ main = "ready" /\ main' = "dispatching"
  /\ toVisit' = {handles[p] : p \in Plugin} \ {0}
  /\ fatal' \in BOOLEAN
  /\ UNCHANGED <<made, pluginOf, raised, hooks, job, loading, disabled, cur>>

\* _record_violation(); before_stage passes the failure on
Violation(h) ==
  /\ disabled' = disabled \cup {h} /\ toVisit' = toVisit \ {h}
  /\ main' = IF fatal THEN "aborted" ELSE "dispatching"

\* a plugin without a worker, as one being reloaded is, counts as failed
Visit(h) ==
  /\ main = "dispatching" /\ h \in toVisit
  /\ \/ /\ h \in disabled /\ toVisit' = toVisit \ {h}
        /\ UNCHANGED <<main, disabled, cur>>
     \/ /\ h \notin disabled /\ worker[pluginOf[h]] # 0
        /\ main' = "calling" /\ cur' = h
        /\ UNCHANGED <<disabled, toVisit>>
     \/ h \notin disabled /\ worker[pluginOf[h]] = 0 /\ Violation(h) /\ UNCHANGED cur
  /\ UNCHANGED <<made, pluginOf, raised, hooks, job, loading, fatal>>

Returned ==
  /\ main = "calling" /\ main' = "dispatching" /\ toVisit' = toVisit \ {cur}
  /\ UNCHANGED <<made, pluginOf, raised, hooks, job, loading, disabled, cur, fatal>>

\* the plugin raises or exceeds its budget, or its worker is shut down
Failed ==
  /\ main = "calling" /\ Violation(cur)
  /\ UNCHANGED <<made, pluginOf, raised, hooks, job, loading, cur, fatal>>

EndDispatch ==
  /\ main = "dispatching" /\ toVisit = {} /\ main' = "ready"
  /\ UNCHANGED <<made, pluginOf, raised, hooks, job, loading, dispatch>>

Next ==
  \/ \E t \in Actor : Remove(t) \/ Unregister(t) \/ Register(t) \/ RegisterRaises(t)
                       \/ Supervise(t) \/ Store(t)
  \/ Clear \/ Halt \/ Configure \/ Dispatch \/ Returned \/ Failed \/ EndDispatch
  \/ \E p \in Plugin : Load(p) \/ \E t \in Poller : Reload(t, p)
  \/ \E h \in Handle : Visit(h)
Spec == Init /\ [][Next]_vars

-----------------------------------------------------------------------------
TypeOK ==
  /\ \A p \in Plugin : handles[p] # 0 => pluginOf[handles[p]] = p
  /\ made \in 0..MaxHandles /\ pluginOf \in [Handle -> Plugin]
  /\ handles \in [Plugin -> 0..made] /\ worker \in [Plugin -> 0..made]
  /\ validators \subseteq 1..made /\ disabled \subseteq 1..made /\ raised \subseteq 1..made
  /\ registry \in [Plugin -> SUBSET Tool] /\ bus \in [Tool -> SUBSET Plugin]
  /\ perms \subseteq Plugin /\ hosted \subseteq Plugin /\ toLoad \subseteq Plugin
  /\ job \in [Actor -> [at : {"idle", "removing", "unregistering", "registering",
                               "supervising", "storing"},
                         plugin : Plugin, handle : 0..made]]
  /\ main \in {"empty", "stopping", "loading", "ready", "dispatching", "calling", "aborted"}
  /\ loads \in 0..MaxLoads /\ expired \in BOOLEAN /\ active \subseteq Poller /\ current \subseteq Poller
  /\ toVisit \subseteq 1..made /\ cur \in 0..made
  /\ fatal \in BOOLEAN

\* No thread is registering p, and every plugin of the manifest has been loaded
Quiet(p) ==
  /\ main \in {"ready", "dispatching", "calling"} /\ ~expired
  /\ \A t \in Actor : Idle(t) \/ job[t].plugin # p

\* Between registrations a plugin is there with its worker, its hooks, its
\* tools and its permissions, or has neither handle nor worker (register_plugin),
\* unless a poller has outlived the stop of its controller.
Coherent ==
  \A p \in Plugin : Quiet(p) =>
    /\ worker[p] = handles[p]
    /\ handles[p] # 0 => /\ p \in perms /\ handles[p] \in validators
                         /\ Tools[p] \subseteq registry[p]
    /\ handles[p] = 0 => p \notin perms

\* A tool on the bus belongs to the one plugin whose registry lists it
\* (register_tool_endpoint, _remove_handle, clear).
OneOwner ==
  \A t \in Tool : bus[t] = {p \in Plugin : t \in registry[p]} /\ Cardinality(bus[t]) <= 1

\* A worker is shut down before another takes its place, except under clear(),
\* which forgets the handles before it stops the poller.
WorkersKept ==
  \A p \in Plugin : worker[p] # 0 /\ worker'[p] # 0 /\ main # "stopping" /\ ~expired
                      => worker'[p] = worker[p]
NoWorkerLost == [][WorkersKept]_vars

\* PluginHandle: "Track plugin metadata and registered callbacks" (line 141).
\* Every hook in the manager's lists is tracked by the handle of a plugin or by
\* one being registered; registrations that failed leave theirs behind.
HooksTracked ==
  main \in {"ready", "dispatching", "calling"} /\ ~expired =>
    \A h \in validators \ raised : \/ \E p \in Plugin : handles[p] = h
                                   \/ \E t \in Actor : ~Idle(t) /\ job[t].handle = h

\* What the parts of the manager hold of a plugin agrees (PluginManager).
ManagerInv == TypeOK /\ Coherent /\ OneOwner /\ HooksTracked

-----------------------------------------------------------------------------
(* Proofs *)

(***************************************************************************)
(* What the manager, its supervisor, the tool bus and the permissions hold *)
(* of a plugin agrees, for any plugins, tools, pollers and numbers of      *)
(* handles and loads.                                                      *)
(***************************************************************************)

-----------------------------------------------------------------------------
(* The inductive invariant.  Up to the poller that outlives its controller  *)
(* one thread at most registers a plugin; what is said of handles, workers *)
(* and hooks ends there.                                                   *)

On(t, p, at) == job[t].at = at /\ job[t].plugin = p

(* What a registration calls its handle is one it made for the plugin.     *)
JobHandles ==
  \A t \in Actor :
    IF job[t].at \in {"supervising", "storing"}
    THEN job[t].handle # 0 /\ pluginOf[job[t].handle] = job[t].plugin
    ELSE ~Idle(t) => job[t].handle = 0

Owners ==
  \A t \in Tool : /\ bus[t] = {p \in Plugin : t \in registry[p]}
                  /\ \A p, q \in bus[t] : p = q

(* The controller's poller is the only one that runs, and not while the    *)
(* setup thread loads.                                                     *)
Phases ==
  /\ ~Idle(Main) => main = "loading" /\ job[Main].plugin \notin toLoad
  /\ main = "loading" \/ toLoad # {} => current = {}
  /\ main \in {"ready", "dispatching", "calling"} => toLoad = {}
  /\ main = "calling" => cur # 0
  /\ ~expired => /\ active \subseteq current /\ \A t, u \in current : t = u
                 /\ \A t \in Poller : ~Idle(t) => t \in active

(* Between a handle's removal and the next one's the plugin has none, and   *)
(* a plugin without one is in the permissions only until it is forgotten.  *)
Unhandled ==
  ~expired =>
    /\ \A t \in Actor : job[t].at \in {"unregistering", "registering", "supervising", "storing"} =>
         handles[job[t].plugin] = 0
    /\ \A p \in perms : handles[p] = 0 => \E t \in Actor : On(t, p, "unregistering")

(* A plugin being registered has no worker until the supervisor starts its *)
(* own; a plugin whose registration is over has all its parts or neither   *)
(* handle nor worker; one still to load has no worker.                     *)
Prepared(t) ==
  LET p == job[t].plugin
      h == job[t].handle
  IN /\ job[t].at = "removing" /\ handles[p] = 0 => worker[p] = 0
     /\ job[t].at \in {"registering", "supervising"} => worker[p] = 0
     /\ job[t].at = "storing" => worker[p] = h
     /\ job[t].at \in {"supervising", "storing"} => h \in validators /\ Tools[p] \subseteq registry[p]

Whole(p) ==
  /\ worker[p] = handles[p]
  /\ handles[p] # 0 => p \in perms /\ handles[p] \in validators /\ Tools[p] \subseteq registry[p]

AtRest(p) == \A t \in Actor : Idle(t) \/ job[t].plugin # p

Workers ==
  ~expired /\ main # "stopping" =>
    /\ \A p \in toLoad : worker[p] = 0
    /\ \A t \in Actor : Prepared(t)
    /\ \A p \in Plugin \ toLoad : AtRest(p) => Whole(p)

Tracked ==
  ~expired =>
    \A h \in validators \ raised : \/ \E p \in Plugin : handles[p] = h
                                   \/ \E t \in Actor : ~Idle(t) /\ job[t].handle = h

Inv == TypeOK /\ JobHandles /\ Owners /\ Phases /\ Unhandled /\ Workers /\ Tracked

-----------------------------------------------------------------------------
(* Types                                                                   *)

(* The registrations in progress, with n handles made.                     *)
Stages == {"idle", "removing", "unregistering", "registering", "supervising", "storing"}
Jobs(n) == [at : Stages, plugin : Plugin, handle : 0..n]

LEMMA RestingJob ==
  ASSUME PluginAssumption, NEW n \in Nat
  PROVE  /\ Resting \in Jobs(n)
         /\ Resting.at = "idle" /\ Resting.handle = 0
  <1>1. (CHOOSE p \in Plugin : TRUE) \in Plugin
    BY DEF PluginAssumption
  <1>2. QED
    BY <1>1 DEF Resting, Jobs, Stages

LEMMA StartedJob ==
  ASSUME NEW n \in Nat, NEW p \in Plugin
  PROVE  /\ SameJob(p, "removing") \in Jobs(n)
         /\ SameJob(p, "removing").at = "removing"
         /\ SameJob(p, "removing").plugin = p /\ SameJob(p, "removing").handle = 0
  BY DEF SameJob, Jobs, Stages

(* One thread goes on; the others do not.                                  *)
LEMMA Moves ==
  ASSUME NEW n \in Nat, NEW f \in [Actor -> Jobs(n)], NEW t \in Actor, NEW a \in Stages
  PROVE  LET g == [f EXCEPT ![t].at = a]
         IN /\ g \in [Actor -> Jobs(n)]
            /\ g[t].at = a /\ g[t].plugin = f[t].plugin /\ g[t].handle = f[t].handle
            /\ \A u \in Actor \ {t} : g[u] = f[u]
  <1>1. [f[t] EXCEPT !.at = a] = [at |-> a, plugin |-> f[t].plugin, handle |-> f[t].handle]
    BY DEF Jobs
  <1>2. [f[t] EXCEPT !.at = a] \in Jobs(n)
    BY <1>1 DEF Jobs
  <1>3. QED
    BY <1>1, <1>2 DEF Jobs

LEMMA Names ==
  ASSUME NEW n \in Nat, NEW f \in [Actor -> Jobs(n)], NEW t \in Actor
  PROVE  LET g == [f EXCEPT ![t].at = "supervising", ![t].handle = n + 1]
         IN /\ g \in [Actor -> Jobs(n + 1)]
            /\ g[t].at = "supervising" /\ g[t].plugin = f[t].plugin /\ g[t].handle = n + 1
            /\ \A u \in Actor \ {t} : g[u] = f[u]
  <1> DEFINE m == [f EXCEPT ![t].at = "supervising"]
             g == [f EXCEPT ![t].at = "supervising", ![t].handle = n + 1]
  <1>1. /\ m \in [Actor -> Jobs(n)]
        /\ m[t].at = "supervising" /\ m[t].plugin = f[t].plugin /\ m[t].handle = f[t].handle
        /\ \A u \in Actor \ {t} : m[u] = f[u]
    BY Moves DEF Stages
  <1>2. g = [m EXCEPT ![t].handle = n + 1]
    OBVIOUS
  <1> HIDE DEF m
  <1>3. [m[t] EXCEPT !.handle = n + 1] = [at |-> "supervising", plugin |-> f[t].plugin, handle |-> n + 1]
    BY <1>1 DEF Jobs
  <1>4. [m[t] EXCEPT !.handle = n + 1] \in Jobs(n + 1)
    BY <1>3 DEF Jobs, Stages
  <1>5. m \in [Actor -> Jobs(n + 1)]
    BY <1>1 DEF Jobs
  <1>6. g[t] = [m[t] EXCEPT !.handle = n + 1]
    BY <1>1, <1>2
  <1>7. \A u \in Actor \ {t} : g[u] = m[u]
    BY <1>1, <1>2
  <1>8. g \in [Actor -> Jobs(n + 1)]
    BY <1>2, <1>4, <1>5, <1>6, <1>7
  <1>9. QED
    BY <1>1, <1>3, <1>6, <1>7, <1>8

LEMMA Turns ==
  ASSUME NEW n \in Nat, NEW f \in [Actor -> Jobs(n)], NEW t \in Actor, NEW r \in Jobs(n)
  PROVE  LET g == [f EXCEPT ![t] = r]
         IN /\ g \in [Actor -> Jobs(n)]
            /\ g[t] = r
            /\ \A u \in Actor \ {t} : g[u] = f[u]
  BY DEF Jobs

LEMMA JobTypes ==
  ASSUME TypeOK
  PROVE  /\ made \in Nat /\ made \in 0..MaxHandles /\ job \in [Actor -> Jobs(made)]
         /\ \A t \in Actor : job[t].at \in Stages /\ job[t].plugin \in Plugin /\ job[t].handle \in 0..made
  <1>1. made \in Nat /\ made \in 0..MaxHandles /\ job \in [Actor -> Jobs(made)]
    BY DEF TypeOK, Jobs, Stages
  <1>2. QED
    BY <1>1 DEF Jobs

-----------------------------------------------------------------------------
(* Types                                                                   *)

LEMMA TypeRemove ==
  ASSUME PluginAssumption, TypeOK, NEW t \in Actor, Remove(t)
  PROVE  TypeOK'
  <1> DEFINE p == job[t].plugin
  <1>1. p \in Plugin /\ made \in Nat
    BY JobTypes
  <1>2. job' \in [Actor -> Jobs(made)]
    <2>1. PICK a \in Stages : job' = [job EXCEPT ![t].at = a]
      BY DEF Remove, Stages
    <2>2. QED
      BY <2>1, JobTypes, Moves
  <1> HIDE DEF p
  <1>3. QED
    BY <1>1, <1>2 DEF TypeOK, Remove, Without, Handle, loading, dispatch, Jobs, Stages, p

LEMMA TypeUnregister ==
  ASSUME PluginAssumption, TypeOK, NEW t \in Actor, Unregister(t)
  PROVE  TypeOK'
  <1>1. job[t].plugin \in Plugin /\ made \in Nat
    BY JobTypes
  <1>2. job' \in [Actor -> Jobs(made)]
    <2>1. "registering" \in Stages
      BY DEF Stages
    <2>2. QED
      BY <2>1, JobTypes, Moves DEF Unregister
  <1>3. QED
    BY <1>1, <1>2 DEF TypeOK, Unregister, Handle, loading, dispatch, Jobs, Stages

LEMMA TypeRegister ==
  ASSUME PluginAssumption, TypeOK, NEW t \in Actor, Register(t)
  PROVE  TypeOK'
  <1>1. job[t].plugin \in Plugin /\ made \in Nat
    BY JobTypes
  <1>2. job' \in [Actor -> Jobs(made + 1)]
    BY JobTypes, Names DEF Register
  <1>3. registry' \in [Plugin -> SUBSET Tool] /\ bus' \in [Tool -> SUBSET Plugin]
    <2>1. Serve(job[t].plugin, Tools[job[t].plugin]) /\ Tools[job[t].plugin] \subseteq Tool
      BY <1>1 DEF Register, PluginAssumption
    <2>2. QED
      BY <1>1, <2>1 DEF Serve, TypeOK
  <1>4. /\ made' = made + 1 /\ made' \in 0..MaxHandles /\ pluginOf' \in [Handle -> Plugin]
        /\ \A h \in 1..made : pluginOf'[h] = pluginOf[h]
    BY <1>1 DEF Register, NewHandle, TypeOK, PluginAssumption, Handle
  <1>5. validators' \subseteq 1..made'
    BY <1>1, <1>4 DEF Register, TypeOK
  <1>6. UNCHANGED <<raised, handles, perms, worker, main, loading, dispatch>>
    BY DEF Register
  <1>7. QED
    BY <1>1, <1>2, <1>3, <1>4, <1>5, <1>6 DEF TypeOK, loading, dispatch, Jobs, Stages

LEMMA TypeRaises ==
  ASSUME PluginAssumption, TypeOK, NEW t \in Actor, RegisterRaises(t)
  PROVE  TypeOK'
  <1>1. job[t].plugin \in Plugin /\ made \in Nat
    BY JobTypes
  <1>2. job' \in [Actor -> Jobs(made)]
    BY JobTypes, Turns, RestingJob DEF RegisterRaises
  <1>3. registry' \in [Plugin -> SUBSET Tool] /\ bus' \in [Tool -> SUBSET Plugin]
    <2>1. PICK S \in SUBSET Wanted(job[t].plugin) : Serve(job[t].plugin, S)
      BY DEF RegisterRaises
    <2>2. S \subseteq Tool
      BY <1>1, <2>1 DEF Wanted, PluginAssumption
    <2>3. QED
      BY <1>1, <2>1, <2>2 DEF Serve, TypeOK
  <1>4. /\ made' = made + 1 /\ made' \in 0..MaxHandles /\ pluginOf' \in [Handle -> Plugin]
        /\ \A h \in 1..made : pluginOf'[h] = pluginOf[h]
    BY <1>1 DEF RegisterRaises, NewHandle, TypeOK, PluginAssumption, Handle
  <1>5. /\ raised' \subseteq 1..made' /\ validators' \subseteq 1..made'
        /\ active' \subseteq Poller
        /\ main' \in {"empty", "stopping", "loading", "ready", "dispatching", "calling", "aborted"}
    BY <1>1, <1>4 DEF RegisterRaises, TypeOK
  <1>6. UNCHANGED <<handles, perms, worker, hosted, loads, toLoad, current, expired,
                    disabled, toVisit, cur, fatal>>
    BY DEF RegisterRaises
  <1>7. QED
    BY <1>1, <1>2, <1>3, <1>4, <1>5, <1>6 DEF TypeOK, Jobs, Stages

LEMMA TypeSupervise ==
  ASSUME PluginAssumption, TypeOK, JobHandles, NEW t \in Actor, Supervise(t)
  PROVE  TypeOK'
  <1>1. job[t].plugin \in Plugin /\ job[t].handle \in 1..made /\ made \in Nat
    BY JobTypes DEF JobHandles, Supervise
  <1>2. job' \in [Actor -> Jobs(made)]
    <2>1. "storing" \in Stages
      BY DEF Stages
    <2>2. CASE job' = [job EXCEPT ![t].at = "storing"]
      BY <2>1, <2>2, JobTypes, Moves
    <2>3. CASE job' = [job EXCEPT ![t] = Resting]
      BY <2>3, JobTypes, Turns, RestingJob
    <2>4. QED
      BY <2>2, <2>3 DEF Supervise
  <1>3. QED
    BY <1>1, <1>2 DEF TypeOK, Supervise, Handle, loading, dispatch, Jobs, Stages

LEMMA TypeStore ==
  ASSUME PluginAssumption, TypeOK, JobHandles, NEW t \in Actor, Store(t)
  PROVE  TypeOK'
  <1>1. /\ job[t].plugin \in Plugin /\ job[t].handle \in 1..made /\ made \in Nat
        /\ pluginOf[job[t].handle] = job[t].plugin
    BY JobTypes DEF JobHandles, Store
  <1>2. job' \in [Actor -> Jobs(made)]
    BY JobTypes, Turns, RestingJob DEF Store
  <1>3. QED
    BY <1>1, <1>2 DEF TypeOK, Store, Handle, loading, dispatch, Jobs, Stages

LEMMA TypeClear ==
  ASSUME PluginAssumption, TypeOK, Clear
  PROVE  TypeOK'
  BY DEF PluginAssumption, TypeOK, Clear, Handle, Nothing, NoTools

LEMMA TypeHalt ==
  ASSUME PluginAssumption, TypeOK, Halt
  PROVE  TypeOK'
  <1>1. expired' \in BOOLEAN
    <2>1. CASE UNCHANGED expired
      BY <2>1 DEF TypeOK
    <2>2. CASE expired' = TRUE
      BY <2>2
    <2>3. QED
      BY <2>1, <2>2 DEF Halt
  <1>2. QED
    BY <1>1 DEF PluginAssumption, TypeOK, Halt, Handle, Nothing, dispatch

LEMMA TypeLoad ==
  ASSUME PluginAssumption, TypeOK, NEW p \in Plugin, Load(p)
  PROVE  TypeOK'
  <1>1. made \in Nat /\ Main \in Actor
    BY JobTypes DEF Actor
  <1>2. job' \in [Actor -> Jobs(made)]
    BY <1>1, JobTypes, Turns, StartedJob DEF Load
  <1>3. QED
    BY <1>1, <1>2 DEF TypeOK, Load, Handle, hooks, dispatch, Jobs, Stages

LEMMA TypeConfigure ==
  ASSUME PluginAssumption, TypeOK, Configure
  PROVE  TypeOK'
  BY DEF PluginAssumption, TypeOK, Configure, Handle, hooks, dispatch

LEMMA TypeReload ==
  ASSUME PluginAssumption, TypeOK, NEW t \in Poller, NEW p \in Plugin, Reload(t, p)
  PROVE  TypeOK'
  <1>1. made \in Nat /\ t \in Actor
    BY JobTypes DEF Actor
  <1>2. job' \in [Actor -> Jobs(made)]
    BY <1>1, JobTypes, Turns, StartedJob DEF Reload
  <1>3. QED
    BY <1>1, <1>2 DEF TypeOK, Reload, Handle, hooks, loading, dispatch, Jobs, Stages

(* The dispatch changes only what is its own.                              *)
Dispatches == Dispatch \/ (\E h \in Handle : Visit(h)) \/ Returned \/ Failed \/ EndDispatch

LEMMA Dispatched ==
  ASSUME TypeOK, Phases, Dispatches
  PROVE  /\ main \in {"ready", "dispatching", "calling"}
         /\ main' \in {"ready", "dispatching", "calling", "aborted"}
         /\ UNCHANGED <<made, pluginOf, raised, hooks, job, loading>>
         /\ disabled' \subseteq 1..made /\ toVisit' \subseteq 1..made /\ cur' \in 0..made
         /\ fatal' \in BOOLEAN
         /\ main' = "calling" => cur' # 0
  <1>1. CASE Dispatch
    BY <1>1 DEF Dispatch, TypeOK, loading
  <1>2. CASE \E h \in Handle : Visit(h)
    <2>1. PICK h \in Handle : Visit(h)
      BY <1>2
    <2>2. h \in 1..made /\ made \in Nat /\ main = "dispatching" /\ fatal' = fatal
      BY <2>1 DEF Visit, TypeOK
    <2>3. UNCHANGED <<made, pluginOf, raised, hooks, job, loading>>
      BY <2>1 DEF Visit
    <2>4. toVisit' \subseteq 1..made /\ disabled' \subseteq 1..made
      BY <2>1, <2>2 DEF Visit, Violation, TypeOK
    <2>5. cur' \in 0..made /\ main' \in {"dispatching", "calling", "aborted"} /\ (main' = "calling" => cur' # 0)
      BY <2>1, <2>2 DEF Visit, Violation, TypeOK
    <2>6. fatal' \in BOOLEAN
      BY <2>2 DEF TypeOK
    <2>7. QED
      BY <2>2, <2>3, <2>4, <2>5, <2>6
  <1>3. CASE Returned
    BY <1>3 DEF Returned, TypeOK, loading
  <1>4. CASE Failed
    <2>1. cur \in 1..made
      BY <1>4 DEF Failed, Phases, TypeOK
    <2>2. QED
      BY <1>4, <2>1 DEF Failed, Violation, TypeOK, loading
  <1>5. CASE EndDispatch
    BY <1>5 DEF EndDispatch, TypeOK, loading, dispatch
  <1>6. QED
    BY <1>1, <1>2, <1>3, <1>4, <1>5 DEF Dispatches

LEMMA TypeDispatches ==
  ASSUME TypeOK, Phases, Dispatches
  PROVE  TypeOK'
  BY Dispatched DEF TypeOK, Handle, hooks, loading

-----------------------------------------------------------------------------
(* One registration at a time                                              *)

LEMMA Sole ==
  ASSUME PluginAssumption, Phases, ~expired
  PROVE  /\ \A t, u \in Actor : ~Idle(t) /\ ~Idle(u) => t = u
         /\ ~Idle(Main) => \A t \in Poller : Idle(t)
  BY DEF PluginAssumption, Phases, Actor

(* A registration that goes on is thread t's: the other threads rest.      *)
LEMMA Alone ==
  ASSUME PluginAssumption, Phases, ~expired, NEW t \in Actor, ~Idle(t)
  PROVE  \A u \in Actor \ {t} : Idle(u)
  BY Sole

LEMMA RemoveKeeps ==
  ASSUME PluginAssumption, Inv, NEW t \in Actor, Remove(t)
  PROVE  Inv'
  <1> DEFINE p == job[t].plugin
             h == handles[p]
  <1>1. /\ p \in Plugin /\ made \in Nat /\ h \in 0..made
        /\ job \in [Actor -> Jobs(made)] /\ job[t].handle = 0
    BY JobTypes DEF Inv, TypeOK, JobHandles, Remove, Idle
  <1>2. TypeOK'
    BY TypeRemove DEF Inv
  <1>3. /\ job'[t].at = IF h = 0 THEN "registering" ELSE "unregistering"
        /\ job'[t].plugin = p /\ job'[t].handle = 0
        /\ \A u \in Actor \ {t} : job'[u] = job[u]
    <2>1. (IF h = 0 THEN "registering" ELSE "unregistering") \in Stages
      BY DEF Stages
    <2>2. job' = [job EXCEPT ![t].at = IF h = 0 THEN "registering" ELSE "unregistering"]
      BY DEF Remove
    <2> HIDE DEF h
    <2>3. QED
      BY <1>1, <2>1, <2>2, Moves
  <1>4. /\ job[t].at = "removing" /\ ~Idle(t)
        /\ handles' \in [Plugin -> 0..made] /\ handles'[p] = 0
        /\ \A q \in Plugin \ {p} : handles'[q] = handles[q]
        /\ validators' = validators \ {h}
    BY <1>1 DEF Remove, Idle, Inv, TypeOK
  <1>5. UNCHANGED <<made, pluginOf, raised, perms, worker, main, loading, dispatch>>
    BY DEF Remove
  <1>6. \A q \in Plugin \ {p} : registry'[q] = registry[q]
    BY <1>1 DEF Remove, Inv, TypeOK
  <1>7. JobHandles'
    BY <1>1, <1>3, <1>5 DEF Inv, JobHandles, Idle
  <1>8. Owners'
    <2>1. CASE h = 0
      BY <2>1 DEF Remove, Inv, Owners
    <2>2. CASE h # 0
      BY <1>1, <2>2 DEF Remove, Without, Inv, Owners, TypeOK
    <2>3. QED
      BY <2>1, <2>2
  <1>9. Phases'
    BY <1>3, <1>4, <1>5 DEF Inv, Phases, Idle, loading, dispatch, Actor
  <1>10. Unhandled'
    <2> SUFFICES ASSUME ~expired PROVE Unhandled!2'
      BY <1>5 DEF Unhandled, loading
    <2>1. QED
      BY <1>1, <1>3, <1>4, <1>5, <1>6, Alone DEF Inv, Unhandled, TypeOK, On, Idle
  <1>11. Workers'
    <2> SUFFICES ASSUME ~expired, main # "stopping"
                 PROVE  /\ \A q \in toLoad : worker[q] = 0
                        /\ \A u \in Actor : Prepared(u)'
                        /\ \A q \in Plugin \ toLoad : AtRest(q)' => Whole(q)'
      BY <1>5 DEF Workers, loading
    <2>1. /\ \A q \in toLoad : worker[q] = 0
          /\ Prepared(t) /\ \A q \in Plugin \ toLoad : AtRest(q) => Whole(q)
      BY DEF Inv, Workers
    <2>2. \A u \in Actor \ {t} : Idle(u)
      BY <1>4, Alone DEF Inv
    <2>3. Prepared(t)'
      BY <1>3, <1>4, <1>5, <2>1 DEF Prepared
    <2>4. \A u \in Actor \ {t} : Prepared(u)'
      BY <1>3, <2>2 DEF Prepared, Idle
    <2>5. ASSUME NEW q \in Plugin \ toLoad, AtRest(q)' PROVE Whole(q)'
      <3>1. q # p
        BY <1>3, <2>5 DEF AtRest, Idle
      <3>2. AtRest(q)
        BY <2>2, <3>1 DEF AtRest
      <3>3. handles[q] # 0 => handles[q] # h
        BY <1>1, <3>1 DEF Inv, TypeOK
      <3>4. QED
        BY <1>4, <1>5, <1>6, <2>1, <3>1, <3>2, <3>3 DEF Whole
    <2>6. QED
      BY <2>1, <2>3, <2>4, <2>5
  <1>12. Tracked'
    BY <1>1, <1>3, <1>4, <1>5 DEF Inv, Tracked, TypeOK, Idle, loading
  <1>13. QED
    BY <1>2, <1>7, <1>8, <1>9, <1>10, <1>11, <1>12 DEF Inv

LEMMA UnregisterKeeps ==
  ASSUME PluginAssumption, Inv, NEW t \in Actor, Unregister(t)
  PROVE  Inv'
  <1> DEFINE p == job[t].plugin
  <1>1. /\ p \in Plugin /\ made \in Nat /\ job \in [Actor -> Jobs(made)]
        /\ job[t].handle = 0 /\ job[t].at = "unregistering" /\ ~Idle(t)
    BY JobTypes DEF Inv, TypeOK, JobHandles, Unregister, Idle
  <1>2. TypeOK'
    BY TypeUnregister DEF Inv
  <1>3. /\ job'[t].at = "registering" /\ job'[t].plugin = p /\ job'[t].handle = 0
        /\ \A u \in Actor \ {t} : job'[u] = job[u]
    <2>1. "registering" \in Stages /\ job' = [job EXCEPT ![t].at = "registering"]
      BY DEF Stages, Unregister
    <2>2. QED
      BY <1>1, <2>1, Moves
  <1>4. /\ worker'[p] = 0 /\ \A q \in Plugin \ {p} : worker'[q] = worker[q]
        /\ perms' = perms \ {p}
    BY <1>1 DEF Unregister, Inv, TypeOK
  <1>5. UNCHANGED <<made, pluginOf, raised, handles, validators, registry, bus, main, loading, dispatch>>
    BY DEF Unregister
  <1>6. JobHandles'
    BY <1>1, <1>3, <1>5 DEF Inv, JobHandles, Idle
  <1>7. Owners'
    BY <1>5 DEF Inv, Owners
  <1>8. Phases'
    BY <1>1, <1>3, <1>5 DEF Inv, Phases, Idle, loading, dispatch, Actor
  <1>9. Unhandled'
    <2> SUFFICES ASSUME ~expired PROVE Unhandled!2'
      BY <1>5 DEF Unhandled, loading
    <2>1. QED
      BY <1>1, <1>3, <1>4, <1>5 DEF Inv, Unhandled, TypeOK, On, Idle
  <1>10. Workers'
    <2> SUFFICES ASSUME ~expired, main # "stopping"
                 PROVE  /\ \A q \in toLoad : worker'[q] = 0
                        /\ \A u \in Actor : Prepared(u)'
                        /\ \A q \in Plugin \ toLoad : AtRest(q)' => Whole(q)'
      BY <1>5 DEF Workers, loading
    <2>1. /\ \A q \in toLoad : worker[q] = 0
          /\ Prepared(t) /\ \A q \in Plugin \ toLoad : AtRest(q) => Whole(q)
      BY DEF Inv, Workers
    <2>2. \A u \in Actor \ {t} : Idle(u)
      BY <1>1, Alone DEF Inv
    <2>3. Prepared(t)'
      BY <1>3, <1>4 DEF Prepared
    <2>4. \A u \in Actor \ {t} : Prepared(u)'
      BY <1>3, <2>2 DEF Prepared, Idle
    <2>5. ASSUME NEW q \in Plugin \ toLoad, AtRest(q)' PROVE Whole(q)'
      <3>1. q # p
        BY <1>3, <2>5 DEF AtRest, Idle
      <3>2. AtRest(q)
        BY <2>2, <3>1 DEF AtRest
      <3>3. QED
        BY <1>4, <1>5, <2>1, <3>1, <3>2 DEF Whole
    <2>6. \A q \in toLoad : worker'[q] = 0
      BY <1>4, <2>1 DEF Inv, TypeOK
    <2>7. QED
      BY <2>3, <2>4, <2>5, <2>6
  <1>11. Tracked'
    BY <1>1, <1>3, <1>5 DEF Inv, Tracked, TypeOK, Idle, loading
  <1>12. QED
    BY <1>2, <1>6, <1>7, <1>8, <1>9, <1>10, <1>11 DEF Inv

(* Serving tools the plugin may take leaves every tool with one plugin.    *)
LEMMA Served ==
  ASSUME TypeOK, Owners, NEW p \in Plugin, NEW S \in SUBSET Tool, S \subseteq Wanted(p), Serve(p, S)
  PROVE  /\ Owners'
         /\ \A q \in Plugin : registry[q] \subseteq registry'[q]
         /\ S \subseteq registry'[p]
  <1>1. /\ registry'[p] = registry[p] \cup S
        /\ \A q \in Plugin \ {p} : registry'[q] = registry[q]
        /\ \A t \in Tool : bus'[t] = bus[t] \cup (IF t \in S THEN {p} ELSE {})
    BY DEF Serve, TypeOK
  <1>2. \A t \in S : bus[t] \subseteq {p}
    BY DEF Wanted
  <1>3. ASSUME NEW t \in Tool
        PROVE  bus'[t] = {q \in Plugin : t \in registry'[q]} /\ \A q, r \in bus'[t] : q = r
    <2>1. bus[t] = {q \in Plugin : t \in registry[q]} /\ \A q, r \in bus[t] : q = r
      BY DEF Owners
    <2>2. CASE t \in S
      BY <1>1, <1>2, <2>1, <2>2
    <2>3. CASE t \notin S
      BY <1>1, <2>1, <2>3
    <2>4. QED
      BY <2>2, <2>3
  <1>4. QED
    BY <1>1, <1>3 DEF Owners

LEMMA RegisterKeeps ==
  ASSUME PluginAssumption, Inv, NEW t \in Actor, Register(t)
  PROVE  Inv'
  <1> DEFINE p == job[t].plugin
  <1>1. /\ p \in Plugin /\ made \in Nat /\ job \in [Actor -> Jobs(made)]
        /\ job[t].handle = 0 /\ job[t].at = "registering" /\ ~Idle(t)
    BY JobTypes DEF Inv, TypeOK, JobHandles, Register, Idle
  <1>2. TypeOK'
    BY TypeRegister DEF Inv
  <1>3. /\ job'[t].at = "supervising" /\ job'[t].plugin = p /\ job'[t].handle = made + 1
        /\ \A u \in Actor \ {t} : job'[u] = job[u]
    BY <1>1, Names DEF Register
  <1>4. /\ made' = made + 1 /\ made + 1 \in Handle
        /\ pluginOf'[made + 1] = p /\ \A h \in 1..made : pluginOf'[h] = pluginOf[h]
        /\ validators' = validators \cup {made + 1}
    BY <1>1 DEF Register, NewHandle, Inv, TypeOK, Handle, PluginAssumption
  <1>5. UNCHANGED <<raised, handles, perms, worker, main, loading, dispatch>>
    BY DEF Register
  <1>6. /\ Owners'
        /\ \A q \in Plugin : registry[q] \subseteq registry'[q]
        /\ Tools[p] \subseteq registry'[p]
    <2>1. Tools[p] \in SUBSET Tool /\ Tools[p] \subseteq Wanted(p) /\ Serve(p, Tools[p])
      BY <1>1 DEF Register, PluginAssumption
    <2>2. QED
      BY <1>1, <2>1, Served DEF Inv
  <1>7. JobHandles'
    <2>1. \A u \in Actor : job[u].handle \in 0..made
      BY JobTypes DEF Inv
    <2>2. QED
      BY <1>1, <1>3, <1>4, <2>1 DEF Inv, JobHandles, Idle
  <1>8. Phases'
    BY <1>1, <1>3, <1>5 DEF Inv, Phases, Idle, loading, dispatch, Actor
  <1>9. Unhandled'
    <2> SUFFICES ASSUME ~expired PROVE Unhandled!2'
      BY <1>5 DEF Unhandled, loading
    <2>1. QED
      BY <1>1, <1>3, <1>5 DEF Inv, Unhandled, TypeOK, On, Idle
  <1>10. Workers'
    <2> SUFFICES ASSUME ~expired, main # "stopping"
                 PROVE  /\ \A q \in toLoad : worker[q] = 0
                        /\ \A u \in Actor : Prepared(u)'
                        /\ \A q \in Plugin \ toLoad : AtRest(q)' => Whole(q)'
      BY <1>5 DEF Workers, loading
    <2>1. /\ \A q \in toLoad : worker[q] = 0
          /\ Prepared(t) /\ \A q \in Plugin \ toLoad : AtRest(q) => Whole(q)
      BY DEF Inv, Workers
    <2>2. \A u \in Actor \ {t} : Idle(u)
      BY <1>1, Alone DEF Inv
    <2>3. Prepared(t)'
      BY <1>1, <1>3, <1>4, <1>5, <1>6, <2>1 DEF Prepared
    <2>4. \A u \in Actor \ {t} : Prepared(u)'
      BY <1>3, <2>2 DEF Prepared, Idle
    <2>5. ASSUME NEW q \in Plugin \ toLoad, AtRest(q)' PROVE Whole(q)'
      <3>1. q # p
        BY <1>3, <2>5 DEF AtRest, Idle
      <3>2. AtRest(q)
        BY <2>2, <3>1 DEF AtRest
      <3>3. registry[q] \subseteq registry'[q]
        BY <1>6
      <3>4. QED
        BY <1>4, <1>5, <2>1, <3>2, <3>3 DEF Whole
    <2>6. QED
      BY <2>1, <2>3, <2>4, <2>5
  <1>11. Tracked'
    <2> SUFFICES ASSUME ~expired, NEW x \in validators' \ raised
                 PROVE  \/ \E q \in Plugin : handles[q] = x
                        \/ \E u \in Actor : ~Idle(u)' /\ job'[u].handle = x
      BY <1>5 DEF Tracked, loading
    <2>1. CASE x = made + 1
      BY <1>3, <2>1 DEF Idle
    <2>2. CASE x # made + 1
      <3>1. x \in validators \ raised /\ x # 0
        BY <1>1, <1>4, <2>2 DEF Inv, TypeOK
      <3>2. ASSUME NEW u \in Actor, ~Idle(u), job[u].handle = x
            PROVE  ~Idle(u)' /\ job'[u].handle = x
        <4>1. u # t
          BY <1>1, <3>1, <3>2
        <4>2. QED
          BY <1>3, <3>2, <4>1 DEF Idle
      <3>3. QED
        BY <3>1, <3>2 DEF Inv, Tracked
    <2>3. QED
      BY <2>1, <2>2
  <1>12. QED
    BY <1>2, <1>6, <1>7, <1>8, <1>9, <1>10, <1>11 DEF Inv

LEMMA RaisesKeeps ==
  ASSUME PluginAssumption, Inv, NEW t \in Actor, RegisterRaises(t)
  PROVE  Inv'
  <1> DEFINE p == job[t].plugin
  <1>1. /\ p \in Plugin /\ made \in Nat /\ job \in [Actor -> Jobs(made)]
        /\ job[t].handle = 0 /\ job[t].at = "registering" /\ ~Idle(t)
    BY JobTypes DEF Inv, TypeOK, JobHandles, RegisterRaises, Idle
  <1>2. TypeOK'
    BY TypeRaises DEF Inv
  <1>3. /\ job'[t].at = "idle" /\ job'[t].handle = 0
        /\ \A u \in Actor \ {t} : job'[u] = job[u]
    BY <1>1, Turns, RestingJob DEF RegisterRaises
  <1>4. /\ made' = made + 1 /\ made + 1 \in Handle
        /\ \A h \in 1..made : pluginOf'[h] = pluginOf[h]
        /\ validators \subseteq validators' /\ validators' \subseteq validators \cup {made + 1}
        /\ raised' = raised \cup {made + 1}
    BY <1>1 DEF RegisterRaises, NewHandle, Inv, TypeOK, Handle, PluginAssumption
  <1>5. UNCHANGED <<handles, perms, worker, hosted, loads, toLoad, current, expired,
                    disabled, toVisit, cur, fatal>>
    BY DEF RegisterRaises
  <1>6. Owners' /\ \A q \in Plugin : registry[q] \subseteq registry'[q]
    <2>1. PICK S \in SUBSET Wanted(p) : Serve(p, S)
      BY DEF RegisterRaises
    <2>2. S \in SUBSET Tool
      BY <1>1, <2>1 DEF Wanted, PluginAssumption
    <2>3. QED
      BY <1>1, <2>1, <2>2, Served DEF Inv
  <1>7. /\ main' = main \/ (main' = "aborted" /\ t = Main)
        /\ active' = active \/ (active' = active \ {t} /\ main' = main)
    BY DEF RegisterRaises
  <1>8. main' # main => main = "loading"
    BY <1>1, <1>7 DEF Inv, Phases
  <1>9. JobHandles'
    <2>1. \A u \in Actor : job[u].handle \in 0..made
      BY JobTypes DEF Inv
    <2>2. QED
      BY <1>1, <1>3, <1>4, <2>1 DEF Inv, JobHandles, Idle
  <1>10. Phases'
    BY <1>1, <1>3, <1>5, <1>7, <1>8 DEF Inv, Phases, Idle, Actor
  <1>11. Unhandled'
    <2> SUFFICES ASSUME ~expired PROVE Unhandled!2'
      BY <1>5 DEF Unhandled
    <2>1. QED
      BY <1>1, <1>3, <1>5 DEF Inv, Unhandled, TypeOK, On, Idle
  <1>12. Workers'
    <2> SUFFICES ASSUME ~expired, main # "stopping"
                 PROVE  /\ \A q \in toLoad : worker[q] = 0
                        /\ \A u \in Actor : Prepared(u)'
                        /\ \A q \in Plugin \ toLoad : AtRest(q)' => Whole(q)'
      BY <1>5, <1>8 DEF Workers
    <2>1. /\ \A q \in toLoad : worker[q] = 0
          /\ Prepared(t) /\ \A q \in Plugin \ toLoad : AtRest(q) => Whole(q)
      BY DEF Inv, Workers
    <2>2. \A u \in Actor \ {t} : Idle(u)
      BY <1>1, Alone DEF Inv
    <2>3. \A u \in Actor : Prepared(u)'
      BY <1>3, <2>2 DEF Prepared, Idle
    <2>4. ASSUME NEW q \in Plugin \ toLoad, AtRest(q)' PROVE Whole(q)'
      <3>1. CASE q = p
        BY <1>1, <1>5, <2>1, <3>1 DEF Prepared, Whole, Inv, Unhandled
      <3>2. CASE q # p
        <4>1. AtRest(q)
          BY <2>2, <3>2 DEF AtRest
        <4>2. registry[q] \subseteq registry'[q]
          BY <1>6
        <4>3. QED
          BY <1>4, <1>5, <2>1, <4>1, <4>2 DEF Whole
      <3>3. QED
        BY <3>1, <3>2
    <2>5. QED
      BY <2>1, <2>3, <2>4
  <1>13. Tracked'
    <2> SUFFICES ASSUME ~expired, NEW x \in validators' \ raised'
                 PROVE  \/ \E q \in Plugin : handles[q] = x
                        \/ \E u \in Actor : ~Idle(u)' /\ job'[u].handle = x
      BY <1>5 DEF Tracked
    <2>1. x \in validators \ raised /\ x # 0
      BY <1>1, <1>4 DEF Inv, TypeOK
    <2>2. ASSUME NEW u \in Actor, ~Idle(u), job[u].handle = x
          PROVE  ~Idle(u)' /\ job'[u].handle = x
      <3>1. u # t
        BY <1>1, <2>1, <2>2
      <3>2. QED
        BY <1>3, <2>2, <3>1 DEF Idle
    <2>3. QED
      BY <2>1, <2>2 DEF Inv, Tracked
  <1>14. QED
    BY <1>2, <1>6, <1>9, <1>10, <1>11, <1>12, <1>13 DEF Inv

LEMMA SuperviseKeeps ==
  ASSUME PluginAssumption, Inv, NEW t \in Actor, Supervise(t)
  PROVE  Inv'
  <1> DEFINE p == job[t].plugin
             h == job[t].handle
  <1>1. /\ p \in Plugin /\ made \in Nat /\ job \in [Actor -> Jobs(made)] /\ h \in 1..made
        /\ pluginOf[h] = p /\ job[t].at = "supervising" /\ ~Idle(t)
    BY JobTypes DEF Inv, TypeOK, JobHandles, Supervise, Idle
  <1>2. TypeOK'
    BY TypeSupervise DEF Inv
  <1>3. /\ \/ /\ job'[t].at = "storing" /\ job'[t].plugin = p /\ job'[t].handle = h
              /\ worker'[p] = h /\ raised' = raised
           \/ /\ job'[t].at = "idle" /\ job'[t].handle = 0
              /\ worker'[p] = worker[p] /\ raised' = raised \cup {h}
        /\ \A u \in Actor \ {t} : job'[u] = job[u]
        /\ \A q \in Plugin \ {p} : worker'[q] = worker[q]
    <2>1. CASE job' = [job EXCEPT ![t].at = "storing"] /\ worker' = [worker EXCEPT ![p] = h] /\ raised' = raised
      <3>1. "storing" \in Stages /\ worker \in [Plugin -> 0..made]
        BY DEF Stages, Inv, TypeOK
      <3>2. QED
        BY <1>1, <2>1, <3>1, Moves
    <2>2. CASE job' = [job EXCEPT ![t] = Resting] /\ worker' = worker /\ raised' = raised \cup {h}
      BY <1>1, <2>2, Turns, RestingJob
    <2>3. QED
      BY <2>1, <2>2 DEF Supervise
  <1>5. UNCHANGED <<made, pluginOf, handles, validators, registry, bus, perms, main, loading, dispatch>>
    BY DEF Supervise
  <1>6. JobHandles'
    BY <1>1, <1>3, <1>5 DEF Inv, JobHandles, Idle
  <1>7. Owners'
    BY <1>5 DEF Inv, Owners
  <1>8. Phases'
    BY <1>1, <1>3, <1>5 DEF Inv, Phases, Idle, loading, dispatch, Actor
  <1>9. Unhandled'
    <2> SUFFICES ASSUME ~expired PROVE Unhandled!2'
      BY <1>5 DEF Unhandled, loading
    <2>1. QED
      BY <1>1, <1>3, <1>5 DEF Inv, Unhandled, TypeOK, On, Idle
  <1>10. Workers'
    <2> SUFFICES ASSUME ~expired, main # "stopping"
                 PROVE  /\ \A q \in toLoad : worker'[q] = 0
                        /\ \A u \in Actor : Prepared(u)'
                        /\ \A q \in Plugin \ toLoad : AtRest(q)' => Whole(q)'
      BY <1>5 DEF Workers, loading
    <2>1. /\ \A q \in toLoad : worker[q] = 0
          /\ Prepared(t) /\ \A q \in Plugin \ toLoad : AtRest(q) => Whole(q)
      BY DEF Inv, Workers
    <2>2. \A u \in Actor \ {t} : Idle(u)
      BY <1>1, Alone DEF Inv
    <2>3. p \notin toLoad
      <3>1. CASE t = Main
        BY <1>1, <3>1 DEF Inv, Phases
      <3>2. CASE t # Main
        BY <1>1, <3>2 DEF Inv, Phases, Actor
      <3>3. QED
        BY <3>1, <3>2
    <2>4. Prepared(t)'
      BY <1>1, <1>3, <1>5, <2>1 DEF Prepared
    <2>5. \A u \in Actor \ {t} : Prepared(u)'
      BY <1>3, <2>2 DEF Prepared, Idle
    <2>6. ASSUME NEW q \in Plugin \ toLoad, AtRest(q)' PROVE Whole(q)'
      <3>1. CASE q = p
        <4>1. job'[t].at = "idle" /\ worker'[p] = 0 /\ handles[p] = 0
          BY <1>1, <1>3, <2>1, <2>6, <3>1 DEF AtRest, Idle, Prepared, Inv, Unhandled
        <4>2. QED
          BY <1>5, <3>1, <4>1 DEF Whole
      <3>2. CASE q # p
        <4>1. AtRest(q)
          BY <2>2, <3>2 DEF AtRest
        <4>2. QED
          BY <1>3, <1>5, <2>1, <3>2, <4>1 DEF Whole
      <3>3. QED
        BY <3>1, <3>2
    <2>7. \A q \in toLoad : worker'[q] = 0
      BY <1>3, <2>1, <2>3 DEF Inv, TypeOK
    <2>8. QED
      BY <2>4, <2>5, <2>6, <2>7
  <1>11. Tracked'
    <2> SUFFICES ASSUME ~expired, NEW x \in validators \ raised'
                 PROVE  \/ \E q \in Plugin : handles[q] = x
                        \/ \E u \in Actor : ~Idle(u)' /\ job'[u].handle = x
      BY <1>5 DEF Tracked, loading
    <2>1. x \in validators \ raised
      BY <1>3
    <2>2. CASE \E q \in Plugin : handles[q] = x
      BY <2>2
    <2>3. CASE \E u \in Actor : ~Idle(u) /\ job[u].handle = x
      <3>1. PICK u \in Actor : ~Idle(u) /\ job[u].handle = x
        BY <2>3
      <3>2. CASE u = t
        BY <1>3, <3>1, <3>2 DEF Idle
      <3>3. CASE u # t
        BY <1>3, <3>1, <3>3 DEF Idle
      <3>4. QED
        BY <3>2, <3>3
    <2>4. QED
      BY <2>1, <2>2, <2>3 DEF Inv, Tracked
  <1>12. QED
    BY <1>2, <1>6, <1>7, <1>8, <1>9, <1>10, <1>11 DEF Inv

LEMMA StoreKeeps ==
  ASSUME PluginAssumption, Inv, NEW t \in Actor, Store(t)
  PROVE  Inv'
  <1> DEFINE p == job[t].plugin
             h == job[t].handle
  <1>1. /\ p \in Plugin /\ made \in Nat /\ job \in [Actor -> Jobs(made)] /\ h \in 1..made
        /\ pluginOf[h] = p /\ job[t].at = "storing" /\ ~Idle(t)
    BY JobTypes DEF Inv, TypeOK, JobHandles, Store, Idle
  <1>2. TypeOK'
    BY TypeStore DEF Inv
  <1>3. /\ job'[t].at = "idle" /\ job'[t].handle = 0
        /\ \A u \in Actor \ {t} : job'[u] = job[u]
    BY <1>1, Turns, RestingJob DEF Store
  <1>4. /\ handles'[p] = h /\ \A q \in Plugin \ {p} : handles'[q] = handles[q]
        /\ perms' = perms \cup {p}
    BY <1>1 DEF Store, Inv, TypeOK
  <1>5. UNCHANGED <<made, pluginOf, raised, validators, registry, bus, worker, main, loading, dispatch>>
    BY DEF Store
  <1>6. JobHandles'
    BY <1>1, <1>3, <1>5 DEF Inv, JobHandles, Idle
  <1>7. Owners'
    BY <1>5 DEF Inv, Owners
  <1>8. Phases'
    BY <1>1, <1>3, <1>5 DEF Inv, Phases, Idle, loading, dispatch, Actor
  <1>9. Unhandled'
    <2> SUFFICES ASSUME ~expired PROVE Unhandled!2'
      BY <1>5 DEF Unhandled, loading
    <2>1. \A u \in Actor \ {t} : Idle(u)
      BY <1>1, Alone DEF Inv
    <2>2. QED
      BY <1>1, <1>3, <1>4, <1>5, <2>1 DEF Inv, Unhandled, TypeOK, On, Idle
  <1>10. Workers'
    <2> SUFFICES ASSUME ~expired, main # "stopping"
                 PROVE  /\ \A q \in toLoad : worker'[q] = 0
                        /\ \A u \in Actor : Prepared(u)'
                        /\ \A q \in Plugin \ toLoad : AtRest(q)' => Whole(q)'
      BY <1>5 DEF Workers, loading
    <2>1. /\ \A q \in toLoad : worker[q] = 0
          /\ Prepared(t) /\ \A q \in Plugin \ toLoad : AtRest(q) => Whole(q)
      BY DEF Inv, Workers
    <2>2. \A u \in Actor \ {t} : Idle(u)
      BY <1>1, Alone DEF Inv
    <2>3. \A u \in Actor : Prepared(u)'
      BY <1>3, <2>2 DEF Prepared, Idle
    <2>4. ASSUME NEW q \in Plugin \ toLoad, AtRest(q)' PROVE Whole(q)'
      <3>1. CASE q = p
        BY <1>1, <1>4, <1>5, <2>1, <3>1 DEF Prepared, Whole
      <3>2. CASE q # p
        <4>1. AtRest(q)
          BY <2>2, <3>2 DEF AtRest
        <4>2. QED
          BY <1>4, <1>5, <2>1, <3>2, <4>1 DEF Whole
      <3>3. QED
        BY <3>1, <3>2
    <2>5. QED
      BY <1>5, <2>1, <2>3, <2>4
  <1>11. Tracked'
    <2> SUFFICES ASSUME ~expired, NEW x \in validators \ raised
                 PROVE  \/ \E q \in Plugin : handles'[q] = x
                        \/ \E u \in Actor : ~Idle(u)' /\ job'[u].handle = x
      BY <1>5 DEF Tracked, loading
    <2>1. handles[p] = 0 /\ x # 0
      BY <1>1 DEF Inv, Unhandled, TypeOK
    <2>2. CASE \E q \in Plugin : handles[q] = x
      BY <1>4, <2>1, <2>2
    <2>3. CASE \E u \in Actor : ~Idle(u) /\ job[u].handle = x
      BY <1>1, <1>3, <1>4, <2>3 DEF Idle
    <2>4. QED
      BY <2>2, <2>3 DEF Inv, Tracked
  <1>12. QED
    BY <1>2, <1>6, <1>7, <1>8, <1>9, <1>10, <1>11 DEF Inv

LEMMA ClearKeeps ==
  ASSUME PluginAssumption, Inv, Clear
  PROVE  Inv'
  <1>1. TypeOK'
    BY TypeClear DEF Inv
  <1>2. /\ UNCHANGED <<made, pluginOf, raised, worker, job, toLoad, active, current, expired,
                       disabled, toVisit, cur, fatal>>
        /\ main' = "stopping" /\ Idle(Main) /\ main # "loading"
        /\ validators' = {} /\ handles' = Nothing /\ perms' = {p \in perms : handles[p] = 0}
    BY DEF Clear
  <1>3. JobHandles'
    BY <1>2 DEF Inv, JobHandles, Idle
  <1>4. Owners'
    BY DEF Clear, Inv, Owners, TypeOK, NoTools
  <1>5. Phases'
    BY <1>2 DEF Inv, Phases, Idle
  <1>6. Unhandled'
    <2>1. \A p \in Plugin : handles'[p] = 0
      BY <1>2 DEF Nothing
    <2>2. \A t \in Actor : job[t].plugin \in Plugin
      BY JobTypes DEF Inv
    <2>3. QED
      BY <1>2, <2>1, <2>2 DEF Inv, Unhandled, On
  <1>7. Workers' /\ Tracked'
    BY <1>2 DEF Workers, Tracked
  <1>8. QED
    BY <1>1, <1>3, <1>4, <1>5, <1>6, <1>7 DEF Inv

(* A stop that succeeds leaves no registration in progress.                *)
LEMMA HaltKeeps ==
  ASSUME PluginAssumption, Inv, Halt
  PROVE  Inv'
  <1>1. TypeOK'
    BY TypeHalt DEF Inv
  <1>2. /\ UNCHANGED <<made, pluginOf, raised, handles, validators, registry, bus, perms, job,
                       hosted, loads, dispatch>>
        /\ main = "stopping" /\ main' = "loading" /\ current' = {} /\ toLoad' = Plugin
        /\ \A p \in Plugin : worker'[p] = 0
    BY DEF Halt, Nothing
  <1>3. Idle(Main)
    BY <1>2 DEF Inv, Phases
  <1>4. ASSUME ~expired'
        PROVE  ~expired /\ active' = {} /\ \A t \in Actor : Idle(t)
    <2>1. (\A t \in current : Idle(t)) /\ active' = active \ current /\ expired' = expired
      BY <1>4 DEF Halt
    <2>2. QED
      BY <1>3, <1>4, <2>1 DEF Inv, Phases, Actor
  <1>5. JobHandles' /\ Owners'
    BY <1>2 DEF Inv, JobHandles, Owners, Idle
  <1>6. Phases'
    <2>1. UNCHANGED cur
      BY <1>2 DEF dispatch
    <2>2. QED
      BY <1>2, <1>3, <1>4, <2>1 DEF Inv, Phases, Idle, Actor
  <1>7. Unhandled'
    BY <1>2, <1>4 DEF Inv, Unhandled, On
  <1>8. Workers'
    <2> SUFFICES ASSUME ~expired'
                 PROVE  /\ \A q \in toLoad' : worker'[q] = 0
                        /\ \A u \in Actor : Prepared(u)'
                        /\ \A q \in Plugin \ toLoad' : AtRest(q)' => Whole(q)'
      BY DEF Workers
    <2>1. \A u \in Actor : Prepared(u)'
      BY <1>2, <1>4 DEF Prepared, Idle
    <2>2. QED
      BY <1>2, <2>1
  <1>9. Tracked'
    BY <1>2, <1>4 DEF Inv, Tracked, Idle
  <1>10. QED
    BY <1>1, <1>5, <1>6, <1>7, <1>8, <1>9 DEF Inv

LEMMA ConfigureKeeps ==
  ASSUME PluginAssumption, Inv, Configure
  PROVE  Inv'
  <1>1. TypeOK'
    BY TypeConfigure DEF Inv
  <1>2. /\ UNCHANGED <<made, pluginOf, raised, hooks, job, hosted, loads, toLoad, expired, dispatch>>
        /\ main = "loading" /\ Idle(Main) /\ toLoad = {} /\ main' = "ready"
        /\ \/ UNCHANGED <<active, current>>
           \/ \E t \in Poller \ active : active' = active \cup {t} /\ current' = {t}
    BY DEF Configure
  <1>3. JobHandles' /\ Owners' /\ Unhandled' /\ Tracked'
    BY <1>2 DEF Inv, JobHandles, Owners, Unhandled, Tracked, Idle, On, hooks
  <1>4. Phases'
    BY <1>2 DEF Inv, Phases, Idle, dispatch
  <1>5. Workers'
    BY <1>2 DEF Inv, Workers, Prepared, AtRest, Whole, Idle, hooks
  <1>6. QED
    BY <1>1, <1>3, <1>4, <1>5 DEF Inv

(* A registration starts with the old handle's removal.  The plugin is at  *)
(* rest or has yet to be loaded.                                           *)
LEMMA StartKeeps ==
  ASSUME PluginAssumption, Inv, Phases', NEW t \in Actor, Idle(t), NEW p \in Plugin,
         job' = [job EXCEPT ![t] = SameJob(p, "removing")],
         ~expired /\ main # "stopping" => worker[p] = handles[p] \/ worker[p] = 0,
         ~expired => \A u \in Actor : Idle(u),
         toLoad' = toLoad \ {p} \/ toLoad' = toLoad,
         UNCHANGED <<made, pluginOf, raised, hooks, main, expired>>
  PROVE  JobHandles' /\ Owners' /\ Unhandled' /\ Workers' /\ Tracked'
  <1>1. /\ made \in Nat
        /\ job'[t].at = "removing" /\ job'[t].plugin = p /\ job'[t].handle = 0
        /\ \A u \in Actor \ {t} : job'[u] = job[u]
    BY JobTypes, Turns, StartedJob DEF Inv
  <1>2. JobHandles' /\ Owners'
    BY <1>1 DEF Inv, JobHandles, Owners, Idle, hooks
  <1>3. Unhandled'
    BY <1>1 DEF Inv, Unhandled, On, Idle, hooks
  <1>4. Workers'
    <2> SUFFICES ASSUME ~expired, main # "stopping"
                 PROVE  /\ \A q \in toLoad' : worker[q] = 0
                        /\ \A u \in Actor : Prepared(u)'
                        /\ \A q \in Plugin \ toLoad' : AtRest(q)' => Whole(q)'
      BY DEF Workers, hooks
    <2>1. /\ \A q \in toLoad : worker[q] = 0
          /\ \A q \in Plugin \ toLoad : AtRest(q) => Whole(q)
      BY DEF Inv, Workers
    <2>2. \A u \in Actor : Prepared(u)'
      BY <1>1 DEF Prepared, hooks, Idle
    <2>3. ASSUME NEW q \in Plugin \ toLoad', AtRest(q)' PROVE Whole(q)'
      <3>1. q # p
        BY <1>1, <2>3 DEF AtRest, Idle
      <3>2. q \notin toLoad /\ AtRest(q)
        BY <3>1 DEF AtRest
      <3>3. QED
        BY <2>1, <3>2 DEF Whole, hooks
    <2>4. QED
      BY <2>1, <2>2, <2>3
  <1>5. Tracked'
    BY <1>1 DEF Inv, Tracked, Idle, hooks
  <1>6. QED
    BY <1>2, <1>3, <1>4, <1>5

LEMMA LoadKeeps ==
  ASSUME PluginAssumption, Inv, NEW p \in Plugin, Load(p)
  PROVE  Inv'
  <1>1. TypeOK'
    BY TypeLoad DEF Inv
  <1>2. /\ main = "loading" /\ Idle(Main) /\ p \in toLoad /\ toLoad' = toLoad \ {p}
        /\ job' = [job EXCEPT ![Main] = SameJob(p, "removing")] /\ Main \in Actor
        /\ UNCHANGED <<made, pluginOf, raised, hooks, main, loads, active, current, expired, dispatch>>
    BY DEF Load, Actor
  <1>3. /\ job'[Main].at = "removing" /\ job'[Main].plugin = p
        /\ \A u \in Actor \ {Main} : job'[u] = job[u]
    BY <1>2, JobTypes, Turns, StartedJob DEF Inv
  <1>4. current = {} /\ (~expired => \A u \in Actor : Idle(u))
    BY <1>2 DEF Inv, Phases, Actor
  <1>5. Phases'
    BY <1>2, <1>3, <1>4 DEF Inv, Phases, Idle, Actor, dispatch, PluginAssumption
  <1>6. ~expired /\ main # "stopping" => worker[p] = 0
    BY <1>2 DEF Inv, Workers
  <1>7. QED
    BY <1>1, <1>2, <1>4, <1>5, <1>6, StartKeeps DEF Inv

LEMMA ReloadKeeps ==
  ASSUME PluginAssumption, Inv, NEW t \in Poller, NEW p \in Plugin, Reload(t, p)
  PROVE  Inv'
  <1>1. TypeOK'
    BY TypeReload DEF Inv
  <1>2. /\ t \in active /\ Idle(t) /\ t \in Actor /\ t # Main
        /\ job' = [job EXCEPT ![t] = SameJob(p, "removing")]
        /\ UNCHANGED <<made, pluginOf, raised, hooks, main, loading, dispatch>>
    BY DEF Reload, Actor, PluginAssumption
  <1>3. /\ job'[t].at = "removing" /\ job'[t].plugin = p
        /\ \A u \in Actor \ {t} : job'[u] = job[u]
    BY <1>2, JobTypes, Turns, StartedJob DEF Inv
  <1>4. job'[Main] = job[Main]
    BY <1>2, <1>3 DEF Actor
  <1>5. Phases'
    BY <1>2, <1>3, <1>4 DEF Inv, Phases, Idle, Actor, loading, dispatch
  <1>6. ~expired => t \in current /\ toLoad = {} /\ \A u \in Actor : Idle(u)
    BY <1>2 DEF Inv, Phases, Actor
  <1>7. ~expired /\ main # "stopping" => worker[p] = handles[p]
    BY <1>6 DEF Inv, Workers, AtRest, Whole
  <1>8. toLoad' = toLoad /\ expired' = expired
    BY <1>2 DEF loading
  <1>9. QED
    BY <1>1, <1>2, <1>5, <1>6, <1>7, <1>8, StartKeeps DEF Inv

LEMMA DispatchKeeps ==
  ASSUME PluginAssumption, Inv, Dispatches
  PROVE  Inv'
  <1>1. TypeOK'
    BY TypeDispatches DEF Inv
  <1>2. /\ main \in {"ready", "dispatching", "calling"}
        /\ main' \in {"ready", "dispatching", "calling", "aborted"}
        /\ UNCHANGED <<made, pluginOf, raised, hooks, job, loading>>
        /\ main' = "calling" => cur' # 0
    BY Dispatched DEF Inv
  <1>3. JobHandles' /\ Owners' /\ Unhandled' /\ Tracked'
    BY <1>2 DEF Inv, JobHandles, Owners, Unhandled, Tracked, Idle, On, hooks, loading
  <1>4. Phases'
    BY <1>2 DEF Inv, Phases, Idle, loading
  <1>5. Workers'
    BY <1>2 DEF Inv, Workers, Prepared, AtRest, Whole, Idle, hooks, loading
  <1>6. QED
    BY <1>1, <1>3, <1>4, <1>5 DEF Inv

LEMMA Initially ==
  ASSUME PluginAssumption, Init
  PROVE  Inv
  <1>1. /\ \A t \in Actor : job[t] = Resting /\ Idle(t) /\ job[t].at = "idle"
        /\ job \in [Actor -> Jobs(0)] /\ Resting.plugin \in Plugin
    BY RestingJob DEF Init, Idle, Jobs
  <1>2. TypeOK
    <2>1. made = 0 /\ made \in 0..MaxHandles /\ loads \in 0..MaxLoads /\ cur \in 0..made
      BY DEF PluginAssumption, Init
    <2>2. pluginOf \in [Handle -> Plugin]
      BY <1>1 DEF Init
    <2>3. /\ handles \in [Plugin -> 0..made] /\ worker \in [Plugin -> 0..made]
          /\ \A p \in Plugin : handles[p] = 0
      BY <2>1 DEF Init, Nothing
    <2>4. registry \in [Plugin -> SUBSET Tool] /\ bus \in [Tool -> SUBSET Plugin]
      BY DEF Init, NoTools, Free
    <2>5. job \in [Actor -> Jobs(made)]
      BY <1>1, <2>1
    <2>6. /\ validators = {} /\ disabled = {} /\ raised = {} /\ perms = {} /\ hosted = {} /\ toLoad = {}
          /\ active = {} /\ current = {} /\ toVisit = {} /\ main = "empty"
          /\ fatal \in BOOLEAN /\ expired \in BOOLEAN
      BY DEF Init
    <2>7. QED
      BY <2>1, <2>2, <2>3, <2>4, <2>5, <2>6 DEF TypeOK, Jobs, Stages
  <1>3. JobHandles /\ Owners
    BY <1>1 DEF JobHandles, Owners, Init, Free, NoTools
  <1>4. Phases
    BY <1>1 DEF Phases, Init, Actor
  <1>5. Unhandled
    BY <1>1 DEF Unhandled, Init
  <1>6. Workers
    BY <1>1 DEF Workers, Prepared, Whole, Init, Nothing
  <1>7. Tracked
    BY DEF Tracked, Init
  <1>8. QED
    BY <1>2, <1>3, <1>4, <1>5, <1>6, <1>7 DEF Inv

LEMMA Keeps ==
  ASSUME PluginAssumption, Inv, [Next]_vars
  PROVE  Inv'
  <1>1. CASE \E t \in Actor : Remove(t) \/ Unregister(t) \/ Register(t) \/ RegisterRaises(t)
                              \/ Supervise(t) \/ Store(t)
    BY <1>1, RemoveKeeps, UnregisterKeeps, RegisterKeeps, RaisesKeeps, SuperviseKeeps, StoreKeeps
  <1>2. CASE Clear \/ Halt \/ Configure
    BY <1>2, ClearKeeps, HaltKeeps, ConfigureKeeps
  <1>3. CASE Dispatches
    BY <1>3, DispatchKeeps
  <1>4. CASE \E p \in Plugin : Load(p) \/ \E t \in Poller : Reload(t, p)
    BY <1>4, LoadKeeps, ReloadKeeps
  <1>5. CASE UNCHANGED vars
    BY <1>5 DEF vars, hooks, loading, dispatch, Inv, TypeOK, JobHandles, Owners, Phases, Unhandled,
                Workers, Tracked, Prepared, AtRest, Whole, Idle, On
  <1>6. QED
    BY <1>1, <1>2, <1>3, <1>4, <1>5 DEF Next, Dispatches

-----------------------------------------------------------------------------
(* The theorems                                                            *)

LEMMA Promised ==
  ASSUME PluginAssumption, Inv
  PROVE  ManagerInv
  <1>1. Coherent
    <2> SUFFICES ASSUME NEW p \in Plugin, Quiet(p)
                 PROVE  Whole(p) /\ (handles[p] = 0 => p \notin perms)
      BY DEF Coherent, Whole
    <2>1. ~expired /\ main # "stopping" /\ toLoad = {} /\ AtRest(p)
      BY DEF Quiet, Inv, Phases, AtRest
    <2>2. Whole(p)
      BY <2>1 DEF Inv, Workers
    <2>3. handles[p] = 0 => p \notin perms
      BY <2>1 DEF Inv, Unhandled, AtRest, On, Idle
    <2>4. QED
      BY <2>2, <2>3
  <1>2. OneOwner
    <2> SUFFICES ASSUME NEW t \in Tool PROVE Cardinality(bus[t]) <= 1
      BY DEF OneOwner, Inv, Owners
    <2>1. CASE bus[t] = {}
      BY <2>1, FS_EmptySet
    <2>2. CASE \E p \in bus[t] : bus[t] = {p}
      BY <2>2, FS_Singleton
    <2>3. QED
      BY <2>1, <2>2 DEF Inv, Owners
  <1>3. HooksTracked
    BY DEF HooksTracked, Inv, Tracked
  <1>4. QED
    BY <1>1, <1>2, <1>3 DEF ManagerInv, Inv

(* Only a supervisor starts a worker, for a plugin that has none.          *)
LEMMA Replaces ==
  ASSUME PluginAssumption, Inv, [Next]_vars, NEW p \in Plugin,
         worker[p] # 0, worker'[p] # 0, main # "stopping", ~expired
  PROVE  worker'[p] = worker[p]
  <1>1. CASE \E t \in Actor : Supervise(t)
    <2>1. PICK t \in Actor : Supervise(t)
      BY <1>1
    <2>2. worker[job[t].plugin] = 0
      BY <2>1 DEF Inv, Workers, Prepared, Supervise
    <2>3. QED
      BY <2>1, <2>2 DEF Supervise, Inv, TypeOK
  <1>2. CASE \E t \in Actor : Unregister(t)
    BY <1>2 DEF Unregister, Inv, TypeOK
  <1>3. CASE \E t \in Actor : Remove(t) \/ Register(t) \/ RegisterRaises(t) \/ Store(t)
    BY <1>3 DEF Remove, Register, RegisterRaises, Store
  <1>4. CASE Clear \/ Configure
    BY <1>4 DEF Clear, Configure, hooks
  <1>5. CASE Dispatches
    BY <1>5, Dispatched DEF Inv, hooks
  <1>6. CASE \E q \in Plugin : Load(q) \/ \E t \in Poller : Reload(t, q)
    BY <1>6 DEF Load, Reload, hooks
  <1>7. CASE UNCHANGED vars
    BY <1>7 DEF vars, hooks
  <1>8. ~Halt
    BY DEF Halt
  <1>9. QED
    BY <1>1, <1>2, <1>3, <1>4, <1>5, <1>6, <1>7, <1>8 DEF Next, Dispatches

(* What the parts of the manager hold of a plugin agrees whenever nothing  *)
(* is registering it (register_plugin, _remove_handle, clear), for any     *)
(* plugins, tools and pollers, up to a poller that outlives its stop.      *)
THEOREM ManagerHolds ==
  ASSUME PluginAssumption
  PROVE  Spec => []ManagerInv
<1>1. Init => Inv
  BY Initially
<1>2. Inv /\ [Next]_vars => Inv'
  BY Keeps
<1>3. Inv => ManagerInv
  BY Promised
<1>4. QED
  BY <1>1, <1>2, <1>3, PTL DEF Spec

(* A worker is shut down before another takes its place                    *)
(* (WorkerSupervisor.register), except while clear() stops the poller.     *)
THEOREM NoneLost ==
  ASSUME PluginAssumption
  PROVE  Spec => NoWorkerLost
<1>1. Init => Inv
  BY Initially
<1>2. Inv /\ [Next]_vars => Inv'
  BY Keeps
<1>3. Inv /\ [Next]_vars => [WorkersKept]_vars
  BY Replaces DEF WorkersKept
<1>4. QED
  BY <1>1, <1>2, <1>3, PTL DEF Spec, NoWorkerLost
=============================================================================
