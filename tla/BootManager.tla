---------------------------- MODULE BootManager ----------------------------
(* The boot pipeline (boot/manager.py), the record it keeps of plugin failures
   (plugins/state.py) and the entry point around it (cli/bootstrap.py), over
   any number of processes that may die at any step.

   A process is one thread.  The setup it runs is reduced to its outcome and to
   what it does with plugins (SetupRun and PluginManager have the rest): it
   loads the ones it is given, some of them fail a hook and are disabled, and a
   failure before a stage ends it with a PluginStartupError. *)
EXTENDS FiniteSets

CONSTANTS Plugin,
          Installed,    \* plugins found through entry points
          Profile,
          NoProfile,
          PluginsOf,    \* plugins listed by a profile
          LoadsPlugins, \* FALSE: the profile says load_plugins: false
          RecoveryOf,   \* recovery_profile, or NoProfile
          HasStages     \* the profile lists recovery stages

ASSUME BootAssumption ==
  /\ Installed \subseteq Plugin /\ NoProfile \notin Profile
  /\ PluginsOf \in [Profile -> SUBSET Plugin]
  /\ LoadsPlugins \in [Profile -> BOOLEAN] /\ HasStages \in [Profile -> BOOLEAN]
  /\ RecoveryOf \in [Profile -> Profile \cup {NoProfile}]

VARIABLES
  disk,       \* plugin_init_state.json; an unreadable file loads as NoState
  pc,         \* where the process is; "off" without one
  bare,       \* started with no arguments (bootstrap.main)
  direct,     \* bootstrap.main has started the application itself
  forced,     \* a persisted failure disables plugin loading
  profile,    \* the profile in force
  recipe,     \* _last_recipe is set
  record,     \* what is being written to disk
  found,      \* history: what the disk said once the process had looked
  unsaved,    \* history: the record could not be written
  loaded, disabled, violations,  \* the plugin manager
  culprits,   \* history: plugins that failed a hook in this process
  result,     \* history: what the disk should say of this boot
  kept        \* history: a failure is recorded, and not yet pardoned

manager == <<loaded, disabled, violations, culprits>>
process == <<bare, direct, forced, profile, recipe, record, found, unsaved>>
vars == <<disk, pc, process, manager, result, kept>>

NoState == [status |-> "none", recovery |-> NoProfile]
Success == [status |-> "success", recovery |-> NoProfile]
Failure(p) == [status |-> "failed", recovery |-> p]
State == {NoState, Success} \cup {Failure(p) : p \in Profile}

TypeOK ==
  /\ disk \in State /\ record \in State /\ result \in State /\ found \in State
  /\ pc \in {"off", "main", "save", "write", "recover", "launch", "app", "console", "exit"}
  /\ bare \in BOOLEAN /\ direct \in BOOLEAN /\ forced \in BOOLEAN
  /\ recipe \in BOOLEAN /\ kept \in BOOLEAN /\ unsaved \in BOOLEAN
  /\ profile \in Profile
  /\ loaded \subseteq Plugin /\ disabled \subseteq loaded
  /\ violations \subseteq disabled /\ culprits \subseteq Plugin

NoProcess ==
  /\ loaded' = {} /\ disabled' = {} /\ violations' = {} /\ culprits' = {}
  /\ bare' = FALSE /\ direct' = FALSE /\ forced' = FALSE /\ recipe' = FALSE
  /\ record' = NoState /\ found' = NoState /\ unsaved' = FALSE /\ UNCHANGED profile

Init ==
  /\ disk = NoState /\ result = NoState /\ record = NoState /\ found = NoState
  /\ unsaved = FALSE
  /\ pc = "off" /\ kept = FALSE
  /\ bare = FALSE /\ direct = FALSE /\ forced = FALSE /\ recipe = FALSE
  /\ profile \in Profile
  /\ loaded = {} /\ disabled = {} /\ violations = {} /\ culprits = {}

-----------------------------------------------------------------------------
(* The plugin payload of a run: none, the profile's list, or whatever the entry
   points offer (None). *)
Payload ==
  IF forced \/ ~LoadsPlugins[profile] THEN [kind |-> "listed", plugins |-> {}]
  ELSE IF PluginsOf[profile] # {} THEN [kind |-> "listed", plugins |-> PluginsOf[profile]]
  ELSE [kind |-> "entry points", plugins |-> Installed]

AlwaysAttempted == TRUE                  \* mutant of Attempted

Attempted == Payload.kind = "entry points" \/ Payload.plugins # {}

SetupKeeping(payload, outcome) ==        \* mutant of Setup
  \E got, failing \in SUBSET payload.plugins :
    /\ failing \subseteq got
    /\ loaded' = got /\ disabled' = failing
    /\ violations' = violations \cup failing
    /\ culprits' = culprits \cup failing

(* orchestrator.run with a payload, up to its outcome: an empty list is not
   loaded, so what was loaded stays; a list replaces it and may fail half way;
   an entry point that fails is skipped.  failing are the plugins that raise in
   a hook: with outcome "plugin", one of them before a stage. *)
Setup(payload, outcome) ==
  \E got \in SUBSET payload.plugins, failing \in SUBSET Plugin :
    LET replaced == payload.kind = "listed" /\ payload.plugins # {}
        held     == IF replaced THEN got ELSE loaded \cup got
        off      == IF replaced THEN {} ELSE disabled
    IN  /\ payload.kind = "listed" /\ got # payload.plugins => outcome = "failed"
        /\ failing \subseteq held \ off
        /\ outcome = "plugin" => failing # {}
        /\ loaded' = held /\ disabled' = off \cup failing
        /\ violations' = (IF replaced THEN {} ELSE violations) \cup failing
        /\ culprits' = culprits \cup failing

-----------------------------------------------------------------------------
(* What the file may hold once it has been looked at: --retry-plugins removes a
   failure before the plugins are tried, if it can; they are tried either way. *)
Persisted(retry) == {disk} \union (IF disk.status = "failed" /\ retry THEN {NoState} ELSE {})

\* run: arguments, the persisted state, the profile
Boot(p, retry, noArgs) ==
  /\ pc = "off" /\ pc' = "main"
  /\ ~(noArgs /\ retry)
  /\ LET failed == disk.status = "failed"
     IN  /\ forced' = (failed /\ ~retry)
         /\ profile' = IF failed /\ ~retry THEN disk.recovery ELSE p
         /\ disk' \in Persisted(retry)
         /\ kept' = (kept /\ ~retry)
  /\ result' = disk' /\ found' = disk'
  /\ bare' = noArgs
  /\ UNCHANGED <<direct, recipe, record, unsaved, manager>>

(* The recipe cannot be loaded, on the main path or in a recovery. *)
NoRecipe ==
  /\ pc \in {"main", "recover"} /\ pc' = "console"
  /\ UNCHANGED <<disk, process, manager, result, kept>>

MainSetup ==
  /\ pc = "main" /\ recipe' = TRUE
  /\ \E outcome \in {"ok", "failed", "plugin"} :
       /\ Setup(Payload, outcome)
       /\ pc' = CASE outcome = "plugin" -> "save"
                  [] outcome = "failed" -> "console"
                  [] OTHER -> IF Attempted THEN "save" ELSE "launch"
       /\ record' = CASE outcome = "plugin" ->
                           Failure(IF RecoveryOf[profile] = NoProfile THEN profile
                                   ELSE RecoveryOf[profile])
                      [] outcome = "ok" /\ Attempted -> Success
                      [] OTHER -> record
       /\ result' = IF pc' = "save" THEN record' ELSE result
  /\ UNCHANGED <<disk, bare, direct, forced, profile, found, unsaved, kept>>

(* The boot goes on from its record, written or not: a failure puts the recovery
   profile in force. *)
Recorded ==
  /\ IF record.status = "failed"
     THEN pc' = "recover" /\ profile' = record.recovery
     ELSE pc' = "launch" /\ UNCHANGED profile
  /\ kept' = (kept \/ (record.status = "failed" /\ ~unsaved'))
  /\ UNCHANGED <<bare, direct, forced, recipe, record, found, manager, result>>

(* _write_state: the file is emptied, then written; whatever raises on the way is
   only logged. *)
NotOpened ==
  /\ pc = "save" /\ unsaved' = TRUE /\ Recorded
  /\ UNCHANGED disk

Truncate ==
  /\ pc = "save" /\ pc' = "write"
  /\ disk' = NoState
  /\ UNCHANGED <<process, manager, result, kept>>

Write ==
  /\ pc = "write"
  /\ \/ disk' = record /\ unsaved' = FALSE
     \/ UNCHANGED disk /\ unsaved' = TRUE
  /\ Recorded

RecoverWithAll ==                        \* mutant of RecoverySetup
  /\ pc = "recover" /\ recipe' = TRUE
  /\ \E outcome \in {"ok", "failed", "plugin"} :
       /\ Setup([kind |-> "listed", plugins |-> PluginsOf[profile]], outcome)
       /\ pc' = IF outcome = "ok" THEN "launch" ELSE "console"
  /\ UNCHANGED <<disk, bare, direct, forced, profile, record, found, unsaved, result, kept>>

(* _attempt_recovery_launch: the recovery profile's plugins without the ones
   that violated; whatever goes wrong is not recorded. *)
RecoverySetup ==
  /\ pc = "recover" /\ recipe' = TRUE
  /\ \E outcome \in {"ok", "failed", "plugin"} :
       /\ Setup([kind |-> "listed", plugins |-> PluginsOf[profile] \ violations], outcome)
       /\ pc' = IF outcome = "ok" THEN "launch" ELSE "console"
  /\ UNCHANGED <<disk, bare, direct, forced, profile, record, found, unsaved, result, kept>>

LaunchRecords ==                         \* mutant of Launch
  /\ pc = "launch" /\ pc' \in {"app", "console"}
  /\ disk' = IF pc' = "app" THEN Success ELSE disk
  /\ UNCHANGED <<process, manager, result, kept>>

Launch ==
  /\ pc = "launch" /\ pc' \in {"app", "console"}
  /\ UNCHANGED <<disk, process, manager, result, kept>>

(* _fallback_to_console: with recovery stages, a further run that loads the
   profile's plugins, whatever load_plugins and the record say. *)
Console ==
  /\ pc = "console" /\ pc' = "exit"
  /\ IF HasStages[profile] /\ recipe
     THEN \E outcome \in {"ok", "failed", "plugin"} :
            Setup([kind |-> "listed", plugins |-> PluginsOf[profile]], outcome)
     ELSE UNCHANGED manager
  /\ UNCHANGED <<disk, process, result, kept>>

(* bootstrap.main: the application is started directly when run() did not leave
   it launched and there were no arguments. *)
Exit ==
  /\ pc = "exit"
  /\ IF bare THEN pc' = "app" /\ direct' = TRUE
                  /\ UNCHANGED <<bare, forced, profile, recipe, record, found, unsaved, manager>>
     ELSE pc' = "off" /\ NoProcess
  /\ UNCHANGED <<disk, result, kept>>

(* The application returns, or raises: into the console, or out of main. *)
AppEnds ==
  /\ pc = "app"
  /\ \/ ~direct /\ pc' = "console" /\ UNCHANGED <<process, manager>>
     \/ pc' = "off" /\ NoProcess
  /\ UNCHANGED <<disk, result, kept>>

(* "Enable plugins" in the Security Center; a removal that fails changes nothing. *)
EnablePlugins ==
  /\ pc = "app" /\ disk.status = "failed"
  /\ disk' = NoState /\ result' = NoState /\ kept' = FALSE
  /\ UNCHANGED <<pc, process, manager>>

Crash ==
  /\ pc # "off" /\ pc' = "off" /\ NoProcess
  /\ UNCHANGED <<disk, result, kept>>

Next ==
  \/ \E p \in Profile, retry, noArgs \in BOOLEAN : Boot(p, retry, noArgs)
  \/ NoRecipe \/ MainSetup \/ NotOpened \/ Truncate \/ Write \/ RecoverySetup \/ Launch
  \/ Console \/ Exit \/ AppEnds \/ EnablePlugins \/ Crash

Spec == Init /\ [][Next]_vars

-----------------------------------------------------------------------------
Active == loaded \ disabled

(* Once a plugin failure is on disk it stays there, and no boot loads a
   plugin on its way to the application, until --retry-plugins or the Security
   Center pardons it: through crashes, other profiles, failed recoveries and a
   recovery that works. *)
FailureStays ==
  kept => /\ disk.status = "failed"
          /\ forced /\ pc \in {"main", "launch"} => loaded = {}

(* After the setup's outcome has been recorded, and wherever the process goes
   from there, the file says what the plugins of this boot did; a boot that does
   not get that far leaves it alone.  A boot that could not write goes on all the
   same, and leaves what it found or nothing: never a result that is not its
   own. *)
RecordMatchesBoot ==
  pc \notin {"off", "save", "write"} =>
    IF unsaved THEN disk \in {NoState, found} ELSE disk = result

(* An application the pipeline launches never has an active plugin that failed
   a hook earlier in this process, also after a recovery that loads plugins
   anew. *)
NoCulpritInApp ==
  pc \in {"launch", "app"} /\ ~direct => Active \cap culprits = {}

(* README.md, "Recovery profiles": "The boot manager passes an empty plugin
   payload to the orchestrator so sandboxes remain offline during diagnostic
   runs".  An application launched, or a recovery that has run, under a profile
   with load_plugins: false has no active plugin. *)
SandboxesStayOffline ==
  pc \in {"launch", "app", "exit"} /\ ~LoadsPlugins[profile] => Active = {}
=============================================================================
