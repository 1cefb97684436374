----------------------------- MODULE MCWorkbench -----------------------------
(* The setup, the thread that follows the foreground window and the cache of
   windows, each with its own variables: a behaviour is one of them (part), and the
   other variables stay as they begin. *)
EXTENDS SetupRun

CONSTANTS
  fetch, build, probe, verify, knot, base, lenient,
  Overlay, Pid, MaxFocus, MaxJoins,
  Window, Tips, Caller, RecentMax, MaxChanges

VARIABLES
  part,
  platform, focus, changes, events, subscribers, joins, late, destroyed, main, leaving, lock, stop,
  thread, threadId, quit, last, info, todo, heard,
  desktop, moves, workers, made, at, listing, refresh, cache, recent, transient, calling, found,
  asked

following == <<platform, focus, changes, events, subscribers, joins, late, destroyed, main,
               leaving, lock, stop, thread, threadId, quit, last, info, todo, heard>>
windows == <<desktop, moves, workers, made, at, listing, refresh, cache, recent, transient,
             calling, found, asked>>

\* fetch and build in the first stage, probe (which may fail), verify and knot (which
\* depends on itself) in the second.
MCStageOf == [t \in Task |-> IF t \in {fetch, build} THEN 1 ELSE 2]
MCRank    == [t \in Task |-> CASE t = build -> 1 [] t = fetch -> 2
                               [] t = verify -> 3
                               [] t = probe -> 4 [] OTHER -> 5]
MCDeps    == [t \in Task |-> CASE t = build -> {fetch} [] t = verify -> {build}
                               [] t = knot -> {knot} [] OTHER -> {}]
(* the lenient recipe continues on failure and skips the probe *)
MCDisabled == [r \in Recipe |-> IF r = lenient THEN {probe} \cap Task ELSE {}]
MCMaxRetries == [t \in Task |-> IF t = build THEN 2 ELSE 1]

MCPidOf == [w \in Window |-> w]

Active == INSTANCE ActiveWindow
Cache == INSTANCE WindowCache WITH PidOf <- MCPidOf, changes <- moves

ASSUME Cache!WindowAssumption

Only(p) ==
  /\ part = p /\ part' = p
  /\ IF p = "setup" THEN TRUE ELSE UNCHANGED vars
  /\ IF p = "active" THEN TRUE ELSE UNCHANGED following
  /\ IF p = "windows" THEN TRUE ELSE UNCHANGED windows

AllInit ==
  /\ part \in {"setup", "active", "windows"}
  /\ Init
  /\ Active!Init /\ (part # "active" => platform = "x11" /\ focus = 1)
  /\ Cache!WindowInit
AllNext ==
  \/ Only("setup") /\ Next
  \/ Only("active") /\ Active!Next
  \/ Only("windows") /\ Cache!WindowNext
AllSpec == AllInit /\ [][AllNext]_<<part, vars, following, windows>>

\* the fairness of SetupRun, ActiveWindow and WindowCache, each where its part is
\* under way
AllFair ==
  /\ AllSpec
  /\ WF_vars(part = "setup" /\ Step)
  /\ WF_following(part = "active" /\ Active!MainSteps)
  /\ WF_following(part = "active" /\ Active!Thread)
  /\ WF_windows(part = "windows" /\ Cache!Working)
  /\ WF_windows(part = "windows" /\ Cache!Calling)

\* A thread follows the foreground window while somebody is subscribed
\* (ActiveWindow), and the recent windows are different ones (WindowCache).
WorkbenchInv == Active!ActiveInv /\ Cache!WindowsInv
\* An overlay is destroyed, the news of a foreground window arrives and a list of
\* windows that is asked for is made (ActiveWindow, WindowCache).
WorkbenchEnds == Active!ActiveEnds /\ Cache!RequestsEnd
=============================================================================
