------------------------------ MODULE HotReload ------------------------------
(***************************************************************************)
(* HotReloadController (src/coolbox/plugins/hotreload.py): a thread polls  *)
(* the modification times of watched paths and calls back for each plugin  *)
(* whose path changed.  The setup thread watches, unwatches and stops; the *)
(* poller looks at its stop flag once per round, so stop(), which waits a  *)
(* second for it, may give up first and leave it running.                  *)
(*                                                                         *)
(* One path per plugin; a modification time is the number of edits so far. *)
(***************************************************************************)
EXTENDS Naturals

CONSTANTS
  Plugin,
  MaxEdits,     \* bound on edits per path
  MaxWatches,   \* bound on calls of watch()
  MaxPollers    \* bound on threads started

HotReloadAssumption ==
  /\ Plugin # {} /\ MaxEdits \in Nat /\ MaxWatches \in Nat /\ MaxPollers \in Nat \ {0}

VARIABLES
  mtime,      \* edits of the plugin's path
  gone,       \* plugins whose path does not exist
  vanished,   \* plugins whose path has been removed (one, at most once)
  watch,      \* _watches: plugin -> its _WatchState, 0 when there is none
  states,     \* _WatchStates made so far
  sig,        \* per _WatchState: the signature last seen
  path,       \* per _WatchState: the plugin it watches
  stopFlag,   \* the _stop event
  thread,     \* _thread, 0 for None
  started,    \* threads started
  owner,      \* the setup thread: idle, watching, unwatched, joining, discarded
  last,       \* whether the stop under way comes from clear()
  expired,    \* a join(timeout=1.0) has given up on a poller
  pc,         \* per poller: unborn, top, asleep, scanning, calling, ended
  todo,       \* per poller: plugin -> _WatchState still to look at, 0 when none
  target,     \* per poller: the _WatchState it calls back for
  calls       \* callbacks made, per _WatchState

files == <<mtime, gone, vanished>>
control == <<watch, states, path, stopFlag, thread, started, owner, last, expired>>
poll == <<pc, todo, target, calls>>
vars == <<files, control, sig, poll>>

Poller == 1..MaxPollers
State == 0..MaxWatches
Unwatched == [p \in Plugin |-> 0]
Idle == owner = "idle"
IsAlive(t) == t # 0 /\ pc[t] \notin {"unborn", "ended"}

Init ==
  /\ mtime = Unwatched /\ gone = {} /\ vanished = {}
  /\ watch = Unwatched /\ states = 0 /\ sig = [s \in State |-> 0]
  /\ stopFlag = FALSE /\ thread = 0 /\ started = 0 /\ owner = "idle" /\ last = FALSE
  /\ expired = FALSE
  /\ pc = [t \in Poller |-> "unborn"] /\ todo = [t \in Poller |-> Unwatched]
  /\ path \in [State -> {CHOOSE p \in Plugin : TRUE}]
  /\ target = [t \in Poller |-> 0] /\ calls = [s \in State |-> 0]

-----------------------------------------------------------------------------
(* The developer's edits *)

Edit(p) ==
  /\ mtime[p] < MaxEdits
  /\ mtime' = [mtime EXCEPT ![p] = @ + 1] /\ gone' = gone \ {p}
  /\ UNCHANGED <<vanished, control, sig, poll>>

Vanish(p) ==
  /\ vanished = {} /\ vanished' = {p} /\ gone' = {p}
  /\ UNCHANGED <<mtime, control, sig, poll>>

-----------------------------------------------------------------------------
(* The setup thread *)

\* watch(): the present signature is the baseline
Watch(p) ==
  /\ Idle /\ states < MaxWatches /\ (IsAlive(thread) \/ started < MaxPollers)
  /\ states' = states + 1
  /\ sig' = [sig EXCEPT ![states + 1] = mtime[p]]
  /\ path' = [path EXCEPT ![states + 1] = p]
  /\ watch' = [watch EXCEPT ![p] = states + 1]
  /\ owner' = "watching"
  /\ UNCHANGED <<files, stopFlag, thread, started, last, expired, poll>>

\* _ensure_thread()
EnsureThread ==
  /\ owner = "watching" /\ owner' = "idle"
  /\ \/ IsAlive(thread) /\ UNCHANGED <<stopFlag, thread, started, pc>>
     \/ /\ ~IsAlive(thread) /\ started < MaxPollers
        /\ started' = started + 1 /\ thread' = started + 1 /\ stopFlag' = FALSE
        /\ pc' = [pc EXCEPT ![started + 1] = "top"]
  /\ UNCHANGED <<files, watch, states, path, last, expired, sig, todo, target, calls>>

Unwatch(p) ==
  /\ Idle /\ watch[p] # 0
  /\ watch' = [watch EXCEPT ![p] = 0]
  /\ owner' = IF watch' = Unwatched THEN "unwatched" ELSE "idle"
  /\ UNCHANGED <<files, states, path, stopFlag, thread, started, last, expired, sig, poll>>

\* stop(), of unwatch() once nothing is watched, or of clear()
StopPolling(clear) ==
  /\ IF clear THEN Idle ELSE owner = "unwatched"
  /\ last' = clear /\ stopFlag' = TRUE /\ owner' = "joining"
  /\ UNCHANGED <<files, watch, states, path, thread, started, expired, sig, poll>>

NotJoined ==                              \* mutant of Joined
  /\ owner = "joining"
  /\ thread' = 0 /\ stopFlag' = FALSE
  /\ owner' = IF last THEN "discarded" ELSE "idle"
  /\ UNCHANGED <<files, watch, states, path, started, last, expired, sig, poll>>

KeepThread ==                             \* mutant of Joined
  /\ owner = "joining" /\ expired' = (expired \/ IsAlive(thread))
  /\ stopFlag' = FALSE /\ owner' = IF last THEN "discarded" ELSE "idle"
  /\ UNCHANGED <<files, watch, states, path, thread, started, last, sig, poll>>

\* the controller is dropped after the stop of clear()
Joined ==
  /\ owner = "joining" /\ expired' = (expired \/ IsAlive(thread))
  /\ thread' = 0 /\ stopFlag' = FALSE
  /\ owner' = IF last THEN "discarded" ELSE "idle"
  /\ UNCHANGED <<files, watch, states, path, started, last, sig, poll>>

-----------------------------------------------------------------------------
(* The poller, _run() *)

Top(t) ==
  /\ pc[t] = "top"
  /\ pc' = [pc EXCEPT ![t] = IF stopFlag THEN "ended" ELSE "asleep"]
  /\ UNCHANGED <<files, control, sig, todo, target, calls>>

\* the watches are copied under the lock and used without it
Snapshot(t) ==
  /\ pc[t] = "asleep"
  /\ pc' = [pc EXCEPT ![t] = "scanning"] /\ todo' = [todo EXCEPT ![t] = watch]
  /\ UNCHANGED <<files, control, sig, target, calls>>

\* a path that does not exist has the present time as its signature
Changed(p, s) == p \in gone \/ sig[s] # mtime[p]

KeepSignature(t, p) ==                    \* mutant of Detect
  /\ pc[t] = "scanning" /\ todo[t][p] # 0
  /\ todo' = [todo EXCEPT ![t][p] = 0]
  /\ IF Changed(p, todo[t][p])
     THEN pc' = [pc EXCEPT ![t] = "calling"] /\ target' = [target EXCEPT ![t] = todo[t][p]]
     ELSE UNCHANGED <<pc, target>>
  /\ UNCHANGED <<files, control, sig, calls>>

CallOnce(t, p) ==                         \* mutant of Detect
  /\ pc[t] = "scanning" /\ todo[t][p] # 0
  /\ todo' = [todo EXCEPT ![t] = IF Changed(p, @[p]) THEN Unwatched ELSE [@ EXCEPT ![p] = 0]]
  /\ sig' = [s \in State |-> IF \E q \in Plugin : todo[t][q] = s THEN mtime[path[s]] ELSE sig[s]]
  /\ IF Changed(p, todo[t][p])
     THEN pc' = [pc EXCEPT ![t] = "calling"] /\ target' = [target EXCEPT ![t] = todo[t][p]]
     ELSE UNCHANGED <<pc, target>>
  /\ UNCHANGED <<files, control, calls>>

\* _detect_changes() for one plugin of the snapshot
Detect(t, p) ==
  /\ pc[t] = "scanning" /\ todo[t][p] # 0
  /\ todo' = [todo EXCEPT ![t][p] = 0]
  /\ sig' = [sig EXCEPT ![todo[t][p]] = mtime[p]]
  /\ IF Changed(p, todo[t][p])
     THEN pc' = [pc EXCEPT ![t] = "calling"] /\ target' = [target EXCEPT ![t] = todo[t][p]]
     ELSE UNCHANGED <<pc, target>>
  /\ UNCHANGED <<files, control, calls>>

\* calls are counted up to the first one too many
Callback(t) ==
  LET s == target[t]
  IN /\ pc[t] = "calling"
     /\ pc' = [pc EXCEPT ![t] = "scanning"]
     /\ calls' = [calls EXCEPT ![s] = IF @ > mtime[path[s]] THEN @ ELSE @ + 1]
     /\ UNCHANGED <<files, control, sig, todo, target>>

EndRound(t) ==
  /\ pc[t] = "scanning" /\ todo[t] = Unwatched
  /\ pc' = [pc EXCEPT ![t] = "top"]
  /\ UNCHANGED <<files, control, sig, todo, target, calls>>

Poll(t) ==
  \/ Top(t) \/ Snapshot(t) \/ (\E p \in Plugin : Detect(t, p)) \/ Callback(t) \/ EndRound(t)
Next ==
  \/ \E p \in Plugin : Edit(p) \/ Vanish(p) \/ Watch(p) \/ Unwatch(p)
  \/ EnsureThread \/ Joined \/ \E clear \in BOOLEAN : StopPolling(clear)
  \/ \E t \in Poller : Poll(t)
Spec == Init /\ [][Next]_vars

\* the threads keep running; nobody has to edit, watch or stop
Fairness ==
  /\ WF_vars(EnsureThread) /\ WF_vars(StopPolling(FALSE)) /\ WF_vars(Joined)
  /\ \A t \in Poller : WF_vars(Poll(t))
FairSpec == Spec /\ Fairness

-----------------------------------------------------------------------------
TypeOK ==
  /\ mtime \in [Plugin -> 0..MaxEdits] /\ gone \subseteq Plugin
  /\ vanished \subseteq Plugin /\ expired \in BOOLEAN
  /\ watch \in [Plugin -> State] /\ states \in State /\ sig \in [State -> 0..MaxEdits]
  /\ stopFlag \in BOOLEAN /\ thread \in 0..MaxPollers /\ started \in 0..MaxPollers
  /\ owner \in {"idle", "watching", "unwatched", "joining", "discarded"} /\ last \in BOOLEAN
  /\ pc \in [Poller -> {"unborn", "top", "asleep", "scanning", "calling", "ended"}]
  /\ todo \in [Poller -> [Plugin -> State]] /\ target \in [Poller -> State]
  /\ owner = "discarded" => thread = 0
  /\ calls \in [State -> 0..(MaxEdits + 1)] /\ path \in [State -> Plugin]

\* "Poll watched paths and trigger reload callbacks on changes" (line 23): no
\* _WatchState leads to more callbacks than its path has been edited, as long
\* as the path exists and no poller has outlived a stop().
CallsAreChanges ==
  ~expired => \A s \in State \ {0} : path[s] \in vanished \/ calls[s] <= mtime[path[s]]

\* After clear() has stopped the controller no plugin is called back for,
\* unless the poller outlived the second stop() waits for it.
StopIsFinal == owner = "discarded" /\ ~expired => \A t \in Poller : pc[t] # "calling"

\* The three of them.
ReloadInv == TypeOK /\ CallsAreChanges /\ StopIsFinal

\* An edit of a watched path is followed by a callback for its plugin, unless
\* the plugin is unwatched or watched anew or the controller is stopped first;
\* whatever threads an expired join has left behind (_run, _ensure_thread).
Edited(p, s) == watch[p] = s /\ sig[s] # mtime[p]
Noticed(p, s) == \/ \E t \in Poller : pc[t] = "calling" /\ target[t] = s
                 \/ watch[p] # s \/ owner \in {"joining", "discarded"}
EditIsReloaded == \A p \in Plugin : \A s \in State \ {0} : Edited(p, s) ~> Noticed(p, s)
=============================================================================
