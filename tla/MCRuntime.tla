------------------------------ MODULE MCRuntime ------------------------------
(* Three parts of the plugin runtime that do not call each other, each with its
   own variables: a behaviour is one of the toold client, of the hot reload
   controller or of the tool bus (part), and the other variables stay as they
   begin.  On the bus one reader has two topics and no limit in reach, the
   other one topic and the recipe's default limit of one event. *)
EXTENDS TooldClient, Integers, TLC, TLAPS

CONSTANTS
  Plugin, MaxEdits, MaxWatches, MaxPollers,
  Subs, Topics, Tools, MaxEvents, all, one, news, logs, p, q, c1, c2

VARIABLES
  part,
  mtime, gone, vanished, watch, states, sig, path, stopFlag, thread, started, owner, last,
  expired, at, todo, target, callbacks,
  home, endpoints, subscribers, keys, queue, closed, task, forward, received, published, pub,
  asleep, since, upto

reload == <<mtime, gone, vanished, watch, states, sig, path, stopFlag, thread, started, owner,
            last, expired, at, todo, target, callbacks>>
bus == <<home, endpoints, subscribers, keys, queue, closed, task, forward, received, published,
         pub, asleep, since, upto>>

MCWants == (all :> {news, logs}) @@ (one :> {news})
MCLimit == (all :> MaxEvents + 1) @@ (one :> 1)

Hot == INSTANCE HotReload WITH pc <- at, calls <- callbacks
Bus == INSTANCE ToolBus WITH Wants <- MCWants, Limit <- MCLimit

ASSUME Hot!HotReloadAssumption /\ Bus!BusAssumption

AllInit ==
  /\ part \in {"toold", "reload", "bus"}
  /\ Init /\ Hot!Init /\ Bus!Init /\ (part # "bus" => home = "loop")
AllNext ==
  \/ part = "toold" /\ Next /\ UNCHANGED <<part, reload, bus>>
  \/ part = "reload" /\ Hot!Next /\ UNCHANGED <<part, vars, bus>>
  \/ part = "bus" /\ Bus!Next /\ UNCHANGED <<part, vars, reload>>
AllSpec == AllInit /\ [][AllNext]_<<part, vars, reload, bus>>

\* The FairSpec of each, where its part is under way
AllFair ==
  /\ AllSpec
  /\ WF_vars(part = "toold" /\ Constructor) /\ WF_vars(part = "toold" /\ Stopper)
  /\ WF_vars(part = "toold" /\ Reading) /\ WF_vars(part = "toold" /\ ErrEnd)
  /\ \A c \in Caller : WF_vars(part = "toold" /\ Calling(c))
  /\ WF_vars(part = "toold" /\ Daemon)
  /\ WF_reload(part = "reload" /\ Hot!EnsureThread)
  /\ WF_reload(part = "reload" /\ Hot!StopPolling(FALSE))
  /\ WF_reload(part = "reload" /\ Hot!Joined)
  /\ \A t \in Hot!Poller : WF_reload(part = "reload" /\ Hot!Poll(t))
  /\ \A s \in Subs : /\ WF_bus(part = "bus" /\ Bus!Reader(s))
                     /\ WF_bus(part = "bus" /\ Bus!ForwardStart(s))
                     /\ WF_bus(part = "bus" /\ forward[s] = "cancel" /\ Bus!ForwardEnd(s))

\* No answer, no callback and no event goes to the wrong place or is given twice
\* (TooldClient, HotReload, ToolBus).
RuntimeInv ==
  /\ part = "toold" => ClientInv
  /\ part = "reload" => Hot!ReloadInv
  /\ part = "bus" => Bus!BusInv

\* What is waited for, and what ends the wait: the calls of the daemon, its start
\* and its end; the edits of what is watched; the end of an iteration and the
\* items of a queue.
Waits ==
  CASE part = "toold" ->
         <<[on |-> Waiting(c1), for |-> Answered(c1)], [on |-> Waiting(c2), for |-> Answered(c2)],
           [on |-> start = "waiting", for |-> Begun], [on |-> stop # "idle", for |-> Killed]>>
    [] part = "reload" ->
         <<[on |-> Hot!Edited(p, 1), for |-> Hot!Noticed(p, 1)],
           [on |-> Hot!Edited(p, 2), for |-> Hot!Noticed(p, 2)],
           [on |-> Hot!Edited(q, 1), for |-> Hot!Noticed(q, 1)],
           [on |-> Hot!Edited(q, 2), for |-> Hot!Noticed(q, 2)]>>
    [] part = "bus" ->
         <<[on |-> Bus!Over(all), for |-> task[all] = "done"],
           [on |-> Bus!Over(one), for |-> task[one] = "done"],
           [on |-> Bus!Filled(all), for |-> Bus!Taken(all)],
           [on |-> Bus!Filled(one), for |-> Bus!Taken(one)]>>

\* CallEnds, StartEnds and ShutdownKills of TooldClient, EditIsReloaded of
\* HotReload, ClosedIterationEnds and QueuedIsTaken of ToolBus: every wait ends.
WaitsEnd == \A i \in 1..4 : Waits[i].on ~> Waits[i].for

-----------------------------------------------------------------------------
(* Proofs *)

(***************************************************************************)
(* The hot reload controller                                               *)
(***************************************************************************)

\* A watch of a plugin is of a state made for it, and so are the copies of pollers.
Watches ==
  /\ \A a \in Plugin : watch[a] <= states /\ (watch[a] # 0 => path[watch[a]] = a)
  /\ \A t \in Hot!Poller : \A a \in Plugin :
       todo[t][a] <= states /\ (todo[t][a] # 0 => path[todo[t][a]] = a)
  /\ \A t \in Hot!Poller : at[t] = "calling" => target[t] # 0 /\ target[t] <= states

\* Pollers not started are unborn; the others have ended, but for the one that is
\* known, unless one outlived the wait of a stop.
Pollers ==
  /\ thread <= started
  /\ \A t \in Hot!Poller : at[t] = "unborn" <=> t > started
  /\ ~expired => \A t \in Hot!Poller : at[t] \in {"unborn", "ended"} \/ t = thread

CallsOn(s) == \E t \in Hot!Poller : at[t] = "calling" /\ target[t] = s
Due(s) == callbacks[s] <= sig[s] /\ (CallsOn(s) => callbacks[s] < sig[s])
\* Every callback made or about to be made has a change of the signature of its own.
Counted ==
  /\ gone \subseteq vanished
  /\ \A s \in Hot!State : sig[s] <= mtime[path[s]]
  /\ \A s \in Hot!State : s = 0 \/ s > states => callbacks[s] = 0
  /\ ~expired => \A s \in Hot!State \ {0} : path[s] \notin vanished => Due(s)

HotBooks == Hot!TypeOK /\ Watches /\ Pollers /\ Counted

LEMMA HotBegins == Hot!HotReloadAssumption /\ Hot!Init => HotBooks
<1> SUFFICES ASSUME Hot!HotReloadAssumption, Hot!Init PROVE HotBooks
  OBVIOUS
<1>1. (CHOOSE a \in Plugin : TRUE) \in Plugin
  BY DEF Hot!HotReloadAssumption
<1>2. Hot!TypeOK
  <2>1. 0 \in Hot!State /\ 0 \in 0..MaxEdits /\ 0 \in 0..(MaxEdits + 1) /\ 0 \in 0..MaxPollers
    BY DEF Hot!HotReloadAssumption, Hot!State
  <2>2. Hot!Unwatched \in [Plugin -> 0..MaxEdits] /\ Hot!Unwatched \in [Plugin -> Hot!State]
    BY <2>1 DEF Hot!Unwatched
  <2>3. path \in [Hot!State -> Plugin]
    BY <1>1 DEF Hot!Init
  <2> QED
    BY <2>1, <2>2, <2>3 DEF Hot!Init, Hot!TypeOK
<1>3. Watches
  BY DEF Hot!HotReloadAssumption, Hot!Init, Watches, Hot!Unwatched
<1>4. Pollers
  BY DEF Hot!HotReloadAssumption, Hot!Init, Pollers, Hot!Poller
<1>5. Counted
  <2>1. \A s \in Hot!State : path[s] \in Plugin
    BY <1>2 DEF Hot!TypeOK
  <2> QED
    BY <2>1 DEF Hot!HotReloadAssumption, Hot!Init, Counted, Due, CallsOn, Hot!Unwatched, Hot!Poller
<1> QED
  BY <1>2, <1>3, <1>4, <1>5 DEF HotBooks

\* The developer's edits change files only.
LEMMA EditKeeps ==
  ASSUME Hot!HotReloadAssumption, HotBooks, NEW a \in Plugin, Hot!Edit(a) \/ Hot!Vanish(a)
  PROVE  HotBooks'
<1>1. UNCHANGED <<watch, states, path, stopFlag, thread, started, owner, last, expired, sig, at, todo, target, callbacks>>
  BY DEF Hot!Edit, Hot!Vanish, Hot!control, Hot!poll
<1>2. Watches' /\ Pollers'
  BY <1>1 DEF HotBooks, Watches, Pollers, Hot!Poller
<1>3. mtime' \in [Plugin -> 0..MaxEdits] /\ \A b \in Plugin : mtime[b] <= mtime'[b]
  <2>1. mtime \in [Plugin -> 0..MaxEdits] /\ MaxEdits \in Nat
    BY DEF HotBooks, Hot!TypeOK, Hot!HotReloadAssumption
  <2>2. CASE Hot!Edit(a)
    <3>1. mtime[a] < MaxEdits /\ mtime' = [mtime EXCEPT ![a] = @ + 1]
      BY <2>2 DEF Hot!Edit
    <3>2. mtime[a] + 1 \in 0..MaxEdits
      BY <2>1, <3>1
    <3>3. mtime' \in [Plugin -> 0..MaxEdits]
      BY <2>1, <3>1, <3>2
    <3>4. \A b \in Plugin : mtime'[b] = IF b = a THEN mtime[a] + 1 ELSE mtime[b]
      BY <2>1, <3>1
    <3>5. \A b \in Plugin : mtime[b] \in Nat
      BY <2>1
    <3> QED
      BY <3>3, <3>4, <3>5
  <2>3. CASE Hot!Vanish(a)
    <3>1. mtime' = mtime /\ \A b \in Plugin : mtime[b] \in Nat
      BY <2>1, <2>3 DEF Hot!Vanish
    <3> QED
      BY <2>1, <3>1
  <2> QED
    BY <2>2, <2>3
<1>4. gone' \subseteq Plugin /\ vanished' \subseteq Plugin /\ vanished \subseteq vanished' /\ gone' \subseteq vanished'
  BY DEF Hot!Edit, Hot!Vanish, HotBooks, Hot!TypeOK, Counted
<1>5. Hot!TypeOK'
  BY <1>1, <1>3, <1>4 DEF HotBooks, Hot!TypeOK, Hot!State, Hot!Poller
<1>6. Counted'
  <2>1. \A s \in Hot!State : path[s] \in Plugin /\ sig[s] \in Nat /\ mtime[path[s]] \in Nat /\ mtime'[path[s]] \in Nat
    BY <1>3 DEF HotBooks, Hot!TypeOK, Hot!HotReloadAssumption
  <2>2. \A s \in Hot!State : sig'[s] <= mtime'[path'[s]]
    BY <1>1, <1>3, <2>1 DEF HotBooks, Counted
  <2> QED
    BY <1>1, <1>4, <2>2 DEF HotBooks, Counted, Due, CallsOn, Hot!Poller, Hot!State
<1> QED
  BY <1>2, <1>5, <1>6 DEF HotBooks

LEMMA WatchKeeps ==
  ASSUME Hot!HotReloadAssumption, HotBooks, NEW a \in Plugin, Hot!Watch(a)
  PROVE  HotBooks'
<1>1. /\ states < MaxWatches /\ states' = states + 1 /\ owner' = "watching"
      /\ sig' = [sig EXCEPT ![states + 1] = mtime[a]] /\ path' = [path EXCEPT ![states + 1] = a]
      /\ watch' = [watch EXCEPT ![a] = states + 1]
      /\ UNCHANGED <<mtime, gone, vanished, stopFlag, thread, started, last, expired, at, todo, target, callbacks>>
      /\ owner = "idle"
  BY DEF Hot!Watch, Hot!files, Hot!poll, Hot!Idle
<1>2. states \in Nat /\ states + 1 \in Hot!State /\ states + 1 # 0 /\ MaxWatches \in Nat
  BY <1>1 DEF HotBooks, Hot!TypeOK, Hot!State, Hot!HotReloadAssumption
<1>3. Hot!TypeOK'
  <2>1. sig' \in [Hot!State -> 0..MaxEdits]
    BY <1>1, <1>2 DEF HotBooks, Hot!TypeOK
  <2>2. path' \in [Hot!State -> Plugin]
    BY <1>1, <1>2 DEF HotBooks, Hot!TypeOK
  <2>3. watch' \in [Plugin -> Hot!State]
    BY <1>1, <1>2 DEF HotBooks, Hot!TypeOK
  <2> QED
    BY <1>1, <1>2, <2>1, <2>2, <2>3 DEF HotBooks, Hot!TypeOK, Hot!State, Hot!Poller
<1>4. Watches'
  <2>1. \A b \in Plugin : watch'[b] <= states + 1 /\ (watch'[b] # 0 => path'[watch'[b]] = b)
    <3>1. SUFFICES ASSUME NEW b \in Plugin PROVE watch'[b] <= states + 1 /\ (watch'[b] # 0 => path'[watch'[b]] = b)
      OBVIOUS
    <3>2. CASE b = a
      BY <1>1, <1>2, <3>2 DEF HotBooks, Hot!TypeOK
    <3>3. CASE b # a
      <4>1. watch'[b] = watch[b] /\ watch[b] <= states /\ watch[b] \in Hot!State /\ (watch[b] # 0 => path[watch[b]] = b)
        BY <1>1, <3>3 DEF HotBooks, Hot!TypeOK, Watches
      <4>2. watch[b] # states + 1 /\ watch[b] <= states + 1
        BY <1>2, <4>1 DEF Hot!State
      <4> QED
        BY <1>1, <4>1, <4>2 DEF HotBooks, Hot!TypeOK
    <3> QED
      BY <3>2, <3>3
  <2>2. ASSUME NEW t \in Hot!Poller, NEW b \in Plugin
        PROVE  todo[t][b] <= states + 1 /\ (todo[t][b] # 0 => path'[todo[t][b]] = b)
    <3>1. todo[t][b] <= states /\ todo[t][b] \in Hot!State /\ (todo[t][b] # 0 => path[todo[t][b]] = b)
      BY DEF HotBooks, Hot!TypeOK, Watches
    <3>2. todo[t][b] # states + 1 /\ todo[t][b] <= states + 1
      BY <1>2, <3>1 DEF Hot!State
    <3> QED
      BY <1>1, <3>1, <3>2 DEF HotBooks, Hot!TypeOK
  <2>3. ASSUME NEW t \in Hot!Poller, at[t] = "calling" PROVE target[t] # 0 /\ target[t] <= states + 1
    <3>1. target[t] # 0 /\ target[t] <= states /\ target[t] \in Nat
      BY <2>3 DEF HotBooks, Hot!TypeOK, Watches, Hot!State
    <3> QED
      BY <1>2, <3>1
  <2> QED
    BY <1>1, <2>1, <2>2, <2>3 DEF Watches, Hot!Poller
<1>5. Pollers'
  BY <1>1 DEF HotBooks, Pollers, Hot!Poller
<1>6. Counted'
  <2>1. \A s \in Hot!State : s # states + 1 => sig'[s] = sig[s] /\ path'[s] = path[s]
    BY <1>1, <1>2 DEF HotBooks, Hot!TypeOK
  <2>2. sig'[states + 1] = mtime[a] /\ path'[states + 1] = a /\ mtime[a] \in Nat
    BY <1>1, <1>2 DEF HotBooks, Hot!TypeOK, Hot!HotReloadAssumption
  <2>3. \A s \in Hot!State : sig'[s] <= mtime'[path'[s]]
    BY <1>1, <2>1, <2>2 DEF HotBooks, Counted
  <2>4. \A s \in Hot!State : s = 0 \/ s > states + 1 => callbacks[s] = 0
    BY <1>2 DEF HotBooks, Counted, Hot!State
  <2>5. callbacks[states + 1] = 0
    BY <1>2 DEF HotBooks, Counted
  <2>6. ~CallsOn(states + 1)
    BY <1>2 DEF HotBooks, Watches, CallsOn, Hot!TypeOK, Hot!State
  <2>7. \A s : CallsOn(s)' <=> CallsOn(s)
    BY <1>1 DEF CallsOn, Hot!Poller
  <2>8. ASSUME ~expired', NEW s \in Hot!State \ {0}, path'[s] \notin vanished' PROVE Due(s)'
    <3>1. CASE s = states + 1
      BY <1>1, <2>2, <2>5, <2>6, <2>7, <3>1 DEF Due
    <3>2. CASE s # states + 1
      <4>1. Due(s)
        BY <1>1, <2>1, <2>8, <3>2 DEF HotBooks, Counted
      <4> QED
        BY <1>1, <2>1, <2>7, <3>2, <4>1 DEF Due
    <3> QED
      BY <3>1, <3>2
  <2>9. gone' \subseteq vanished'
    BY <1>1 DEF HotBooks, Counted
  <2>10. \A s \in Hot!State : s = 0 \/ s > states' => callbacks'[s] = 0
    BY <1>1, <2>4
  <2>11. Hot!State' = Hot!State
    BY DEF Hot!State
  <2> QED
    BY <2>3, <2>8, <2>9, <2>10, <2>11 DEF Counted
<1> QED
  BY <1>3, <1>4, <1>5, <1>6 DEF HotBooks

\* The setup thread's other steps.
LEMMA SetupKeeps ==
  ASSUME Hot!HotReloadAssumption, HotBooks,
         \/ Hot!EnsureThread \/ Hot!Joined
         \/ \E a \in Plugin : Hot!Unwatch(a)
         \/ \E clear \in BOOLEAN : Hot!StopPolling(clear)
  PROVE  HotBooks'
<1>1. UNCHANGED <<mtime, gone, vanished, states, path, sig, todo, target, callbacks>>
  BY DEF Hot!EnsureThread, Hot!Joined, Hot!Unwatch, Hot!StopPolling, Hot!files, Hot!poll
<1>2. watch' \in [Plugin -> Hot!State] /\ \A b \in Plugin : watch'[b] = watch[b] \/ watch'[b] = 0
  <2>1. 0 \in Hot!State
    BY DEF Hot!State, Hot!HotReloadAssumption
  <2> QED
    BY <2>1 DEF Hot!EnsureThread, Hot!Joined, Hot!Unwatch, Hot!StopPolling, HotBooks, Hot!TypeOK
<1>3. /\ started' \in 0..MaxPollers /\ thread' \in 0..MaxPollers /\ expired' \in BOOLEAN /\ (expired => expired')
      /\ at' \in [Hot!Poller -> {"unborn", "top", "asleep", "scanning", "calling", "ended"}]
      /\ \A t \in Hot!Poller : at'[t] = "calling" => at[t] = "calling"
  <2>1. CASE Hot!EnsureThread
    <3>1. UNCHANGED <<started, thread, at, expired>>
          \/ (/\ started < MaxPollers /\ started' = started + 1 /\ thread' = started + 1
              /\ at' = [at EXCEPT ![started + 1] = "top"] /\ UNCHANGED expired)
      BY <2>1 DEF Hot!EnsureThread
    <3>2. started \in Nat /\ MaxPollers \in Nat
      BY DEF HotBooks, Hot!TypeOK, Hot!HotReloadAssumption
    <3>3. CASE UNCHANGED <<started, thread, at, expired>>
      BY <3>3 DEF HotBooks, Hot!TypeOK
    <3>4. CASE /\ started < MaxPollers /\ started' = started + 1 /\ thread' = started + 1
               /\ at' = [at EXCEPT ![started + 1] = "top"] /\ UNCHANGED expired
      <4>1. started + 1 \in 0..MaxPollers
        BY <3>2, <3>4
      <4> QED
        BY <3>4, <4>1 DEF HotBooks, Hot!TypeOK
    <3> QED
      BY <3>1, <3>3, <3>4
  <2>2. CASE Hot!Joined
    <3>1. thread' = 0 /\ UNCHANGED <<started, at>> /\ (expired' <=> (expired \/ Hot!IsAlive(thread))) /\ expired' \in BOOLEAN
      BY <2>2 DEF Hot!Joined, Hot!poll
    <3>2. 0 \in 0..MaxPollers
      BY DEF Hot!HotReloadAssumption
    <3> QED
      BY <3>1, <3>2 DEF HotBooks, Hot!TypeOK
  <2>3. CASE \/ \E a \in Plugin : Hot!Unwatch(a)
             \/ \E clear \in BOOLEAN : Hot!StopPolling(clear)
    <3>1. UNCHANGED <<started, thread, at, expired>>
      BY <2>3 DEF Hot!Unwatch, Hot!StopPolling, Hot!poll
    <3> QED
      BY <3>1 DEF HotBooks, Hot!TypeOK
  <2> QED
    BY <2>1, <2>2, <2>3
<1>4. /\ owner' \in {"idle", "watching", "unwatched", "joining", "discarded"}
      /\ stopFlag' \in BOOLEAN /\ last' \in BOOLEAN /\ (owner' = "discarded" => thread' = 0)
  BY DEF Hot!EnsureThread, Hot!Joined, Hot!Unwatch, Hot!StopPolling, Hot!Idle, HotBooks, Hot!TypeOK
<1>5. Hot!TypeOK'
  BY <1>1, <1>2, <1>3, <1>4 DEF HotBooks, Hot!TypeOK, Hot!State, Hot!Poller
<1>6. Watches'
  <2>1. 0 <= states
    BY DEF HotBooks, Hot!TypeOK, Hot!State
  <2>2. \A b \in Plugin : watch'[b] <= states /\ (watch'[b] # 0 => path[watch'[b]] = b)
    BY <1>2, <2>1 DEF HotBooks, Watches
  <2> QED
    BY <1>1, <1>3, <2>2 DEF HotBooks, Watches, Hot!Poller
<1>7. Pollers'
  <2>1. CASE Hot!EnsureThread
    <3>1. CASE Hot!IsAlive(thread)
      <4>1. UNCHANGED <<thread, started, at, expired>>
        BY <2>1, <3>1 DEF Hot!EnsureThread
      <4> QED
        BY <4>1 DEF HotBooks, Pollers, Hot!Poller
    <3>2. CASE ~Hot!IsAlive(thread)
      <4>1. /\ started < MaxPollers /\ started' = started + 1 /\ thread' = started + 1 /\ UNCHANGED expired
            /\ at' = [at EXCEPT ![started + 1] = "top"]
        BY <2>1, <3>2 DEF Hot!EnsureThread
      <4>2. started \in Nat /\ started + 1 \in Hot!Poller
        BY <4>1 DEF HotBooks, Hot!TypeOK, Hot!Poller, Hot!HotReloadAssumption
      <4>3. \A t \in Hot!Poller : at'[t] = IF t = started + 1 THEN "top" ELSE at[t]
        BY <4>1 DEF HotBooks, Hot!TypeOK
      <4>4. \A t \in Hot!Poller : at'[t] = "unborn" <=> t > started + 1
        <5>1. \A t \in Hot!Poller : t > started + 1 <=> t > started /\ t # started + 1
          BY <4>2 DEF Hot!Poller
        <5> QED
          BY <4>3, <5>1 DEF HotBooks, Pollers
      <4>5. ~expired => \A t \in Hot!Poller : at[t] \in {"unborn", "ended"}
        BY <3>2, <4>2 DEF HotBooks, Pollers, Hot!IsAlive, Hot!Poller
      <4> QED
        BY <4>1, <4>2, <4>3, <4>4, <4>5 DEF Pollers, Hot!Poller
    <3> QED
      BY <3>1, <3>2
  <2>2. CASE Hot!Joined
    <3>1. thread' = 0 /\ expired' = (expired \/ Hot!IsAlive(thread)) /\ UNCHANGED <<started, at>>
      BY <2>2 DEF Hot!Joined, Hot!poll
    <3>2. ASSUME ~expired', NEW t \in Hot!Poller PROVE at[t] \in {"unborn", "ended"}
      <4>1. ~expired /\ ~Hot!IsAlive(thread)
        BY <3>1, <3>2
      <4>2. t # 0 /\ (at[t] \in {"unborn", "ended"} \/ t = thread)
        BY <4>1 DEF HotBooks, Pollers, Hot!Poller
      <4> QED
        BY <4>1, <4>2 DEF Hot!IsAlive
    <3>3. 0 <= started
      BY DEF HotBooks, Hot!TypeOK
    <3> QED
      BY <3>1, <3>2, <3>3 DEF HotBooks, Pollers, Hot!Poller
  <2>3. CASE \/ \E a \in Plugin : Hot!Unwatch(a)
             \/ \E clear \in BOOLEAN : Hot!StopPolling(clear)
    <3>1. UNCHANGED <<thread, started, at, expired>>
      BY <2>3 DEF Hot!Unwatch, Hot!StopPolling, Hot!poll
    <3> QED
      BY <3>1 DEF HotBooks, Pollers, Hot!Poller
  <2> QED
    BY <2>1, <2>2, <2>3
<1>8. Counted'
  <2>1. \A s : CallsOn(s)' => CallsOn(s)
    BY <1>1, <1>3 DEF CallsOn, Hot!Poller
  <2> QED
    BY <1>1, <1>3, <2>1 DEF HotBooks, Counted, Due, Hot!State
<1> QED
  BY <1>5, <1>6, <1>7, <1>8 DEF HotBooks

LEMMA PollKeeps ==
  ASSUME Hot!HotReloadAssumption, HotBooks, NEW t \in Hot!Poller, Hot!Poll(t)
  PROVE  HotBooks'
<1>1. UNCHANGED <<mtime, gone, vanished, watch, states, path, stopFlag, thread, started, owner, last, expired>>
  BY DEF Hot!Poll, Hot!Top, Hot!Snapshot, Hot!Detect, Hot!Callback, Hot!EndRound, Hot!files, Hot!control
<1>2. /\ at[t] \notin {"unborn", "ended"} /\ at'[t] # "unborn"
      /\ at' \in [Hot!Poller -> {"unborn", "top", "asleep", "scanning", "calling", "ended"}]
      /\ \A u \in Hot!Poller : u # t => at'[u] = at[u]
  <2>1. at \in [Hot!Poller -> {"unborn", "top", "asleep", "scanning", "calling", "ended"}]
    BY DEF HotBooks, Hot!TypeOK
  <2>2. at[t] \notin {"unborn", "ended"}
    BY DEF Hot!Poll, Hot!Top, Hot!Snapshot, Hot!Detect, Hot!Callback, Hot!EndRound
  <2>3. at' = at \/ \E state \in {"top", "asleep", "scanning", "calling", "ended"} : at' = [at EXCEPT ![t] = state]
    BY DEF Hot!Poll, Hot!Top, Hot!Snapshot, Hot!Detect, Hot!Callback, Hot!EndRound
  <2> QED
    BY <2>1, <2>2, <2>3
<1>3. Pollers'
  BY <1>1, <1>2 DEF HotBooks, Pollers, Hot!Poller
<1>4. ~expired => \A u \in Hot!Poller : u # t => at[u] # "calling" /\ at'[u] # "calling"
  BY <1>2 DEF HotBooks, Pollers
<1>5. CASE Hot!Top(t) \/ Hot!Snapshot(t) \/ Hot!EndRound(t)
  <2>1. /\ UNCHANGED <<sig, target, callbacks>>
        /\ todo' = todo \/ todo' = [todo EXCEPT ![t] = watch]
        /\ at'[t] # "calling"
    BY <1>5 DEF Hot!Top, Hot!Snapshot, Hot!EndRound, HotBooks, Hot!TypeOK
  <2>2. todo' \in [Hot!Poller -> [Plugin -> Hot!State]]
    BY <2>1 DEF HotBooks, Hot!TypeOK
  <2>3. Hot!TypeOK'
    BY <1>1, <1>2, <2>1, <2>2 DEF HotBooks, Hot!TypeOK, Hot!State, Hot!Poller
  <2>4. \A u \in Hot!Poller : todo'[u] = todo[u] \/ todo'[u] = watch
    BY <2>1 DEF HotBooks, Hot!TypeOK
  <2>5. Watches'
    BY <1>1, <1>2, <2>1, <2>4 DEF HotBooks, Watches, Hot!Poller
  <2>6. \A s : CallsOn(s)' => CallsOn(s)
    BY <1>2, <2>1 DEF CallsOn, Hot!Poller
  <2>7. Counted'
    BY <1>1, <2>1, <2>6 DEF HotBooks, Counted, Due, Hot!State
  <2> QED
    BY <1>3, <2>3, <2>5, <2>7 DEF HotBooks
<1>6. ASSUME NEW a \in Plugin, Hot!Detect(t, a) PROVE HotBooks'
  <2>1. PICK s : s = todo[t][a]
    OBVIOUS
  <2>2. /\ at[t] = "scanning" /\ s # 0
        /\ todo' = [todo EXCEPT ![t][a] = 0] /\ sig' = [sig EXCEPT ![s] = mtime[a]] /\ UNCHANGED callbacks
        /\ IF Hot!Changed(a, s) THEN at' = [at EXCEPT ![t] = "calling"] /\ target' = [target EXCEPT ![t] = s]
           ELSE UNCHANGED <<at, target>>
    BY <1>6, <2>1 DEF Hot!Detect
  <2>3. s \in Hot!State /\ s <= states /\ path[s] = a /\ s \in Nat /\ 0 \in Hot!State
    BY <2>1, <2>2 DEF HotBooks, Hot!TypeOK, Watches, Hot!State, Hot!HotReloadAssumption
  <2>4. \A u \in Hot!Poller : \A b \in Plugin : todo'[u][b] = todo[u][b] \/ todo'[u][b] = 0
    BY <2>2 DEF HotBooks, Hot!TypeOK
  <2>5. todo' \in [Hot!Poller -> [Plugin -> Hot!State]]
    BY <2>2, <2>3 DEF HotBooks, Hot!TypeOK
  <2>6. sig' \in [Hot!State -> 0..MaxEdits] /\ target' \in [Hot!Poller -> Hot!State]
    BY <2>2, <2>3 DEF HotBooks, Hot!TypeOK
  <2>7. Hot!TypeOK'
    BY <1>1, <1>2, <2>2, <2>5, <2>6 DEF HotBooks, Hot!TypeOK, Hot!State, Hot!Poller
  <2>8. ASSUME NEW u \in Hot!Poller, at'[u] = "calling" PROVE target'[u] # 0 /\ target'[u] <= states
    BY <1>2, <2>2, <2>3, <2>8 DEF HotBooks, Watches, Hot!TypeOK
  <2>9. 0 <= states
    BY DEF HotBooks, Hot!TypeOK, Hot!State
  <2>10. Watches'
    BY <1>1, <2>4, <2>8, <2>9 DEF HotBooks, Watches, Hot!Poller
  <2>11. \A r \in Hot!State : sig'[r] = IF r = s THEN mtime[a] ELSE sig[r]
    BY <2>2 DEF HotBooks, Hot!TypeOK
  <2>12. mtime[a] \in Nat /\ sig[s] \in Nat /\ callbacks[s] \in Nat /\ sig[s] <= mtime[a]
    BY <2>3 DEF HotBooks, Hot!TypeOK, Hot!HotReloadAssumption, Counted
  <2>13. ASSUME ~expired, NEW r \in Hot!State \ {0}, path[r] \notin vanished PROVE Due(r)'
    <3> SUFFICES callbacks[r] <= sig'[r] /\ (CallsOn(r)' => callbacks[r] < sig'[r])
      BY <2>2 DEF Due
    <3>1. callbacks[r] <= sig[r]
      BY <2>13 DEF HotBooks, Counted, Due
    <3>2. CASE r = s
      <4>1. callbacks[s] <= mtime[a] /\ sig'[s] = mtime[a]
        BY <2>3, <2>11, <2>12, <3>1, <3>2
      <4>2. ASSUME CallsOn(s)' PROVE callbacks[s] < mtime[a]
        <5>1. at'[t] = "calling"
          BY <1>4, <2>13, <4>2 DEF CallsOn, Hot!Poller
        <5>2. Hot!Changed(a, s)
          BY <2>2, <5>1
        <5>3. sig[s] # mtime[a]
          BY <2>3, <2>13, <3>2, <5>2 DEF Hot!Changed, HotBooks, Counted
        <5> QED
          BY <2>12, <3>1, <3>2, <5>3
      <4> QED
        BY <3>2, <4>1, <4>2
    <3>3. CASE r # s
      <4>1. ~CallsOn(r)'
        BY <1>4, <2>2, <2>13, <3>3 DEF CallsOn, Hot!Poller, HotBooks, Hot!TypeOK
      <4> QED
        BY <2>11, <3>1, <3>3, <4>1
    <3> QED
      BY <3>2, <3>3
  <2>14. ASSUME NEW r \in Hot!State PROVE sig'[r] <= mtime[path[r]]
    <3>1. CASE r = s
      BY <2>3, <2>11, <2>12, <3>1
    <3>2. CASE r # s
      BY <2>11, <3>2 DEF HotBooks, Counted
    <3> QED
      BY <3>1, <3>2
  <2>15. Counted'
    <3>1. gone' \subseteq vanished' /\ \A r \in Hot!State : r = 0 \/ r > states' => callbacks'[r] = 0
      BY <1>1, <2>2 DEF HotBooks, Counted
    <3>2. ~expired' => \A r \in Hot!State \ {0} : path'[r] \notin vanished' => Due(r)'
      BY <1>1, <2>13
    <3>3. \A r \in Hot!State : sig'[r] <= mtime'[path'[r]]
      BY <1>1, <2>14
    <3> QED
      BY <3>1, <3>2, <3>3 DEF Counted, Hot!State
  <2> QED
    BY <1>3, <2>7, <2>10, <2>15 DEF HotBooks
<1>7. CASE Hot!Callback(t)
  <2>1. PICK s : s = target[t]
    OBVIOUS
  <2>2. /\ at[t] = "calling" /\ at' = [at EXCEPT ![t] = "scanning"] /\ UNCHANGED <<sig, todo, target>>
        /\ callbacks' = [callbacks EXCEPT ![s] = IF @ > mtime[path[s]] THEN @ ELSE @ + 1]
    BY <1>7, <2>1 DEF Hot!Callback
  <2>3. s \in Hot!State /\ s # 0 /\ s <= states /\ s \in Nat
    BY <2>1, <2>2 DEF HotBooks, Hot!TypeOK, Watches, Hot!State
  <2>4. path[s] \in Plugin /\ mtime[path[s]] \in 0..MaxEdits /\ callbacks[s] \in 0..(MaxEdits + 1) /\ sig[s] \in 0..MaxEdits
    BY <2>3 DEF HotBooks, Hot!TypeOK
  <2>5. (IF callbacks[s] > mtime[path[s]] THEN callbacks[s] ELSE callbacks[s] + 1) \in 0..(MaxEdits + 1)
    BY <2>4 DEF Hot!HotReloadAssumption
  <2>6. callbacks' \in [Hot!State -> 0..(MaxEdits + 1)]
    BY <2>2, <2>5 DEF HotBooks, Hot!TypeOK
  <2>7. Hot!TypeOK'
    BY <1>1, <1>2, <2>2, <2>6 DEF HotBooks, Hot!TypeOK, Hot!State, Hot!Poller
  <2>8. Watches'
    BY <1>1, <1>2, <2>2 DEF HotBooks, Watches, Hot!Poller, Hot!TypeOK
  <2>9. \A r \in Hot!State : r # s => callbacks'[r] = callbacks[r]
    BY <2>2 DEF HotBooks, Hot!TypeOK
  <2>10. \A r \in Hot!State : r = 0 \/ r > states => callbacks'[r] = 0
    <3>1. states \in Nat
      BY DEF HotBooks, Hot!TypeOK, Hot!State
    <3> QED
      BY <2>3, <2>9, <3>1 DEF HotBooks, Counted
  <2>11. ~expired => \A r : ~CallsOn(r)'
    BY <1>4, <2>2 DEF CallsOn, Hot!Poller, HotBooks, Hot!TypeOK
  <2>12. CallsOn(s)
    BY <2>1, <2>2 DEF CallsOn
  <2>13. ASSUME ~expired, path[s] \notin vanished PROVE callbacks'[s] <= sig[s]
    <3>1. callbacks[s] < sig[s]
      BY <2>3, <2>12, <2>13 DEF HotBooks, Counted, Due
    <3>2. callbacks'[s] = callbacks[s] \/ callbacks'[s] = callbacks[s] + 1
      BY <2>2, <2>3 DEF HotBooks, Hot!TypeOK
    <3> QED
      BY <2>4, <3>1, <3>2 DEF Hot!HotReloadAssumption
  <2>14. ASSUME ~expired, NEW r \in Hot!State \ {0}, path[r] \notin vanished PROVE Due(r)'
    <3>1. callbacks'[r] <= sig[r]
      BY <2>9, <2>13, <2>14 DEF HotBooks, Counted, Due
    <3> QED
      BY <2>2, <2>11, <2>14, <3>1 DEF Due
  <2>15. Counted'
    BY <1>1, <2>2, <2>10, <2>11, <2>14 DEF HotBooks, Counted, Hot!State
  <2> QED
    BY <1>3, <2>7, <2>8, <2>15 DEF HotBooks
<1> QED
  BY <1>5, <1>6, <1>7 DEF Hot!Poll

LEMMA HotGoes ==
  ASSUME Hot!HotReloadAssumption, HotBooks, Hot!Next
  PROVE  HotBooks'
  BY EditKeeps, WatchKeeps, SetupKeeps, PollKeeps DEF Hot!Next

LEMMA HotHolds == Hot!HotReloadAssumption /\ HotBooks => Hot!ReloadInv
<1> SUFFICES ASSUME Hot!HotReloadAssumption, HotBooks PROVE Hot!ReloadInv
  OBVIOUS
<1>1. ASSUME ~expired, NEW s \in Hot!State \ {0}, path[s] \notin vanished PROVE callbacks[s] <= mtime[path[s]]
  <2>1. callbacks[s] <= sig[s] /\ sig[s] <= mtime[path[s]]
    BY <1>1 DEF HotBooks, Counted, Due
  <2>2. callbacks[s] \in Nat /\ sig[s] \in Nat /\ mtime[path[s]] \in Nat
    BY DEF HotBooks, Hot!TypeOK, Hot!HotReloadAssumption
  <2> QED
    BY <2>1, <2>2
<1>2. Hot!CallsAreChanges
  BY <1>1 DEF Hot!CallsAreChanges
<1>3. Hot!StopIsFinal
  BY DEF HotBooks, Hot!TypeOK, Pollers, Hot!StopIsFinal, Hot!Poller
<1> QED
  BY <1>2, <1>3 DEF HotBooks, Hot!ReloadInv
(***************************************************************************)
(* The client of a toold daemon                                            *)
(***************************************************************************)

\* A request or an answer (k, o) under way belongs to the thread that took its id,
\* unless it is that of the shutdown, whose id may be given out once more.
Own(k, o) == o = Stop \/ (k # 0 /\ k < nextId /\ \A c \in Caller : id[c] = k => c = o)

\* Ids differ, and what is under way is filed under the id of its owner.
Ids ==
  /\ nextId # 0
  /\ \A c \in Caller : id[c] < nextId /\ (pc[c] \in {"sending", "waiting"} => id[c] # 0)
  /\ \A c, d \in Caller : id[c] = id[d] /\ id[c] # 0 => c = d
  /\ \A i \in 1..Len(inq) : Own(inq[i].id, inq[i].owner)
  /\ \A i \in 1..Len(outq) : outq[i].kind = "reply" => Own(outq[i].id, outq[i].owner)
  /\ msg.kind = "reply" => Own(msg.id, msg.owner)
  /\ \A r \in responses : Own(r.id, r.owner)

ClientBooks == TypeOK /\ Ids /\ NoForeignAnswer /\ WaiterHasHope

Item == [id : Nat, owner : Owner]
Line == [kind : {"ready", "reply", "text", "scalar"}, id : Nat, owner : Owner]

LEMMA ClientBegins == Init => ClientBooks
<1> SUFFICES ASSUME Init PROVE ClientBooks
  OBVIOUS
<1>1. TypeOK
  <2>1. 0 \in 0..MaxCalls /\ 0 \in 0..MaxNoise
    BY CallerAssumption
  <2>2. msg \in [kind : {"ready", "reply", "text", "scalar"}, id : Nat, owner : Owner]
    BY DEF Init, Ready, Owner
  <2>3. got \in [Caller -> Owner]
    BY DEF Init, Owner
  <2>4. \A X : <<>> \in Seq(X)
    OBVIOUS
  <2>5. inq \in Seq([id : Nat, owner : Owner])
    BY <2>4 DEF Init
  <2>6. outq \in Seq([kind : {"ready", "reply", "text", "scalar"}, id : Nat, owner : Owner])
    BY <2>4 DEF Init
  <2>7. /\ pc \in [Caller -> {"idle", "checked", "sending", "waiting"}] /\ id \in [Caller -> Nat]
        /\ calls \in [Caller -> 0..MaxCalls]
    BY <2>1 DEF Init
  <2>8. responses \subseteq [id : Nat, owner : Owner]
    BY DEF Init
  <2> QED
    BY <2>1, <2>2, <2>3, <2>5, <2>6, <2>7, <2>8 DEF Init, TypeOK
<1>2. Ids
  BY DEF Init, Ids, Own, Ready
<1>3. NoForeignAnswer /\ WaiterHasHope
  BY DEF Init, NoForeignAnswer, WaiterHasHope
<1> QED
  BY <1>1, <1>2, <1>3 DEF ClientBooks

\* Own depends on the ids only.
LEMMA OwnStays ==
  ASSUME NEW k, NEW o, Own(k, o), UNCHANGED <<nextId, id>>
  PROVE  Own(k, o)'
  BY DEF Own

\* The constructor, the shutdown without its request, the end of the readers and
\* the fate of the daemon: no answer moves.
LEMMA HostKeeps ==
  ASSUME ClientBooks,
         \/ Constructor \/ Shutdown \/ CloseStdin \/ CloseStdout \/ CloseStderr \/ Terminate
         \/ ReadEnd \/ ErrEnd \/ Hang \/ Die
  PROVE  ClientBooks'
<1>1. UNCHANGED <<call, responses, msg, inq, outq, noise>>
  BY DEF Constructor, Started, ReadyTimeout, StartFailed, Shutdown, CloseStdin, CloseStdout, CloseStderr, Terminate,
         ReadEnd, ErrEnd, Hang, Die, call, read, peer
<1>2. UNCHANGED <<nextId, pc, id, got, calls>>
  BY <1>1 DEF call
<1>3. Ids'
  BY <1>1, <1>2, OwnStays DEF ClientBooks, Ids
<1>4. NoForeignAnswer'
  BY <1>2 DEF ClientBooks, NoForeignAnswer
<1>5. (shut => shut') /\ (~Alive => ~Alive') /\ (reader' # "dead" => reader # "dead" /\ (reader = "handling" => reader' = "handling"))
  BY DEF Constructor, Started, ReadyTimeout, StartFailed, Shutdown, CloseStdin, CloseStdout, CloseStderr, Terminate,
         ReadEnd, ErrEnd, Hang, Die, call, read, peer, host, Alive
<1>6. WaiterHasHope'
  BY <1>1, <1>2, <1>5 DEF ClientBooks, WaiterHasHope, Answers
<1>7. /\ start' \in {"waiting", "ready", "failed"}
      /\ stop' \in {"idle", "flagged", "sent", "outClosed", "errClosed", "done"}
      /\ reader' \in {"reading", "handling", "ended", "dead"}
      /\ errReader' \in {"reading", "ended"}
      /\ daemon' \in {"loading", "serving", "hung", "gone"}
  BY DEF Constructor, Started, ReadyTimeout, StartFailed, Shutdown, CloseStdin, CloseStdout, CloseStderr, Terminate,
         ReadEnd, ErrEnd, Hang, Die, call, read, peer, host, Alive, ClientBooks, TypeOK
<1>8. shut' \in BOOLEAN /\ readySet' \in BOOLEAN /\ stdinOpen' \in BOOLEAN
  BY DEF Constructor, Started, ReadyTimeout, StartFailed, Shutdown, CloseStdin, CloseStdout, CloseStderr, Terminate,
         ReadEnd, ErrEnd, Hang, Die, call, read, peer, host, Alive, ClientBooks, TypeOK
<1>9. stop' # "idle" => shut'
  BY DEF Constructor, Started, ReadyTimeout, StartFailed, Shutdown, CloseStdin, CloseStdout, CloseStderr, Terminate,
         ReadEnd, ErrEnd, Hang, Die, call, read, peer, host, Alive, ClientBooks, TypeOK
<1>10. TypeOK'
  BY <1>1, <1>2, <1>7, <1>8, <1>9 DEF ClientBooks, TypeOK
<1> QED
  BY <1>3, <1>4, <1>6, <1>10 DEF ClientBooks

LEMMA SendStopKeeps ==
  ASSUME ClientBooks, SendStop
  PROVE  ClientBooks'
<1>1. /\ stop' = "sent" /\ stop = "flagged"
      /\ inq' = inq \/ inq' = Append(inq, [id |-> nextId, owner |-> Stop])
      /\ UNCHANGED <<start, shut, readySet, nextId, pc, id, got, calls, responses, reader, msg, errReader,
                     stdinOpen, outq, daemon, noise>>
  BY DEF SendStop, call, read
<1>2. PICK item : item = [id |-> nextId, owner |-> Stop]
  OBVIOUS
<1>3. item \in Item /\ item.owner = Stop /\ inq \in Seq(Item)
  BY <1>2 DEF Item, ClientBooks, TypeOK, Owner
<1>4. PICK q2 : q2 = Append(inq, item)
  OBVIOUS
<1>5. q2 \in Seq(Item) /\ Len(q2) = Len(inq) + 1 /\ q2[Len(inq) + 1] = item /\ (\A i \in 1..Len(inq) : q2[i] = inq[i])
      /\ Len(inq) \in Nat
  BY <1>3, <1>4
<1>6. inq' \in Seq(Item)
  BY <1>1, <1>2, <1>3, <1>4, <1>5
<1>7. TypeOK'
  BY <1>1, <1>6 DEF ClientBooks, TypeOK, Item
<1>8. \A i \in 1..Len(inq') : Own(inq'[i].id, inq'[i].owner)
  BY <1>1, <1>2, <1>3, <1>4, <1>5 DEF ClientBooks, Ids, Own
<1>9. Ids'
  BY <1>1, <1>8, OwnStays DEF ClientBooks, Ids
<1>10. NoForeignAnswer'
  BY <1>1 DEF ClientBooks, NoForeignAnswer
<1>11. \A k : (\E i \in 1..Len(inq) : inq[i].id = k) => \E i \in 1..Len(inq') : inq'[i].id = k
  BY <1>1, <1>2, <1>4, <1>5
<1>12. WaiterHasHope'
  BY <1>1, <1>11 DEF ClientBooks, WaiterHasHope, Answers, Alive
<1> QED
  BY <1>7, <1>9, <1>10, <1>12 DEF ClientBooks

LEMMA CallKeeps ==
  ASSUME ClientBooks, NEW c \in Caller, Check(c) \/ TakeId(c) \/ Raise(c)
  PROVE  ClientBooks'
<1>1. UNCHANGED <<start, stop, shut, readySet, got, responses, reader, msg, errReader, stdinOpen, inq, outq, daemon, noise>>
  BY DEF Check, TakeId, Raise, host, read, peer
<1>2. CASE Check(c) \/ Raise(c)
  <2>1. /\ UNCHANGED <<nextId, id>> /\ calls' \in [Caller -> 0..MaxCalls]
        /\ pc' \in [Caller -> {"idle", "checked", "sending", "waiting"}]
        /\ \A d \in Caller : pc'[d] \in {"sending", "waiting"} => pc'[d] = pc[d]
    <3>1. pc \in [Caller -> {"idle", "checked", "sending", "waiting"}] /\ calls \in [Caller -> 0..MaxCalls] /\ MaxCalls \in Nat
      BY CallerAssumption DEF ClientBooks, TypeOK
    <3>2. UNCHANGED <<nextId, id>> /\ \E state \in {"idle", "checked"} : pc' = [pc EXCEPT ![c] = state]
      BY <1>2 DEF Check, Raise
    <3>3. calls' = calls \/ (calls[c] < MaxCalls /\ calls' = [calls EXCEPT ![c] = @ + 1])
      BY <1>2 DEF Check, Raise
    <3>4. calls' \in [Caller -> 0..MaxCalls]
      <4>1. CASE calls[c] < MaxCalls /\ calls' = [calls EXCEPT ![c] = @ + 1]
        <5>1. calls[c] + 1 \in 0..MaxCalls
          BY <3>1, <4>1
        <5> QED
          BY <3>1, <4>1, <5>1
      <4> QED
        BY <3>1, <3>3, <4>1
    <3> QED
      BY <3>1, <3>2, <3>4
  <2>2. TypeOK'
    BY <1>1, <2>1 DEF ClientBooks, TypeOK
  <2>3. Ids'
    BY <1>1, <2>1, OwnStays DEF ClientBooks, Ids
  <2>4. WaiterHasHope'
    BY <1>1, <2>1 DEF ClientBooks, WaiterHasHope, Answers, Alive
  <2> QED
    BY <1>1, <2>2, <2>3, <2>4 DEF ClientBooks, NoForeignAnswer
<1>3. CASE TakeId(c)
  <2>1. /\ id' = [id EXCEPT ![c] = nextId] /\ nextId' = nextId + 1 /\ pc' = [pc EXCEPT ![c] = "sending"] /\ UNCHANGED calls
        /\ nextId \in Nat /\ id \in [Caller -> Nat] /\ pc \in [Caller -> {"idle", "checked", "sending", "waiting"}]
    BY <1>3 DEF TakeId, ClientBooks, TypeOK
  <2>2. TypeOK'
    BY <1>1, <2>1 DEF ClientBooks, TypeOK
  <2>3. \A k \in Nat, o \in Owner : Own(k, o) => Own(k, o)'
    BY <2>1 DEF Own
  <2>4. /\ inq \in Seq(Item) /\ outq \in Seq(Line) /\ msg \in Line /\ responses \subseteq Item
    BY DEF ClientBooks, TypeOK, Item, Line
  <2>5. /\ \A i \in 1..Len(inq) : Own(inq[i].id, inq[i].owner)'
        /\ \A i \in 1..Len(outq) : outq[i].kind = "reply" => Own(outq[i].id, outq[i].owner)'
        /\ msg.kind = "reply" => Own(msg.id, msg.owner)'
        /\ \A r \in responses : Own(r.id, r.owner)'
    <3>1. \A i \in 1..Len(inq) : inq[i].id \in Nat /\ inq[i].owner \in Owner
      <4>1. \A i \in 1..Len(inq) : inq[i] \in Item
        BY <2>4
      <4> QED
        BY <4>1 DEF Item
    <3>2. \A i \in 1..Len(outq) : outq[i].id \in Nat /\ outq[i].owner \in Owner
      <4>1. \A i \in 1..Len(outq) : outq[i] \in Line
        BY <2>4
      <4> QED
        BY <4>1 DEF Line
    <3>3. msg.id \in Nat /\ msg.owner \in Owner
      BY <2>4 DEF Line
    <3>4. \A r \in responses : r.id \in Nat /\ r.owner \in Owner
      BY <2>4 DEF Item
    <3> QED
      BY <1>1, <2>3, <3>1, <3>2, <3>3, <3>4 DEF ClientBooks, Ids
  <2>6. /\ nextId' # 0
        /\ \A d \in Caller : id'[d] < nextId' /\ (pc'[d] \in {"sending", "waiting"} => id'[d] # 0)
        /\ \A d, e \in Caller : id'[d] = id'[e] /\ id'[d] # 0 => d = e
    BY <2>1 DEF ClientBooks, Ids
  <2>7. Ids'
    BY <1>1, <2>5, <2>6 DEF Ids
  <2>8. WaiterHasHope'
    BY <1>1, <2>1 DEF ClientBooks, WaiterHasHope, Answers, Alive
  <2> QED
    BY <1>1, <2>2, <2>7, <2>8 DEF ClientBooks, NoForeignAnswer
<1> QED
  BY <1>2, <1>3

LEMMA SendKeeps ==
  ASSUME ClientBooks, NEW c \in Caller, Send(c)
  PROVE  ClientBooks'
<1>1. /\ UNCHANGED <<start, stop, shut, readySet, nextId, id, got, calls, responses, reader, msg, errReader, stdinOpen,
                     outq, daemon, noise>>
      /\ pc[c] = "sending"
      /\ \/ inq' = Append(inq, [id |-> id[c], owner |-> c]) /\ pc' = [pc EXCEPT ![c] = "waiting"]
         \/ inq' = inq /\ pc' = [pc EXCEPT ![c] = "idle"]
  BY DEF Send, host, read
<1>2. PICK item : item = [id |-> id[c], owner |-> c]
  OBVIOUS
<1>3. item \in Item /\ item.owner = c /\ item.id = id[c] /\ inq \in Seq(Item)
  BY <1>2 DEF Item, ClientBooks, TypeOK, Owner
<1>4. PICK q2 : q2 = Append(inq, item)
  OBVIOUS
<1>5. q2 \in Seq(Item) /\ Len(q2) = Len(inq) + 1 /\ q2[Len(inq) + 1] = item /\ (\A i \in 1..Len(inq) : q2[i] = inq[i])
      /\ Len(inq) \in Nat
  BY <1>3, <1>4
<1>6. inq' \in Seq(Item)
  BY <1>1, <1>2, <1>3, <1>4, <1>5
<1>7. pc' \in [Caller -> {"idle", "checked", "sending", "waiting"}] /\ \A d \in Caller : d # c => pc'[d] = pc[d]
  BY <1>1 DEF ClientBooks, TypeOK
<1>8. TypeOK'
  BY <1>1, <1>6, <1>7 DEF ClientBooks, TypeOK, Item
<1>9. Own(id[c], c)
  BY <1>1 DEF ClientBooks, Ids, Own
<1>10. \A i \in 1..Len(inq') : Own(inq'[i].id, inq'[i].owner)
  BY <1>1, <1>2, <1>3, <1>4, <1>5, <1>9 DEF ClientBooks, Ids
<1>11. \A d \in Caller : pc'[d] \in {"sending", "waiting"} => id[d] # 0
  BY <1>1, <1>7 DEF ClientBooks, Ids
<1>12. Ids'
  BY <1>1, <1>10, <1>11, OwnStays DEF ClientBooks, Ids
<1>13. \A k : (\E i \in 1..Len(inq) : inq[i].id = k) => \E i \in 1..Len(inq') : inq'[i].id = k
  BY <1>1, <1>2, <1>4, <1>5
<1>14. pc'[c] = "waiting" => \E i \in 1..Len(inq') : inq'[i].id = id[c]
  BY <1>1, <1>2, <1>3, <1>4, <1>5 DEF ClientBooks, TypeOK
<1>15. WaiterHasHope'
  BY <1>1, <1>7, <1>13, <1>14 DEF ClientBooks, WaiterHasHope, Answers, Alive
<1> QED
  BY <1>1, <1>8, <1>12, <1>15 DEF ClientBooks, NoForeignAnswer

LEMMA ReturnKeeps ==
  ASSUME ClientBooks, NEW c \in Caller, Return(c)
  PROVE  ClientBooks'
<1>1. PICK r \in responses : /\ r.id = id[c] /\ responses' = responses \ {r} /\ got' = [got EXCEPT ![c] = r.owner]
  BY DEF Return, Answers
<1>2. /\ UNCHANGED <<start, stop, shut, readySet, nextId, id, calls, reader, msg, errReader, stdinOpen, inq, outq, daemon, noise>>
      /\ pc[c] = "waiting" /\ pc' = [pc EXCEPT ![c] = "idle"]
  BY DEF Return, host, peer
<1>3. r.owner \in {c, Stop} /\ r \in Item
  BY <1>1 DEF ClientBooks, Ids, Own, TypeOK, Item
<1>4. pc' \in [Caller -> {"idle", "checked", "sending", "waiting"}] /\ got' \in [Caller -> Owner]
  BY <1>1, <1>2, <1>3 DEF ClientBooks, TypeOK, Owner
<1>5. TypeOK'
  BY <1>1, <1>2, <1>4 DEF ClientBooks, TypeOK
<1>6. \A d \in Caller : pc'[d] \in {"sending", "waiting"} => pc'[d] = pc[d] /\ d # c
  BY <1>2 DEF ClientBooks, TypeOK
<1>7. Ids'
  BY <1>1, <1>2, <1>6, OwnStays DEF ClientBooks, Ids
<1>8. NoForeignAnswer'
  BY <1>1, <1>3 DEF ClientBooks, NoForeignAnswer, TypeOK
<1>9. \A d \in Caller : pc'[d] = "waiting" => id[d] # r.id
  BY <1>1, <1>2, <1>6 DEF ClientBooks, Ids
<1>10. \A d \in Caller : pc'[d] = "waiting" /\ Answers(d) # {} => Answers(d)' # {}
  BY <1>1, <1>2, <1>9 DEF Answers
<1>11. WaiterHasHope'
  BY <1>2, <1>6, <1>10 DEF ClientBooks, WaiterHasHope, Alive
<1> QED
  BY <1>5, <1>7, <1>8, <1>11 DEF ClientBooks

LEMMA ReadKeeps ==
  ASSUME ClientBooks, ReadLine
  PROVE  ClientBooks'
<1>1. /\ reader = "reading" /\ outq # <<>> /\ msg' = Head(outq) /\ outq' = Tail(outq) /\ reader' = "handling"
      /\ UNCHANGED <<start, stop, shut, readySet, nextId, pc, id, got, calls, responses, errReader, stdinOpen, inq, daemon, noise>>
  BY DEF ReadLine, host, call
<1>2. outq \in Seq(Line) /\ Len(outq) \in Nat /\ Len(outq) # 0
  BY <1>1 DEF ClientBooks, TypeOK, Line
<1>3. PICK q2 : q2 = Tail(outq)
  OBVIOUS
<1>4. Head(outq) = outq[1] /\ outq[1] \in Line /\ q2 \in Seq(Line) /\ Len(q2) = Len(outq) - 1
      /\ \A i \in 1..Len(q2) : q2[i] = outq[i + 1]
  BY <1>1, <1>2, <1>3
<1>5. TypeOK'
  BY <1>1, <1>3, <1>4 DEF ClientBooks, TypeOK, Line
<1>6. \A i \in 1..Len(q2) : i + 1 \in 1..Len(outq)
  BY <1>2, <1>4
<1>7. 1 \in 1..Len(outq)
  BY <1>2
<1>8. Ids'
  BY <1>1, <1>3, <1>4, <1>6, <1>7, OwnStays DEF ClientBooks, Ids
<1>9. ASSUME NEW k, NEW i \in 1..Len(outq), outq[i].kind = "reply", outq[i].id = k
      PROVE  \/ msg'.kind = "reply" /\ msg'.id = k
             \/ \E j \in 1..Len(q2) : q2[j].kind = "reply" /\ q2[j].id = k
  <2>1. CASE i = 1
    BY <1>1, <1>4, <1>9, <2>1
  <2>2. CASE i # 1
    <3>1. i - 1 \in 1..Len(q2) /\ q2[i - 1] = outq[i]
      BY <1>2, <1>4, <2>2
    <3> QED
      BY <1>9, <3>1
  <2> QED
    BY <2>1, <2>2
<1>10. WaiterHasHope'
  BY <1>1, <1>3, <1>9 DEF ClientBooks, WaiterHasHope, Answers, Alive
<1> QED
  BY <1>1, <1>5, <1>8, <1>10 DEF ClientBooks, NoForeignAnswer

LEMMA HandleKeeps ==
  ASSUME ClientBooks, HandleLine
  PROVE  ClientBooks'
<1>1. /\ reader = "handling" /\ reader' \in {"dead", "reading"}
      /\ (readySet' <=> (readySet \/ msg.kind = "ready")) /\ readySet' \in BOOLEAN
      /\ responses' = IF msg.kind = "reply" THEN {r \in responses : r.id # msg.id} \cup {[id |-> msg.id, owner |-> msg.owner]}
                      ELSE responses
      /\ UNCHANGED <<start, stop, shut, nextId, pc, id, got, calls, msg, errReader, stdinOpen, inq, outq, daemon, noise>>
  BY DEF HandleLine, call, peer, ClientBooks, TypeOK
<1>2. msg \in Line /\ responses \subseteq Item
  BY DEF ClientBooks, TypeOK, Line, Item
<1>3. [id |-> msg.id, owner |-> msg.owner] \in Item
  BY <1>2 DEF Line, Item
<1>4. responses' \subseteq Item
  BY <1>1, <1>2, <1>3
<1>5. TypeOK'
  BY <1>1, <1>4 DEF ClientBooks, TypeOK, Item
<1>6. \A r \in responses' : Own(r.id, r.owner)
  BY <1>1 DEF ClientBooks, Ids
<1>7. Ids'
  BY <1>1, <1>6, OwnStays DEF ClientBooks, Ids
<1>8. \A c \in Caller : Answers(c) # {} \/ (msg.kind = "reply" /\ msg.id = id[c]) => Answers(c)' # {}
  <2>1. SUFFICES ASSUME NEW c \in Caller, Answers(c) # {} \/ (msg.kind = "reply" /\ msg.id = id[c])
                 PROVE  \E r \in responses' : r.id = id[c]
    BY <1>1 DEF Answers
  <2>2. CASE msg.kind = "reply" /\ msg.id = id[c]
    <3>1. PICK new : new = [id |-> msg.id, owner |-> msg.owner]
      OBVIOUS
    <3>2. new \in responses' /\ new.id = id[c]
      BY <1>1, <2>2, <3>1
    <3> QED
      BY <3>2
  <2>3. CASE ~(msg.kind = "reply" /\ msg.id = id[c])
    BY <1>1, <2>1, <2>3 DEF Answers
  <2> QED
    BY <2>2, <2>3
<1>9. WaiterHasHope'
  BY <1>1, <1>8 DEF ClientBooks, WaiterHasHope, Alive
<1> QED
  BY <1>1, <1>5, <1>7, <1>9 DEF ClientBooks, NoForeignAnswer

\* What the daemon writes that is no answer.
LEMMA WriteKeeps ==
  ASSUME ClientBooks, Load \/ Write
  PROVE  ClientBooks'
<1>1. /\ UNCHANGED <<start, stop, shut, readySet, nextId, pc, id, got, calls, responses, reader, msg, errReader, stdinOpen, inq>>
      /\ Alive
  BY DEF Load, Write, host, call, read, Alive
<1>2. /\ daemon' \in {"loading", "serving", "hung", "gone"} /\ noise' \in 0..MaxNoise
  BY CallerAssumption DEF Load, Write, ClientBooks, TypeOK
<1>3. outq' = outq \/ \E k \in {"ready", "text", "scalar"} : outq' = Append(outq, [kind |-> k, id |-> 0, owner |-> Stop])
  BY CallerAssumption DEF Load, Write, Ready, Raw
<1>4. outq \in Seq(Line) /\ Len(outq) \in Nat
  BY DEF ClientBooks, TypeOK, Line
<1>5. CASE outq' = outq
  <2>1. TypeOK'
    BY <1>1, <1>2, <1>5 DEF ClientBooks, TypeOK
  <2>2. Ids'
    BY <1>1, <1>5, OwnStays DEF ClientBooks, Ids
  <2>3. WaiterHasHope'
    BY <1>1, <1>5 DEF ClientBooks, WaiterHasHope, Answers, Alive
  <2> QED
    BY <1>1, <2>1, <2>2, <2>3 DEF ClientBooks, NoForeignAnswer
<1>6. ASSUME NEW k \in {"ready", "text", "scalar"}, outq' = Append(outq, [kind |-> k, id |-> 0, owner |-> Stop])
      PROVE  ClientBooks'
  <2>1. PICK line : line = [kind |-> k, id |-> 0, owner |-> Stop]
    OBVIOUS
  <2>2. line \in Line /\ line.kind # "reply"
    BY <2>1 DEF Line, Owner
  <2>3. PICK q2 : q2 = Append(outq, line)
    OBVIOUS
  <2>4. q2 \in Seq(Line) /\ Len(q2) = Len(outq) + 1 /\ q2[Len(outq) + 1] = line /\ \A i \in 1..Len(outq) : q2[i] = outq[i]
    BY <1>4, <2>2, <2>3
  <2>5. outq' = q2
    BY <1>6, <2>1, <2>3
  <2>6. TypeOK'
    BY <1>1, <1>2, <2>4, <2>5 DEF ClientBooks, TypeOK, Line
  <2>7. \A i \in 1..Len(q2) : q2[i].kind = "reply" => Own(q2[i].id, q2[i].owner)
    BY <1>4, <2>2, <2>4 DEF ClientBooks, Ids
  <2>8. Ids'
    BY <1>1, <2>5, <2>7, OwnStays DEF ClientBooks, Ids
  <2>9. \A j : (\E i \in 1..Len(outq) : outq[i].kind = "reply" /\ outq[i].id = j)
               => \E i \in 1..Len(q2) : q2[i].kind = "reply" /\ q2[i].id = j
    BY <1>4, <2>4
  <2>10. WaiterHasHope'
    BY <1>1, <2>5, <2>9 DEF ClientBooks, WaiterHasHope, Answers, Alive
  <2> QED
    BY <1>1, <2>6, <2>8, <2>10 DEF ClientBooks, NoForeignAnswer
<1> QED
  BY <1>3, <1>5, <1>6

LEMMA ServeKeeps ==
  ASSUME ClientBooks, Serve
  PROVE  ClientBooks'
<1>1. /\ UNCHANGED <<start, stop, shut, readySet, nextId, pc, id, got, calls, responses, reader, msg, errReader, stdinOpen, noise>>
      /\ inq # <<>> /\ inq' = Tail(inq) /\ outq' = Append(outq, Reply(Head(inq))) /\ daemon = "serving"
      /\ daemon' \in {"gone", "serving"}
  BY DEF Serve, host, call, read
<1>2. inq \in Seq(Item) /\ outq \in Seq(Line) /\ Len(inq) \in Nat /\ Len(outq) \in Nat /\ Len(inq) # 0
  BY <1>1 DEF ClientBooks, TypeOK, Item, Line
<1>3. PICK q1 : q1 = Tail(inq)
  OBVIOUS
<1>4. Head(inq) = inq[1] /\ inq[1] \in Item /\ q1 \in Seq(Item) /\ Len(q1) = Len(inq) - 1 /\ \A i \in 1..Len(q1) : q1[i] = inq[i + 1]
  BY <1>1, <1>2, <1>3
<1>5. PICK line : line = Reply(inq[1])
  OBVIOUS
<1>6. line \in Line /\ line.kind = "reply" /\ line.id = inq[1].id /\ line.owner = inq[1].owner
  BY <1>4, <1>5 DEF Reply, Item, Line
<1>7. PICK q2 : q2 = Append(outq, line)
  OBVIOUS
<1>8. q2 \in Seq(Line) /\ Len(q2) = Len(outq) + 1 /\ q2[Len(outq) + 1] = line /\ \A i \in 1..Len(outq) : q2[i] = outq[i]
  BY <1>2, <1>6, <1>7
<1>9. inq' = q1 /\ outq' = q2
  BY <1>1, <1>3, <1>4, <1>5, <1>7
<1>10. TypeOK'
  <2>1. inq' \in Seq(Item) /\ outq' \in Seq(Line)
    BY <1>4, <1>8, <1>9
  <2>2. inq' \in Seq([id : Nat, owner : Owner])
    BY <2>1 DEF Item
  <2>3. outq' \in Seq([kind : {"ready", "reply", "text", "scalar"}, id : Nat, owner : Owner])
    BY <2>1 DEF Line
  <2> QED
    BY <1>1, <2>2, <2>3 DEF ClientBooks, TypeOK
<1>11. \A i \in 1..Len(q1) : i + 1 \in 1..Len(inq)
  BY <1>2, <1>4
<1>12. 1 \in 1..Len(inq)
  BY <1>2
<1>13. \A i \in 1..Len(q1) : Own(q1[i].id, q1[i].owner)
  BY <1>4, <1>11 DEF ClientBooks, Ids
<1>14. \A i \in 1..Len(q2) : q2[i].kind = "reply" => Own(q2[i].id, q2[i].owner)
  BY <1>2, <1>6, <1>8, <1>12 DEF ClientBooks, Ids
<1>15. Ids'
  BY <1>1, <1>9, <1>13, <1>14, OwnStays DEF ClientBooks, Ids
<1>16. \A j : (\E i \in 1..Len(outq) : outq[i].kind = "reply" /\ outq[i].id = j)
              => \E i \in 1..Len(q2) : q2[i].kind = "reply" /\ q2[i].id = j
  BY <1>2, <1>8
<1>17. ASSUME NEW k, NEW i \in 1..Len(inq), inq[i].id = k
       PROVE  \/ \E j \in 1..Len(q1) : q1[j].id = k
              \/ \E j \in 1..Len(q2) : q2[j].kind = "reply" /\ q2[j].id = k
  <2>1. CASE i = 1
    <3>1. Len(outq) + 1 \in 1..Len(q2)
      BY <1>2, <1>8
    <3> QED
      BY <1>6, <1>8, <1>17, <2>1, <3>1
  <2>2. CASE i # 1
    <3>1. i - 1 \in 1..Len(q1) /\ q1[i - 1] = inq[i]
      BY <1>2, <1>4, <2>2
    <3> QED
      BY <1>17, <3>1
  <2> QED
    BY <2>1, <2>2
<1>18. ASSUME NEW c \in Caller, pc[c] = "waiting", reader # "dead"
       PROVE  \/ Answers(c) # {} \/ shut \/ ~Alive
              \/ \E i \in 1..Len(q1) : q1[i].id = id[c]
              \/ \E i \in 1..Len(q2) : q2[i].kind = "reply" /\ q2[i].id = id[c]
              \/ reader = "handling" /\ msg.kind = "reply" /\ msg.id = id[c]
  BY <1>16, <1>17, <1>18 DEF ClientBooks, WaiterHasHope
<1>19. Alive /\ \A c : Answers(c)' = Answers(c)
  BY <1>1 DEF Alive, Answers
<1>20. WaiterHasHope'
  BY <1>1, <1>9, <1>18, <1>19 DEF WaiterHasHope
<1> QED
  BY <1>1, <1>10, <1>15, <1>20 DEF ClientBooks, NoForeignAnswer

LEMMA ClientGoes ==
  ASSUME ClientBooks, Next
  PROVE  ClientBooks'
<1>1. ASSUME NEW c \in Caller, Check(c) \/ Calling(c) PROVE ClientBooks'
  BY <1>1, CallKeeps, SendKeeps, ReturnKeeps DEF Calling
<1> QED
  BY <1>1, HostKeeps, SendStopKeeps, ReadKeeps, HandleKeeps, WriteKeeps, ServeKeeps DEF Next, Stopper, Reading, Daemon

(***************************************************************************)
(* The tool bus                                                            *)
(***************************************************************************)

EventsOf(list) == Bus!ToSet(list) \ {Bus!NONE}

Entry == Bus!Event \cup {Bus!NONE}

LEMMA EventIsNoEnd ==
  ASSUME NEW e \in Bus!Event
  PROVE  e # Bus!NONE
<1>1. PICK x \in Topics \cup Subs, n \in 1..MaxEvents : e = <<x, n>>
  BY DEF Bus!Event
<1>2. Len(<<x, n>>) = 2 /\ Len(<<>>) = 0
  OBVIOUS
<1> QED
  BY <1>1, <1>2 DEF Bus!NONE

\* A reader that takes the head leaves the whole as it was.
LEMMA TakenWhole ==
  ASSUME NEW r \in Seq(Entry), NEW b \in Seq(Entry), b # <<>>
  PROVE  Append(r, Head(b)) \o Tail(b) = r \o b
  OBVIOUS

LEMMA AppendedWhole ==
  ASSUME NEW r \in Seq(Entry), NEW b \in Seq(Entry), NEW e \in Entry
  PROVE  r \o Append(b, e) = Append(r \o b, e)
  OBVIOUS

LEMMA OrderAppend ==
  ASSUME NEW list \in Seq(Entry), NEW e \in Entry, Bus!InOrder(list),
         e = Bus!NONE \/ \A x \in EventsOf(list) : x[2] < e[2]
  PROVE  Bus!InOrder(Append(list, e)) /\ EventsOf(Append(list, e)) = EventsOf(list) \cup ({e} \ {Bus!NONE})
<1>1. PICK more : more = Append(list, e)
  OBVIOUS
<1>2. /\ Len(more) = Len(list) + 1 /\ Len(list) \in Nat /\ more[Len(list) + 1] = e
      /\ DOMAIN more = 1..(Len(list) + 1) /\ DOMAIN list = 1..Len(list)
      /\ \A i \in 1..Len(list) : more[i] = list[i]
  BY <1>1
<1>3. ASSUME NEW i \in DOMAIN more, NEW j \in DOMAIN more, i < j, more[i] # Bus!NONE, more[j] # Bus!NONE
      PROVE  more[i][2] < more[j][2]
  <2>1. i \in 1..Len(list) /\ more[i] = list[i]
    BY <1>2, <1>3
  <2>2. CASE j \in 1..Len(list)
    BY <1>2, <1>3, <2>1, <2>2 DEF Bus!InOrder
  <2>3. CASE j = Len(list) + 1
    <3>1. list[i] \in EventsOf(list)
      BY <1>2, <1>3, <2>1 DEF EventsOf, Bus!ToSet
    <3> QED
      BY <1>2, <1>3, <2>1, <2>3, <3>1
  <2> QED
    BY <1>2, <2>2, <2>3
<1>4. Bus!InOrder(more)
  BY <1>3 DEF Bus!InOrder
<1>5. EventsOf(more) = EventsOf(list) \cup ({e} \ {Bus!NONE})
  <2>1. \A i \in DOMAIN more : i \in DOMAIN list \/ i = Len(list) + 1
    BY <1>2
  <2>2. Bus!ToSet(more) = Bus!ToSet(list) \cup {e}
    BY <1>2, <2>1 DEF Bus!ToSet
  <2> QED
    BY <2>2 DEF EventsOf
<1> QED
  BY <1>1, <1>4, <1>5

LEMMA OrderDrop ==
  ASSUME NEW r \in Seq(Entry), NEW b \in Seq(Entry), b # <<>>, Head(b) = Bus!NONE, Bus!InOrder(r \o b)
  PROVE  Bus!InOrder(r \o Tail(b)) /\ EventsOf(r \o Tail(b)) = EventsOf(r \o b)
<1>1. PICK whole : whole = r \o b
  OBVIOUS
<1>2. PICK less : less = r \o Tail(b)
  OBVIOUS
<1>3. /\ Len(r) \in Nat /\ Len(b) \in Nat /\ Len(b) >= 1 /\ Len(whole) = Len(r) + Len(b) /\ Len(less) = Len(r) + Len(b) - 1
      /\ DOMAIN whole = 1..Len(whole) /\ DOMAIN less = 1..Len(less)
      /\ whole[Len(r) + 1] = Bus!NONE
      /\ \A i \in 1..Len(r) : whole[i] = r[i] /\ less[i] = r[i]
  BY <1>1, <1>2
<1>4. \A i \in 1..Len(less) : less[i] = IF i <= Len(r) THEN whole[i] ELSE whole[i + 1]
  <2>1. Tail(b) \in Seq(Entry) /\ Len(Tail(b)) = Len(b) - 1 /\ \A k \in 1..(Len(b) - 1) : Tail(b)[k] = b[k + 1]
    OBVIOUS
  <2>2. ASSUME NEW i \in 1..Len(less), i > Len(r) PROVE less[i] = whole[i + 1]
    <3>1. i - Len(r) \in 1..(Len(b) - 1) /\ i + 1 - Len(r) \in 1..Len(b)
      BY <1>3, <2>2
    <3>2. less[i] = Tail(b)[i - Len(r)]
      BY <1>2, <1>3, <2>1, <2>2, <3>1
    <3>3. whole[i + 1] = b[i + 1 - Len(r)]
      BY <1>1, <1>3, <2>2, <3>1
    <3>4. Tail(b)[i - Len(r)] = b[i - Len(r) + 1] /\ i - Len(r) + 1 = i + 1 - Len(r)
      BY <1>3, <2>1, <3>1
    <3> QED
      BY <3>2, <3>3, <3>4
  <2> QED
    BY <1>3, <2>2
<1> DEFINE at2(i) == IF i <= Len(r) THEN i ELSE i + 1
<1>5. \A i \in 1..Len(less) : at2(i) \in 1..Len(whole) /\ less[i] = whole[at2(i)]
  BY <1>3, <1>4
<1>6. \A i, j \in 1..Len(less) : i < j => at2(i) < at2(j)
  BY <1>3
<1> HIDE DEF at2
<1>7. Bus!InOrder(less)
  <2>1. ASSUME NEW i \in DOMAIN less, NEW j \in DOMAIN less, i < j, less[i] # Bus!NONE, less[j] # Bus!NONE
        PROVE  less[i][2] < less[j][2]
    <3>1. i \in 1..Len(less) /\ j \in 1..Len(less)
      BY <1>3
    <3>2. PICK k \in DOMAIN whole : k = at2(i) /\ less[i] = whole[k]
      BY <1>3, <1>5, <3>1
    <3>3. PICK m \in DOMAIN whole : m = at2(j) /\ less[j] = whole[m]
      BY <1>3, <1>5, <3>1
    <3>4. k < m
      BY <1>6, <2>1, <3>1, <3>2, <3>3
    <3>5. \A x, y \in DOMAIN whole : x < y /\ whole[x] # Bus!NONE /\ whole[y] # Bus!NONE => whole[x][2] < whole[y][2]
      BY <1>1 DEF Bus!InOrder
    <3> QED
      BY <2>1, <3>2, <3>3, <3>4, <3>5
  <2> QED
    BY <2>1 DEF Bus!InOrder
<1>8. ASSUME NEW j \in 1..Len(whole), whole[j] # Bus!NONE PROVE \E i \in 1..Len(less) : less[i] = whole[j]
  <2>1. j # Len(r) + 1
    BY <1>3, <1>8
  <2>2. CASE j <= Len(r)
    <3>1. j \in 1..Len(less) /\ less[j] = whole[j]
      BY <1>3, <2>2
    <3> QED
      BY <3>1
  <2>3. CASE j > Len(r)
    <3>1. j - 1 \in 1..Len(less) /\ j - 1 > Len(r) /\ (j - 1) + 1 = j
      BY <1>3, <2>1, <2>3
    <3>2. less[j - 1] = whole[j]
      BY <1>3, <1>4, <3>1
    <3> QED
      BY <3>1, <3>2
  <2> QED
    BY <1>3, <2>2, <2>3
<1>9. EventsOf(less) = EventsOf(whole)
  <2>1. ASSUME NEW e \in EventsOf(less) PROVE e \in EventsOf(whole)
    <3>1. PICK i \in 1..Len(less) : less[i] = e
      BY <1>3, <2>1 DEF EventsOf, Bus!ToSet
    <3>2. PICK k \in 1..Len(whole) : whole[k] = e
      BY <1>5, <3>1
    <3> QED
      BY <1>3, <2>1, <3>2 DEF EventsOf, Bus!ToSet
  <2>2. ASSUME NEW e \in EventsOf(whole) PROVE e \in EventsOf(less)
    <3>1. PICK j \in 1..Len(whole) : whole[j] = e /\ e # Bus!NONE
      BY <1>3, <2>2 DEF EventsOf, Bus!ToSet
    <3>2. PICK i \in 1..Len(less) : less[i] = e
      BY <1>8, <3>1
    <3> QED
      BY <1>3, <3>1, <3>2 DEF EventsOf, Bus!ToSet
  <2> QED
    BY <2>1, <2>2
<1> QED
  BY <1>1, <1>2, <1>7, <1>9

\* How far publications from a thread may be ahead or behind.
Slack == IF home = "thread" THEN 1 ELSE 0
Count == Len(published)

\* What a subscription to the bus itself has been given (E), while it is open (open)
\* or a target of the publication under way (aim), from since (lo) to upto (hi).
LocalGiven(E, open, aim, lo, hi, wants) ==
  /\ lo <= hi /\ hi <= Count
  /\ \A e \in E : /\ e[2] \in 1..Count /\ e[1] = published[e[2]] /\ e[1] \in wants
                  /\ lo - Slack < e[2] /\ e[2] <= hi + Slack
  /\ pub.at = "found" \/ aim => \A e \in E : e[2] < Count
  /\ open => hi = Count \/ (pub.at # "idle" /\ hi = Count - 1)
  /\ \A n \in (lo + 1)..hi : published[n] \in wants => \E e \in E : e[2] = n
  /\ aim => published[Count] \in wants /\ hi >= Count - 1
  /\ open /\ pub.at = "put" /\ lo < Count /\ published[Count] \in wants /\ ~aim => \E e \in E : e[2] = Count

\* What the handler of a tool has given.
HandlerGiven(E, tool, lo, hi) ==
  /\ lo = 0
  /\ \A e \in E : e[1] = tool /\ e[2] \in 1..hi
  /\ \A n \in 1..hi : \E e \in E : e[2] = n

\* The queues a topic has are those of the open subscriptions that want it.
Registers ==
  /\ \A t \in Topics : \A s \in Subs : s \in subscribers[t] <=> s \in Bus!Local /\ ~closed[s] /\ t \in MCWants[s]
  /\ \A t \in Topics : subscribers[t] # {} => t \in keys

Publication ==
  /\ pub.targets \subseteq Bus!Local
  /\ pub.at # "put" => pub.targets = {}
  /\ pub.at # "idle" => home = "thread" /\ published # <<>>

QueueBooks(s) ==
  /\ Bus!InOrder(received[s] \o queue[s])
  /\ task[s] = "idle" => /\ received[s] = <<>> /\ queue[s] = <<>> /\ ~closed[s] /\ forward[s] = "none"
                         /\ since[s] = 0 /\ upto[s] = 0
  /\ s \in Bus!Local /\ ~closed[s] => \A i \in 1..Len(queue[s]) : queue[s][i] # Bus!NONE

GivenBooks(s) ==
  /\ s \in Bus!Local => LocalGiven(EventsOf(received[s] \o queue[s]), ~closed[s], s \in pub.targets,
                                   since[s], upto[s], MCWants[s])
  /\ forward[s] # "none" => HandlerGiven(EventsOf(received[s] \o queue[s]), s, since[s], upto[s])

BusBooks ==
  /\ Bus!TypeOK /\ Registers /\ Publication
  /\ \A s \in Subs : QueueBooks(s) /\ GivenBooks(s)

LEMMA BusBegins == Bus!BusAssumption /\ Bus!Init => BusBooks
<1> SUFFICES ASSUME Bus!BusAssumption, Bus!Init PROVE BusBooks
  OBVIOUS
<1>1. \A X : <<>> \in Seq(Entry) /\ <<>> \o <<>> = <<>>
  OBVIOUS
<1>2. 0 \in 0..MaxEvents /\ Len(<<>>) = 0 /\ Len(<<>>) <= MaxEvents
  BY DEF Bus!BusAssumption
<1>3. Bus!TypeOK
  <2>1. /\ queue \in [Subs -> Seq(Bus!Event \cup {Bus!NONE})] /\ received \in [Subs -> Seq(Bus!Event)]
        /\ published \in Seq(Topics)
    BY <1>1 DEF Bus!Init
  <2>2. pub \in [at : {"idle", "found", "put"}, targets : SUBSET Subs]
    BY DEF Bus!Init, Bus!Idle
  <2>3. since \in [Subs -> 0 .. MaxEvents] /\ upto \in [Subs -> 0 .. MaxEvents]
    BY <1>2 DEF Bus!Init
  <2>4. /\ task \in [Subs -> {"idle", "run", "get", "woken", "done"}]
        /\ forward \in [Subs -> {"none", "made", "run", "cancel", "done"}]
        /\ closed \in [Subs -> BOOLEAN] /\ subscribers \in [Topics -> SUBSET Subs] /\ keys \in SUBSET Topics
    BY DEF Bus!Init
  <2> QED
    BY <1>2, <2>1, <2>2, <2>3, <2>4 DEF Bus!Init, Bus!TypeOK
<1>4. Bus!Local = {}
  BY DEF Bus!Init, Bus!Local
<1>5. Registers /\ Publication
  BY <1>4 DEF Bus!Init, Registers, Publication, Bus!Idle
<1>6. ASSUME NEW s \in Subs PROVE QueueBooks(s) /\ GivenBooks(s)
  <2>1. received[s] \o queue[s] = <<>>
    BY <1>1 DEF Bus!Init
  <2>2. Bus!InOrder(<<>>)
    BY DEF Bus!InOrder
  <2> QED
    BY <1>4, <2>1, <2>2 DEF Bus!Init, QueueBooks, GivenBooks
<1> QED
  BY <1>3, <1>5, <1>6 DEF BusBooks

LEMMA WholeIsList ==
  ASSUME Bus!TypeOK, NEW s \in Subs
  PROVE  received[s] \in Seq(Entry) /\ queue[s] \in Seq(Entry) /\ received[s] \o queue[s] \in Seq(Entry)
<1>1. received[s] \in Seq(Bus!Event) /\ queue[s] \in Seq(Entry)
  BY DEF Bus!TypeOK, Entry
<1>2. Bus!Event \subseteq Entry
  BY DEF Entry
<1>3. received[s] \in Seq(Entry)
  <2>1. PICK list : list = received[s]
    OBVIOUS
  <2>2. list \in Seq(Bus!Event)
    BY <1>1, <2>1
  <2>3. list \in Seq(Entry)
    BY <1>2, <2>2
  <2> QED
    BY <2>1, <2>3
<1> QED
  BY <1>1, <1>3

\* The books of a subscription whose events are the same as before.
LEMMA GivenStays ==
  ASSUME NEW s \in Subs, GivenBooks(s),
         EventsOf(received'[s] \o queue'[s]) = EventsOf(received[s] \o queue[s]),
         closed[s] => closed'[s], (task'[s] = "idle") <=> (task[s] = "idle"),
         (forward'[s] = "none") <=> (forward[s] = "none"),
         since'[s] = since[s], upto'[s] = upto[s],
         home' = home, published' = published, pub' = pub
  PROVE  GivenBooks(s)'
<1>1. (s \in Bus!Local)' <=> s \in Bus!Local
  BY DEF Bus!Local
<1>2. Slack' = Slack /\ Count' = Count
  BY DEF Slack, Count
<1>3. (s \in Bus!Local)' => LocalGiven(EventsOf(received[s] \o queue[s]), ~closed[s], s \in pub.targets,
                                   since[s], upto[s], MCWants[s])
  BY <1>1 DEF GivenBooks
<1>4. (s \in Bus!Local)' => LocalGiven(EventsOf(received[s] \o queue[s]), ~closed[s], s \in pub.targets,
                                   since[s], upto[s], MCWants[s])'
  <2>1. PICK was : was = EventsOf(received[s] \o queue[s])
    OBVIOUS
  <2>2. EventsOf(received[s] \o queue[s])' = was
    BY <2>1 DEF EventsOf, Bus!ToSet, Bus!NONE
  <2> QED
    BY <1>2, <1>3, <2>1, <2>2 DEF LocalGiven
<1>5. (forward[s] # "none")' => HandlerGiven(EventsOf(received[s] \o queue[s]), s, since[s], upto[s])'
  <2>1. PICK was : was = EventsOf(received[s] \o queue[s])
    OBVIOUS
  <2>2. EventsOf(received[s] \o queue[s])' = was
    BY <2>1 DEF EventsOf, Bus!ToSet, Bus!NONE
  <2> QED
    BY <2>1, <2>2 DEF GivenBooks, HandlerGiven
<1> QED
  BY <1>4, <1>5 DEF GivenBooks

LEMMA BooksStay ==
  ASSUME NEW s \in Subs, QueueBooks(s), GivenBooks(s),
         received'[s] = received[s], queue'[s] = queue[s], closed'[s] = closed[s],
         (task'[s] = "idle") <=> (task[s] = "idle"),
         (forward'[s] = "none") <=> (forward[s] = "none"),
         since'[s] = since[s], upto'[s] = upto[s],
         home' = home, published' = published, pub' = pub
  PROVE  QueueBooks(s)' /\ GivenBooks(s)'
<1>1. GivenBooks(s)'
  <2>1. EventsOf(received'[s] \o queue'[s]) = EventsOf(received[s] \o queue[s])
    OBVIOUS
  <2> QED
    BY <2>1, GivenStays
<1>2. QueueBooks(s)'
  <2>1. (s \in Bus!Local)' <=> s \in Bus!Local
    BY DEF Bus!Local
  <2>2. Bus!InOrder(received[s] \o queue[s])'
    BY DEF QueueBooks, Bus!InOrder, Bus!NONE
  <2>3. (task[s] = "idle")' => (/\ received[s] = <<>> /\ queue[s] = <<>> /\ ~closed[s] /\ forward[s] = "none"
                         /\ since[s] = 0 /\ upto[s] = 0)'
    BY DEF QueueBooks
  <2>4. (s \in Bus!Local /\ ~closed[s])' => (\A i \in 1..Len(queue[s]) : queue[s][i] # Bus!NONE)'
    BY <2>1 DEF QueueBooks, Bus!NONE
  <2> QED
    BY <2>2, <2>3, <2>4 DEF QueueBooks
<1> QED
  BY <1>1, <1>2

\* The registers where neither the subscribers nor who is local and open change.
LEMMA RegistersStay ==
  ASSUME Registers, Publication, UNCHANGED <<subscribers, home, published, pub>>, keys \subseteq keys',
         \A r \in Subs : /\ (task'[r] = "idle") <=> (task[r] = "idle")
                         /\ (forward'[r] = "none") <=> (forward[r] = "none"),
         \A r \in Subs : (r \in Bus!Local /\ ~closed[r])' <=> (r \in Bus!Local /\ ~closed[r])
  PROVE  Registers' /\ Publication'
<1>1. (Bus!Local)' = Bus!Local
  BY DEF Bus!Local
<1> QED
  BY <1>1 DEF Registers, Publication

LEMMA PutStep ==
  ASSUME Bus!TypeOK, NEW ss, NEW e \in Entry, Bus!Put(ss, e)
  PROVE  /\ queue' \in [Subs -> Seq(Entry)]
         /\ task' \in [Subs -> {"idle", "run", "get", "woken", "done"}]
         /\ \A r \in Subs : (task'[r] = "idle") <=> (task[r] = "idle")
         /\ \A r \in Subs : queue'[r] = IF r \in ss THEN Append(queue[r], e) ELSE queue[r]
<1>1. \A r \in Subs : queue[r] \in Seq(Entry) /\ Append(queue[r], e) \in Seq(Entry)
  BY DEF Bus!TypeOK, Entry
<1>2. queue' \in [Subs -> Seq(Entry)]
  BY <1>1 DEF Bus!Put
<1>3. task' \in [Subs -> {"idle", "run", "get", "woken", "done"}]
  BY DEF Bus!Put, Bus!TypeOK
<1>4. \A r \in Subs : (task'[r] = "idle") <=> (task[r] = "idle")
  BY DEF Bus!Put, Bus!TypeOK
<1>5. \A r \in Subs : queue'[r] = IF r \in ss THEN Append(queue[r], e) ELSE queue[r]
  BY DEF Bus!Put
<1> QED
  BY <1>2, <1>3, <1>4, <1>5

\* A subscription that closes leaves the topics it is registered for.
LEMMA CancelStep ==
  ASSUME Bus!BusAssumption, Bus!TypeOK, Registers, NEW s \in Subs, ~closed[s], task[s] # "idle",
         closed' = [closed EXCEPT ![s] = TRUE], Bus!CancelOf(s),
         \A r \in Subs : (task'[r] = "idle") <=> (task[r] = "idle")
  PROVE  /\ Registers' /\ (Bus!Local)' = Bus!Local
         /\ \A r \in Subs : (forward'[r] = "none") <=> (forward[r] = "none")
         /\ forward' \in [Subs -> {"none", "made", "run", "cancel", "done"}]
         /\ subscribers' \in [Topics -> SUBSET Subs] /\ keys' \in SUBSET Topics
<1>1. forward' \in [Subs -> {"none", "made", "run", "cancel", "done"}]
  BY DEF Bus!TypeOK, Bus!CancelOf
<1>2. \A r \in Subs : (forward'[r] = "none") <=> (forward[r] = "none")
  BY DEF Bus!TypeOK, Bus!CancelOf
<1>3. subscribers' \in [Topics -> SUBSET Subs] /\ keys' \in SUBSET Topics
  <2>1. CASE forward[s] # "none"
    BY <2>1 DEF Bus!TypeOK, Bus!CancelOf, Bus!registry
  <2>2. CASE forward[s] = "none"
    <3>1. /\ subscribers' = [t \in Topics |-> IF t \in MCWants[s] THEN subscribers[t] \ {s} ELSE subscribers[t]]
          /\ keys' \subseteq keys
      BY <2>2 DEF Bus!CancelOf
    <3>2. \A t \in Topics : (IF t \in MCWants[s] THEN subscribers[t] \ {s} ELSE subscribers[t]) \in SUBSET Subs
      BY DEF Bus!TypeOK
    <3> QED
      BY <3>1, <3>2 DEF Bus!TypeOK
  <2> QED
    BY <2>1, <2>2
<1>4. (Bus!Local)' = Bus!Local
  BY <1>2 DEF Bus!Local
<1>5. \A r \in Subs : closed'[r] = IF r = s THEN TRUE ELSE closed[r]
  BY DEF Bus!TypeOK
<1>6. MCWants \in [Subs -> SUBSET Topics]
  BY DEF Bus!BusAssumption
<1>7. CASE forward[s] # "none"
  <2>1. s \notin Bus!Local
    BY <1>7 DEF Bus!Local
  <2> QED
    BY <1>1, <1>2, <1>3, <1>4, <1>5, <1>7, <2>1 DEF Registers, Bus!CancelOf, Bus!registry
<1>8. CASE forward[s] = "none"
  <2>1. s \in Bus!Local
    BY <1>8 DEF Bus!Local
  <2>2. \A t \in Topics : subscribers'[t] = IF t \in MCWants[s] THEN subscribers[t] \ {s} ELSE subscribers[t]
    BY <1>8 DEF Bus!CancelOf
  <2>3. ASSUME NEW t \in Topics, NEW r \in Subs
        PROVE  r \in subscribers'[t] <=> r \in Bus!Local /\ ~closed'[r] /\ t \in MCWants[r]
    <3>1. r \in subscribers[t] <=> r \in Bus!Local /\ ~closed[r] /\ t \in MCWants[r]
      BY DEF Registers
    <3> QED
      BY <1>5, <2>2, <3>1
  <2>4. ASSUME NEW t \in Topics, subscribers'[t] # {} PROVE t \in keys'
    <3>1. subscribers[t] # {} /\ subscribers[t] \subseteq Subs
      BY <2>2, <2>4 DEF Bus!TypeOK
    <3>2. ~(t \in MCWants[s] /\ subscribers[t] = {s})
      BY <2>2, <2>4
    <3> QED
      BY <1>8, <3>1, <3>2 DEF Registers, Bus!CancelOf
  <2>5. (\A t \in Topics : \A r \in Subs : r \in subscribers[t] <=> r \in Bus!Local /\ ~closed[r] /\ t \in MCWants[r])'
    BY <1>4, <2>3
  <2> QED
    BY <1>1, <1>2, <1>3, <1>4, <2>4, <2>5 DEF Registers
<1> QED
  BY <1>7, <1>8

LEMMA EndpointsKeep ==
  ASSUME BusBooks, \/ \E ss \in UNION {[1 .. n -> Tools] : n \in 1 .. 2} : Bus!Register(ss)
                   \/ \E s \in Subs : Bus!Unregister(s)
                   \/ Bus!Sleep \/ Bus!Wake,
         Bus!BusAssumption
  PROVE  BusBooks'
<1>1. UNCHANGED <<home, subscribers, keys, queue, closed, task, forward, received, published, pub, since, upto>>
  BY DEF Bus!Register, Bus!Unregister, Bus!Sleep, Bus!Wake, Bus!registry, Bus!history
<1>2. asleep' \in BOOLEAN
  BY DEF BusBooks, Bus!TypeOK, Bus!Register, Bus!Unregister, Bus!Sleep, Bus!Wake
<1>3. endpoints' \in SUBSET Subs
  <2>1. ASSUME NEW n \in 1..2, NEW ss \in [1..n -> Tools], Bus!Register(ss) PROVE endpoints' \in SUBSET Subs
    <3> DEFINE taken == {i \in DOMAIN ss : ss[i] \in endpoints}
               least == CHOOSE i \in taken : \A j \in taken : i <= j
               kept == IF taken = {} THEN Len(ss) ELSE least - 1
    <3>1. DOMAIN ss = 1..n /\ Len(ss) = n
      OBVIOUS
    <3>2. taken # {} => least \in taken
      <4>1. taken \subseteq 1..2 /\ (taken # {} => 1 \in taken \/ taken = {2})
        BY <3>1
      <4>2. taken # {} => \E i \in taken : \A j \in taken : i <= j
        BY <4>1
      <4> QED
        BY <4>2
    <3>3. \A i \in 1..kept : ss[i] \in Tools
      BY <3>1, <3>2
    <3>4. endpoints' = endpoints \cup {ss[i] : i \in 1 .. kept}
      BY <2>1 DEF Bus!Register
    <3> HIDE DEF taken, least, kept
    <3>5. Tools \subseteq Subs /\ endpoints \in SUBSET Subs
      BY DEF BusBooks, Bus!TypeOK, Bus!BusAssumption
    <3> QED
      BY <3>3, <3>4, <3>5
  <2>2. ASSUME NEW s \in Subs, Bus!Unregister(s) PROVE endpoints' \in SUBSET Subs
    BY <2>2 DEF BusBooks, Bus!TypeOK, Bus!Unregister
  <2>3. ASSUME Bus!Sleep \/ Bus!Wake PROVE endpoints' \in SUBSET Subs
    BY <2>3 DEF BusBooks, Bus!TypeOK, Bus!Sleep, Bus!Wake
  <2>4. ASSUME NEW ss \in UNION {[1 .. n -> Tools] : n \in 1 .. 2}, Bus!Register(ss) PROVE endpoints' \in SUBSET Subs
    <3>1. PICK n \in 1..2 : ss \in [1..n -> Tools]
      OBVIOUS
    <3> QED
      BY <2>1, <2>4, <3>1
  <2> QED
    BY <2>2, <2>3, <2>4
<1>4. Bus!TypeOK'
  BY <1>1, <1>2, <1>3 DEF BusBooks, Bus!TypeOK, Bus!Event, Bus!NONE
<1>5. Registers' /\ Publication'
  <2>1. (Bus!Local)' = Bus!Local
    BY <1>1 DEF Bus!Local
  <2> QED
    BY <1>1, <2>1 DEF BusBooks, Registers, Publication
<1>6. ASSUME NEW r \in Subs PROVE QueueBooks(r)' /\ GivenBooks(r)'
  BY <1>1, BooksStay DEF BusBooks
<1> QED
  BY <1>4, <1>5, <1>6 DEF BusBooks

LEMMA DelegateKeeps ==
  ASSUME BusBooks, NEW s \in Subs, Bus!Delegate(s)
  PROVE  BusBooks'
<1>1. /\ UNCHANGED <<home, endpoints, subscribers, keys, queue, closed, received, published, pub, asleep, since, upto>>
      /\ task[s] = "idle"
  BY DEF Bus!Delegate, Bus!registry, Bus!history
<1>2. /\ forward' \in [Subs -> {"none", "made", "run", "cancel", "done"}]
      /\ task' \in [Subs -> {"idle", "run", "get", "woken", "done"}]
      /\ task'[s] = "run" /\ forward'[s] = "made"
      /\ \A r \in Subs : r # s => task'[r] = task[r] /\ forward'[r] = forward[r]
  BY DEF Bus!Delegate, BusBooks, Bus!TypeOK
<1>3. Bus!TypeOK'
  BY <1>1, <1>2 DEF BusBooks, Bus!TypeOK, Bus!Event, Bus!NONE
<1>4. (Bus!Local)' = Bus!Local
  BY <1>1, <1>2 DEF Bus!Local
<1>5. Registers' /\ Publication'
  BY <1>1, <1>4 DEF BusBooks, Registers, Publication
<1>6. ASSUME NEW r \in Subs, r # s PROVE QueueBooks(r)' /\ GivenBooks(r)'
  BY <1>1, <1>2, <1>6, BooksStay DEF BusBooks
<1>7. QueueBooks(s)' /\ GivenBooks(s)'
  <2>1. received[s] = <<>> /\ queue[s] = <<>> /\ since[s] = 0 /\ upto[s] = 0
    BY <1>1 DEF BusBooks, QueueBooks
  <2>2. received'[s] \o queue'[s] = <<>>
    BY <1>1, <2>1
  <2>3. EventsOf(<<>>) = {} /\ Bus!InOrder(<<>>)
    BY DEF EventsOf, Bus!ToSet, Bus!InOrder
  <2>4. s \notin (Bus!Local)'
    BY <1>2 DEF Bus!Local
  <2>5. HandlerGiven({}, s, 0, 0)
    BY DEF HandlerGiven
  <2>6. HandlerGiven(EventsOf(received'[s] \o queue'[s]), s, since'[s], upto'[s])
    BY <1>1, <2>1, <2>2, <2>3, <2>5
  <2>7. GivenBooks(s)'
    BY <2>4, <2>6 DEF GivenBooks, HandlerGiven, EventsOf, Bus!ToSet, Bus!NONE
  <2>8. QueueBooks(s)'
    BY <1>2, <2>2, <2>3, <2>4 DEF QueueBooks, Bus!InOrder, Bus!NONE
  <2> QED
    BY <2>7, <2>8
<1> QED
  BY <1>3, <1>5, <1>6, <1>7 DEF BusBooks

LEMMA SubscribeKeeps ==
  ASSUME Bus!BusAssumption, BusBooks, NEW s \in Subs, Bus!SubscribeLocal(s)
  PROVE  BusBooks'
<1>1. /\ UNCHANGED <<home, endpoints, queue, closed, forward, received, published, pub, asleep>>
      /\ task[s] = "idle"
      /\ subscribers' = [t \in Topics |-> IF t \in MCWants[s] THEN subscribers[t] \cup {s} ELSE subscribers[t]]
      /\ keys' = keys \cup MCWants[s]
  BY DEF Bus!SubscribeLocal
<1>2. received[s] = <<>> /\ queue[s] = <<>> /\ ~closed[s] /\ forward[s] = "none" /\ since[s] = 0 /\ upto[s] = 0
  BY <1>1 DEF BusBooks, QueueBooks
<1>3. Count \in 0..MaxEvents
  BY DEF Count, BusBooks, Bus!TypeOK, Bus!BusAssumption
<1>4. /\ task' \in [Subs -> {"idle", "run", "get", "woken", "done"}]
      /\ since' \in [Subs -> 0..MaxEvents] /\ upto' \in [Subs -> 0..MaxEvents]
      /\ task'[s] = "run" /\ since'[s] = Count /\ upto'[s] = Count
      /\ \A r \in Subs : r # s => task'[r] = task[r] /\ since'[r] = since[r] /\ upto'[r] = upto[r]
  BY <1>3 DEF Bus!SubscribeLocal, BusBooks, Bus!TypeOK, Count
<1>5. MCWants[s] \in SUBSET Topics
  BY DEF Bus!BusAssumption
<1>6. subscribers' \in [Topics -> SUBSET Subs] /\ keys' \in SUBSET Topics
  BY <1>1, <1>5 DEF BusBooks, Bus!TypeOK
<1>7. Bus!TypeOK'
  BY <1>1, <1>4, <1>6 DEF BusBooks, Bus!TypeOK, Bus!Event, Bus!NONE
<1>8. (Bus!Local)' = Bus!Local \cup {s} /\ s \notin Bus!Local
  BY <1>1, <1>2, <1>4 DEF Bus!Local
<1>9. Registers'
  <2>1. ASSUME NEW t \in Topics, NEW r \in Subs
        PROVE  (r \in subscribers[t] <=> r \in Bus!Local /\ ~closed[r] /\ t \in MCWants[r])'
    BY <1>1, <1>2, <1>8 DEF BusBooks, Registers
  <2>2. ASSUME NEW t \in Topics, subscribers'[t] # {} PROVE t \in keys'
    BY <1>1, <2>2 DEF BusBooks, Registers
  <2> QED
    BY <2>1, <2>2 DEF Registers
<1>10. Publication'
  BY <1>1, <1>8 DEF BusBooks, Publication
<1>11. ASSUME NEW r \in Subs, r # s PROVE QueueBooks(r)' /\ GivenBooks(r)'
  BY <1>1, <1>4, <1>11, BooksStay DEF BusBooks
<1>12. QueueBooks(s)' /\ GivenBooks(s)'
  <2>1. received'[s] = <<>> /\ queue'[s] = <<>> /\ received'[s] \o queue'[s] = <<>>
    BY <1>1, <1>2
  <2>2. EventsOf(<<>>) = {} /\ Bus!InOrder(<<>>)
    BY DEF EventsOf, Bus!ToSet, Bus!InOrder
  <2>3. s \notin pub'.targets /\ forward'[s] = "none"
    BY <1>1, <1>2, <1>8 DEF BusBooks, Publication
  <2>4. LocalGiven({}, TRUE, FALSE, Count, Count, MCWants[s])'
    BY <1>1, <1>3 DEF LocalGiven, Count
  <2>5. QueueBooks(s)'
    BY <1>4, <2>1, <2>2 DEF QueueBooks, Bus!InOrder, Bus!NONE
  <2>6. GivenBooks(s)'
    <3>1. (EventsOf(received[s] \o queue[s]) = {})'
      BY <2>1, <2>2 DEF EventsOf, Bus!ToSet, Bus!NONE
    <3>2. Count' = Count
      BY <1>1 DEF Count
    <3>3. (~closed[s])' = TRUE /\ (s \in pub.targets)' = FALSE
      BY <1>1, <1>2, <2>3
    <3> QED
      BY <1>4, <2>3, <2>4, <3>1, <3>2, <3>3 DEF GivenBooks
  <2> QED
    BY <2>5, <2>6
<1> QED
  BY <1>7, <1>9, <1>10, <1>11, <1>12 DEF BusBooks

LEMMA WaitKeeps ==
  ASSUME BusBooks, NEW s \in Subs, Bus!Wait(s) \/ Bus!ForwardStart(s)
  PROVE  BusBooks'
<1>1. UNCHANGED <<home, endpoints, subscribers, keys, queue, closed, received, published, pub, asleep, since, upto>>
  BY DEF Bus!Wait, Bus!ForwardStart, Bus!registry, Bus!history
<1>2. /\ forward' \in [Subs -> {"none", "made", "run", "cancel", "done"}]
      /\ task' \in [Subs -> {"idle", "run", "get", "woken", "done"}]
      /\ \A r \in Subs : (task'[r] = "idle") <=> (task[r] = "idle")
      /\ \A r \in Subs : (forward'[r] = "none") <=> (forward[r] = "none")
  BY DEF Bus!Wait, Bus!ForwardStart, BusBooks, Bus!TypeOK
<1>3. Bus!TypeOK'
  BY <1>1, <1>2 DEF BusBooks, Bus!TypeOK, Bus!Event, Bus!NONE
<1>4. (Bus!Local)' = Bus!Local
  BY <1>2 DEF Bus!Local
<1>5. Registers' /\ Publication'
  BY <1>1, <1>4 DEF BusBooks, Registers, Publication
<1>6. ASSUME NEW r \in Subs PROVE QueueBooks(r)' /\ GivenBooks(r)'
  BY <1>1, <1>2, BooksStay DEF BusBooks
<1> QED
  BY <1>3, <1>5, <1>6 DEF BusBooks

\* What s has been given after its reader's or its source's step: the same list
\* with an end marker or without one.
LEMMA EndAppended ==
  ASSUME NEW r \in Seq(Entry), NEW b \in Seq(Entry), Bus!InOrder(r \o b)
  PROVE  /\ Bus!InOrder(r \o Append(b, Bus!NONE))
         /\ EventsOf(r \o Append(b, Bus!NONE)) = EventsOf(r \o b)
<1>1. Bus!NONE \in Entry /\ r \o b \in Seq(Entry)
  BY DEF Entry
<1>2. r \o Append(b, Bus!NONE) = Append(r \o b, Bus!NONE)
  BY <1>1
<1>3. /\ Bus!InOrder(Append(r \o b, Bus!NONE))
      /\ EventsOf(Append(r \o b, Bus!NONE)) = EventsOf(r \o b) \cup ({Bus!NONE} \ {Bus!NONE})
  <2>1. PICK whole : whole = r \o b
    OBVIOUS
  <2>2. whole \in Seq(Entry) /\ Bus!InOrder(whole)
    BY <1>1, <2>1
  <2>3. /\ Bus!InOrder(Append(whole, Bus!NONE))
        /\ EventsOf(Append(whole, Bus!NONE)) = EventsOf(whole) \cup ({Bus!NONE} \ {Bus!NONE})
    BY <1>1, <2>2, OrderAppend
  <2> QED
    BY <2>1, <2>3
<1> QED
  BY <1>2, <1>3

LEMMA QueueGoesOn ==
  ASSUME NEW s \in Subs, Bus!InOrder(received'[s] \o queue'[s]), task'[s] # "idle",
         closed'[s] \/ forward'[s] # "none" \/ \A i \in 1..Len(queue'[s]) : queue'[s][i] # Bus!NONE
  PROVE  QueueBooks(s)'
<1>1. Bus!InOrder(received[s] \o queue[s])'
  BY DEF Bus!InOrder, Bus!NONE
<1>2. (s \in Bus!Local /\ ~closed[s])' => (\A i \in 1..Len(queue[s]) : queue[s][i] # Bus!NONE)'
  BY DEF Bus!Local, Bus!NONE
<1> QED
  BY <1>1, <1>2 DEF QueueBooks

LEMMA CloseLeaves ==
  ASSUME Bus!BusAssumption, BusBooks, NEW s \in Subs, task[s] # "idle", NEW rest \in Seq(Entry),
         Bus!CloseAndLeave(s, rest),
         UNCHANGED <<home, endpoints, published, pub, asleep, since, upto>>,
         received' \in [Subs -> Seq(Bus!Event)], \A r \in Subs : r # s => received'[r] = received[r],
         received'[s] \in Seq(Entry), received'[s] \o rest = received[s] \o queue[s]
  PROVE  BusBooks'
<1> USE DEF BusBooks
<1>1. /\ task' \in [Subs -> {"idle", "run", "get", "woken", "done"}]
      /\ \A r \in Subs : (task'[r] = "idle") <=> (task[r] = "idle")
  BY DEF Bus!CloseAndLeave, Bus!TypeOK
<1>2. Append(rest, Bus!NONE) \in Seq(Entry)
  BY DEF Entry
<1>3. CASE closed[s]
  <2>1. /\ UNCHANGED <<closed, forward, subscribers, keys>>
        /\ queue' = [queue EXCEPT ![s] = rest]
    BY <1>3 DEF Bus!CloseAndLeave, Bus!registry
  <2>2. /\ queue' \in [Subs -> Seq(Entry)] /\ queue'[s] = rest
        /\ \A r \in Subs : r # s => queue'[r] = queue[r]
    BY <2>1 DEF Bus!TypeOK, Entry
  <2>3. Bus!TypeOK'
    BY <1>1, <2>1, <2>2 DEF Bus!TypeOK, Bus!Event, Bus!NONE, Entry
  <2>4. Registers' /\ Publication'
    <3>1. (Bus!Local)' = Bus!Local
      BY <1>1, <2>1 DEF Bus!Local
    <3> QED
      BY <2>1, <3>1 DEF Registers, Publication
  <2>5. ASSUME NEW r \in Subs, r # s PROVE QueueBooks(r)' /\ GivenBooks(r)'
    BY <1>1, <2>1, <2>2, <2>5, BooksStay
  <2>6. QueueBooks(s)' /\ GivenBooks(s)'
    <3>1. received'[s] \o queue'[s] = received[s] \o queue[s]
      BY <2>2
    <3>2. QueueBooks(s)'
      <4>1. Bus!InOrder(received'[s] \o queue'[s])
        BY <3>1 DEF QueueBooks
      <4> QED
        BY <1>1, <1>3, <2>1, <4>1, QueueGoesOn
    <3>3. GivenBooks(s)'
      BY <1>1, <2>1, <3>1, GivenStays
    <3> QED
      BY <3>2, <3>3
  <2> QED
    BY <2>3, <2>4, <2>5, <2>6
<1>4. CASE ~closed[s]
  <2>1. /\ closed' = [closed EXCEPT ![s] = TRUE] /\ Bus!CancelOf(s)
        /\ queue' = [queue EXCEPT ![s] = Append(rest, Bus!NONE)]
    BY <1>4 DEF Bus!CloseAndLeave
  <2>2. /\ queue' \in [Subs -> Seq(Entry)] /\ queue'[s] = Append(rest, Bus!NONE)
        /\ \A r \in Subs : r # s => queue'[r] = queue[r]
    BY <1>2, <2>1 DEF Bus!TypeOK, Entry
  <2>3. /\ Registers' /\ (Bus!Local)' = Bus!Local
        /\ \A r \in Subs : (forward'[r] = "none") <=> (forward[r] = "none")
        /\ forward' \in [Subs -> {"none", "made", "run", "cancel", "done"}]
        /\ subscribers' \in [Topics -> SUBSET Subs] /\ keys' \in SUBSET Topics
    BY <1>1, <1>4, <2>1, CancelStep
  <2>4. /\ closed' \in [Subs -> BOOLEAN] /\ closed'[s] /\ \A r \in Subs : r # s => closed'[r] = closed[r]
    BY <2>1 DEF Bus!TypeOK
  <2>5. Bus!TypeOK'
    BY <1>1, <2>2, <2>3, <2>4 DEF Bus!TypeOK, Bus!Event, Bus!NONE, Entry
  <2>6. Publication'
    BY <2>3 DEF Publication
  <2>7. ASSUME NEW r \in Subs, r # s PROVE QueueBooks(r)' /\ GivenBooks(r)'
    BY <1>1, <2>2, <2>3, <2>4, <2>7, BooksStay
  <2>8. QueueBooks(s)' /\ GivenBooks(s)'
    <3>1. Bus!InOrder(received'[s] \o rest)
      BY DEF QueueBooks
    <3>2. /\ Bus!InOrder(received'[s] \o queue'[s])
          /\ EventsOf(received'[s] \o queue'[s]) = EventsOf(received[s] \o queue[s])
      BY <2>2, <3>1, EndAppended
    <3>3. QueueBooks(s)'
      BY <1>1, <2>4, <3>2, QueueGoesOn
    <3>4. GivenBooks(s)'
      BY <1>1, <2>3, <2>4, <3>2, GivenStays
    <3> QED
      BY <3>3, <3>4
  <2> QED
    BY <2>3, <2>5, <2>6, <2>7, <2>8
<1> QED
  BY <1>3, <1>4

LEMMA TakeKeeps ==
  ASSUME Bus!BusAssumption, BusBooks, NEW s \in Subs, Bus!TakeEvent(s)
  PROVE  BusBooks'
<1> USE DEF BusBooks
<1>1. received[s] \in Seq(Entry) /\ queue[s] \in Seq(Entry) /\ received[s] \in Seq(Bus!Event)
  BY WholeIsList DEF Bus!TypeOK
<1>2. /\ queue[s] # <<>> /\ Head(queue[s]) # Bus!NONE /\ task[s] # "idle"
      /\ received' = [received EXCEPT ![s] = Append(received[s], Head(queue[s]))]
      /\ UNCHANGED <<home, endpoints, published, pub, asleep, since, upto>>
  BY DEF Bus!TakeEvent, Bus!history, Bus!NONE
<1>3. Head(queue[s]) \in Bus!Event /\ Head(queue[s]) \in Entry /\ Tail(queue[s]) \in Seq(Entry)
  BY <1>1, <1>2 DEF Entry
<1>4. /\ received' \in [Subs -> Seq(Bus!Event)] /\ received'[s] = Append(received[s], Head(queue[s]))
      /\ \A r \in Subs : r # s => received'[r] = received[r]
  <2>1. Append(received[s], Head(queue[s])) \in Seq(Bus!Event)
    BY <1>1, <1>3
  <2> QED
    BY <1>2, <2>1 DEF Bus!TypeOK
<1>5. received'[s] \in Seq(Entry) /\ received'[s] \o Tail(queue[s]) = received[s] \o queue[s]
  <2>1. Append(received[s], Head(queue[s])) \o Tail(queue[s]) = received[s] \o queue[s]
    BY <1>1, <1>2, TakenWhole
  <2>2. Append(received[s], Head(queue[s])) \in Seq(Entry)
    BY <1>1, <1>3
  <2> QED
    BY <1>4, <2>1, <2>2
<1>6. CASE Len(received[s]) + 1 >= MCLimit[s]
  <2>1. Bus!CloseAndLeave(s, Tail(queue[s]))
    BY <1>6 DEF Bus!TakeEvent
  <2> QED
    BY <1>2, <1>3, <1>4, <1>5, <2>1, CloseLeaves
<1>7. CASE ~(Len(received[s]) + 1 >= MCLimit[s])
  <2>1. /\ queue' = [queue EXCEPT ![s] = Tail(queue[s])]
        /\ task' = [task EXCEPT ![s] = "run"]
        /\ UNCHANGED <<closed, forward, subscribers, keys>>
    BY <1>7 DEF Bus!TakeEvent, Bus!registry
  <2>2. /\ queue' \in [Subs -> Seq(Entry)] /\ queue'[s] = Tail(queue[s])
        /\ \A r \in Subs : r # s => queue'[r] = queue[r]
    BY <1>3, <2>1 DEF Bus!TypeOK, Entry
  <2>3. /\ task' \in [Subs -> {"idle", "run", "get", "woken", "done"}]
        /\ \A r \in Subs : (task'[r] = "idle") <=> (task[r] = "idle")
    BY <1>2, <2>1 DEF Bus!TypeOK
  <2>4. Bus!TypeOK'
    BY <1>2, <1>4, <2>1, <2>2, <2>3 DEF Bus!TypeOK, Bus!Event, Bus!NONE, Entry
  <2>5. Registers' /\ Publication'
    <3>1. (Bus!Local)' = Bus!Local
      BY <2>1, <2>3 DEF Bus!Local
    <3> QED
      BY <1>2, <2>1, <3>1 DEF Registers, Publication
  <2>6. ASSUME NEW r \in Subs, r # s PROVE QueueBooks(r)' /\ GivenBooks(r)'
    BY <1>2, <1>4, <2>1, <2>2, <2>3, <2>6, BooksStay
  <2>7. received'[s] \o queue'[s] = received[s] \o queue[s]
    BY <1>5, <2>2
  <2>8. QueueBooks(s)'
    <3>1. Bus!InOrder(received'[s] \o queue'[s]) /\ task'[s] # "idle"
      BY <1>2, <2>3, <2>7 DEF QueueBooks
    <3>2. s \in Bus!Local /\ ~closed[s] => \A i \in 1..Len(queue'[s]) : queue'[s][i] # Bus!NONE
      <4>1. Len(Tail(queue[s])) = Len(queue[s]) - 1 /\ \A i \in 1..Len(Tail(queue[s])) : i + 1 \in 1..Len(queue[s]) /\ Tail(queue[s])[i] = queue[s][i + 1]
        BY <1>1, <1>2
      <4> QED
        BY <2>2, <4>1 DEF QueueBooks
    <3>3. closed'[s] \/ forward'[s] # "none" \/ (s \in Bus!Local /\ ~closed[s])
      BY <1>2, <2>1 DEF Bus!Local
    <3> QED
      BY <3>1, <3>2, <3>3, QueueGoesOn
  <2>9. GivenBooks(s)'
    BY <1>2, <2>1, <2>3, <2>7, GivenStays
  <2> QED
    BY <2>4, <2>5, <2>6, <2>8, <2>9
<1> QED
  BY <1>6, <1>7

LEMMA TakeEndKeeps ==
  ASSUME BusBooks, NEW s \in Subs, Bus!TakeEnd(s)
  PROVE  BusBooks'
<1> USE DEF BusBooks
<1>1. received[s] \in Seq(Entry) /\ queue[s] \in Seq(Entry)
  BY WholeIsList
<1>2. /\ queue[s] # <<>> /\ Head(queue[s]) = Bus!NONE /\ task[s] # "idle"
      /\ UNCHANGED <<home, endpoints, subscribers, keys, forward, received, published, pub, asleep, since, upto>>
      /\ closed' = [closed EXCEPT ![s] = TRUE] /\ queue' = [queue EXCEPT ![s] = Tail(queue[s])]
      /\ task' = [task EXCEPT ![s] = "done"]
  BY DEF Bus!TakeEnd, Bus!history, Bus!registry, Bus!NONE
<1>3. /\ queue' \in [Subs -> Seq(Entry)] /\ queue'[s] = Tail(queue[s])
      /\ \A r \in Subs : r # s => queue'[r] = queue[r]
  <2>1. Tail(queue[s]) \in Seq(Entry)
    BY <1>1, <1>2
  <2> QED
    BY <1>2, <2>1 DEF Bus!TypeOK, Entry
<1>4. /\ task' \in [Subs -> {"idle", "run", "get", "woken", "done"}]
      /\ \A r \in Subs : (task'[r] = "idle") <=> (task[r] = "idle")
      /\ closed' \in [Subs -> BOOLEAN] /\ closed'[s] /\ \A r \in Subs : r # s => closed'[r] = closed[r]
  BY <1>2 DEF Bus!TypeOK
<1>5. s \in Bus!Local => closed[s]
  <2>1. 1 \in 1..Len(queue[s]) /\ queue[s][1] = Bus!NONE
    BY <1>1, <1>2
  <2> QED
    BY <2>1 DEF QueueBooks
<1>6. Bus!TypeOK'
  BY <1>2, <1>3, <1>4 DEF Bus!TypeOK, Bus!Event, Bus!NONE, Entry
<1>7. Registers' /\ Publication'
  <2>1. (Bus!Local)' = Bus!Local
    BY <1>2, <1>4 DEF Bus!Local
  <2>2. \A r \in Subs : (r \in Bus!Local /\ ~closed[r])' <=> (r \in Bus!Local /\ ~closed[r])
    BY <1>4, <1>5, <2>1
  <2> QED
    BY <1>2, <1>4, <2>2, RegistersStay
<1>8. ASSUME NEW r \in Subs, r # s PROVE QueueBooks(r)' /\ GivenBooks(r)'
  BY <1>2, <1>3, <1>4, <1>8, BooksStay
<1>9. QueueBooks(s)' /\ GivenBooks(s)'
  <2>1. Bus!InOrder(received[s] \o queue[s])
    BY DEF QueueBooks
  <2>2. /\ Bus!InOrder(received[s] \o Tail(queue[s]))
        /\ EventsOf(received[s] \o Tail(queue[s])) = EventsOf(received[s] \o queue[s])
    BY <1>1, <1>2, <2>1, OrderDrop
  <2>3. /\ Bus!InOrder(received'[s] \o queue'[s])
        /\ EventsOf(received'[s] \o queue'[s]) = EventsOf(received[s] \o queue[s])
    BY <1>2, <1>3, <2>2
  <2>4. QueueBooks(s)'
    BY <1>2, <1>4, <2>3, QueueGoesOn
  <2>5. GivenBooks(s)'
    BY <1>2, <1>4, <2>3, GivenStays
  <2> QED
    BY <2>4, <2>5
<1> QED
  BY <1>6, <1>7, <1>8, <1>9

LEMMA InterruptKeeps ==
  ASSUME Bus!BusAssumption, BusBooks, NEW s \in Subs, Bus!Interrupt(s)
  PROVE  BusBooks'
<1>1. received[s] \in Seq(Entry) /\ queue[s] \in Seq(Entry) /\ task[s] # "idle"
  BY WholeIsList DEF BusBooks, Bus!Interrupt
<1>2. Bus!CloseAndLeave(s, queue[s]) /\ UNCHANGED <<home, endpoints, received, published, pub, asleep, since, upto>>
  BY DEF Bus!Interrupt, Bus!history
<1>3. received' \in [Subs -> Seq(Bus!Event)]
  BY <1>2 DEF BusBooks, Bus!TypeOK, Bus!Event
<1> QED
  BY <1>1, <1>2, <1>3, CloseLeaves

\* An end marker put into the queue of a subscription that closes or whose
\* stream is over.
LEMMA EndKeeps ==
  ASSUME BusBooks, NEW s \in Subs, task[s] # "idle", Bus!Put({s}, Bus!NONE),
         UNCHANGED <<home, endpoints, received, published, pub, asleep, since, upto>>,
         forward' \in [Subs -> {"none", "made", "run", "cancel", "done"}],
         \A r \in Subs : (forward'[r] = "none") <=> (forward[r] = "none"),
         subscribers' \in [Topics -> SUBSET Subs], keys' \in SUBSET Topics,
         closed' \in [Subs -> BOOLEAN], \A r \in Subs : r # s => closed'[r] = closed[r],
         closed[s] => closed'[s], closed'[s] \/ forward[s] # "none", Registers'
  PROVE  BusBooks'
<1> USE DEF BusBooks
<1>1. Bus!NONE \in Entry
  BY DEF Entry
<1>2. /\ queue' \in [Subs -> Seq(Entry)]
      /\ task' \in [Subs -> {"idle", "run", "get", "woken", "done"}]
      /\ \A r \in Subs : (task'[r] = "idle") <=> (task[r] = "idle")
      /\ \A r \in Subs : queue'[r] = IF r \in {s} THEN Append(queue[r], Bus!NONE) ELSE queue[r]
  BY <1>1, PutStep
<1>3. Bus!TypeOK'
  BY <1>2 DEF Bus!TypeOK, Bus!Event, Bus!NONE, Entry
<1>4. Publication'
  <2>1. (Bus!Local)' = Bus!Local
    BY <1>2 DEF Bus!Local
  <2> QED
    BY <2>1 DEF Publication
<1>5. ASSUME NEW r \in Subs, r # s PROVE QueueBooks(r)' /\ GivenBooks(r)'
  <2>1. queue'[r] = queue[r]
    BY <1>2, <1>5
  <2> QED
    BY <1>2, <1>5, <2>1, BooksStay
<1>6. QueueBooks(s)' /\ GivenBooks(s)'
  <2>1. received[s] \in Seq(Entry) /\ queue[s] \in Seq(Entry) /\ Bus!InOrder(received[s] \o queue[s])
    BY WholeIsList DEF QueueBooks
  <2>2. /\ Bus!InOrder(received'[s] \o queue'[s])
        /\ EventsOf(received'[s] \o queue'[s]) = EventsOf(received[s] \o queue[s])
    BY <1>2, <2>1, EndAppended
  <2>3. QueueBooks(s)'
    BY <1>2, <2>2, QueueGoesOn
  <2>4. GivenBooks(s)'
    BY <1>2, <2>2, GivenStays
  <2> QED
    BY <2>3, <2>4
<1> QED
  BY <1>3, <1>4, <1>5, <1>6

LEMMA CloseKeeps ==
  ASSUME Bus!BusAssumption, BusBooks, NEW s \in Subs, Bus!Close(s)
  PROVE  BusBooks'
<1>1. /\ task[s] # "idle" /\ ~closed[s] /\ closed' = [closed EXCEPT ![s] = TRUE] /\ Bus!CancelOf(s)
      /\ Bus!Put({s}, Bus!NONE) /\ UNCHANGED <<home, endpoints, received, published, pub, asleep, since, upto>>
  BY DEF Bus!Close, Bus!history
<1>2. \A r \in Subs : (task'[r] = "idle") <=> (task[r] = "idle")
  <2>1. Bus!NONE \in Entry
    BY DEF Entry
  <2> QED
    BY <1>1, <2>1, PutStep DEF BusBooks
<1>3. /\ Registers'
      /\ \A r \in Subs : (forward'[r] = "none") <=> (forward[r] = "none")
      /\ forward' \in [Subs -> {"none", "made", "run", "cancel", "done"}]
      /\ subscribers' \in [Topics -> SUBSET Subs] /\ keys' \in SUBSET Topics
  BY <1>1, <1>2, CancelStep DEF BusBooks
<1>4. /\ closed' \in [Subs -> BOOLEAN] /\ closed'[s] /\ \A r \in Subs : r # s => closed'[r] = closed[r]
  BY <1>1 DEF BusBooks, Bus!TypeOK
<1> QED
  BY <1>1, <1>3, <1>4, EndKeeps

LEMMA ForwardEndKeeps ==
  ASSUME BusBooks, NEW s \in Subs, Bus!ForwardEnd(s)
  PROVE  BusBooks'
<1>1. /\ forward[s] # "none" /\ Bus!Put({s}, Bus!NONE) /\ forward' = [forward EXCEPT ![s] = "done"]
      /\ UNCHANGED <<home, endpoints, subscribers, keys, closed, received, published, pub, asleep, since, upto>>
  BY DEF Bus!ForwardEnd, Bus!history, Bus!registry
<1>2. task[s] # "idle"
  BY <1>1 DEF BusBooks, QueueBooks
<1>3. /\ \A r \in Subs : (forward'[r] = "none") <=> (forward[r] = "none")
      /\ forward' \in [Subs -> {"none", "made", "run", "cancel", "done"}]
  BY <1>1 DEF BusBooks, Bus!TypeOK
<1>4. Registers'
  <2>1. Bus!NONE \in Entry
    BY DEF Entry
  <2>2. \A r \in Subs : (task'[r] = "idle") <=> (task[r] = "idle")
    BY <1>1, <2>1, PutStep DEF BusBooks
  <2>3. (Bus!Local)' = Bus!Local
    BY <1>3, <2>2 DEF Bus!Local
  <2> QED
    BY <1>1, <2>3 DEF BusBooks, Registers
<1>5. subscribers' \in [Topics -> SUBSET Subs] /\ keys' \in SUBSET Topics /\ closed' \in [Subs -> BOOLEAN]
  BY <1>1 DEF BusBooks, Bus!TypeOK
<1> QED
  BY <1>1, <1>2, <1>3, <1>4, <1>5, EndKeeps

LEMMA ForwardItemKeeps ==
  ASSUME Bus!BusAssumption, BusBooks, NEW s \in Subs, Bus!ForwardItem(s)
  PROVE  BusBooks'
<1> USE DEF BusBooks
<1>1. /\ forward[s] = "run" /\ upto[s] < MaxEvents /\ upto' = [upto EXCEPT ![s] = upto[s] + 1]
      /\ Bus!Put({s}, <<s, upto[s] + 1>>)
      /\ UNCHANGED <<home, endpoints, subscribers, keys, closed, forward, received, published, pub, asleep, since>>
  BY DEF Bus!ForwardItem, Bus!registry
<1>2. /\ MaxEvents \in Nat /\ upto[s] \in 0..MaxEvents /\ upto[s] + 1 \in 0..MaxEvents /\ upto[s] + 1 \in 1..MaxEvents
      /\ task[s] # "idle"
  BY <1>1 DEF Bus!TypeOK, Bus!BusAssumption, QueueBooks
<1> DEFINE e == <<s, upto[s] + 1>>
<1>3. e \in Bus!Event /\ e \in Entry /\ e[1] = s /\ e[2] = upto[s] + 1 /\ e # Bus!NONE
  <2>1. e \in Bus!Event
    BY <1>2 DEF Bus!Event
  <2> QED
    BY <2>1, EventIsNoEnd DEF Entry
<1>4. Bus!Put({s}, e)
  BY <1>1
<1> HIDE DEF e
<1>5. /\ queue' \in [Subs -> Seq(Entry)]
      /\ task' \in [Subs -> {"idle", "run", "get", "woken", "done"}]
      /\ \A r \in Subs : (task'[r] = "idle") <=> (task[r] = "idle")
      /\ \A r \in Subs : queue'[r] = IF r \in {s} THEN Append(queue[r], e) ELSE queue[r]
  BY <1>3, <1>4, PutStep
<1>6. upto' \in [Subs -> 0..MaxEvents] /\ upto'[s] = upto[s] + 1 /\ \A r \in Subs : r # s => upto'[r] = upto[r]
  BY <1>1, <1>2 DEF Bus!TypeOK
<1>7. Bus!TypeOK'
  BY <1>1, <1>5, <1>6 DEF Bus!TypeOK, Bus!Event, Bus!NONE, Entry
<1>8. Registers' /\ Publication'
  <2>1. (Bus!Local)' = Bus!Local
    BY <1>1, <1>5 DEF Bus!Local
  <2> QED
    BY <1>1, <2>1 DEF Registers, Publication
<1>9. ASSUME NEW r \in Subs, r # s PROVE QueueBooks(r)' /\ GivenBooks(r)'
  <2>1. queue'[r] = queue[r]
    BY <1>5, <1>9
  <2> QED
    BY <1>1, <1>5, <1>6, <1>9, <2>1, BooksStay
<1>10. QueueBooks(s)' /\ GivenBooks(s)'
  <2>1. received[s] \in Seq(Entry) /\ queue[s] \in Seq(Entry) /\ received[s] \o queue[s] \in Seq(Entry)
        /\ Bus!InOrder(received[s] \o queue[s])
    BY WholeIsList DEF QueueBooks
  <2>2. PICK E : E = EventsOf(received[s] \o queue[s])
    OBVIOUS
  <2>3. HandlerGiven(E, s, since[s], upto[s])
    BY <1>1, <2>2 DEF GivenBooks
  <2>4. \A x \in E : x[2] < e[2]
    BY <1>2, <1>3, <2>3 DEF HandlerGiven
  <2>5. received'[s] \o queue'[s] = Append(received[s] \o queue[s], e)
    <3>1. received'[s] = received[s] /\ queue'[s] = Append(queue[s], e)
      BY <1>1, <1>5
    <3>2. received[s] \o Append(queue[s], e) = Append(received[s] \o queue[s], e)
      BY <1>3, <2>1, AppendedWhole
    <3> QED
      BY <3>1, <3>2
  <2>6. Bus!InOrder(received'[s] \o queue'[s]) /\ EventsOf(received'[s] \o queue'[s]) = E \cup {e}
    <3>1. PICK whole : whole = received[s] \o queue[s]
      OBVIOUS
    <3>2. whole \in Seq(Entry) /\ Bus!InOrder(whole) /\ \A x \in EventsOf(whole) : x[2] < e[2]
      BY <2>1, <2>2, <2>4, <3>1
    <3>3. /\ Bus!InOrder(Append(whole, e))
          /\ EventsOf(Append(whole, e)) = EventsOf(whole) \cup ({e} \ {Bus!NONE})
      BY <1>3, <3>2, OrderAppend
    <3> QED
      BY <1>3, <2>2, <2>5, <3>1, <3>3
  <2>7. QueueBooks(s)'
    BY <1>1, <1>2, <1>5, <2>6, QueueGoesOn
  <2>8. HandlerGiven(E \cup {e}, s, since'[s], upto'[s])
    BY <1>1, <1>2, <1>3, <1>6, <2>3 DEF HandlerGiven
  <2>9. EventsOf(received[s] \o queue[s])' = E \cup {e}
    BY <2>6 DEF EventsOf, Bus!ToSet, Bus!NONE
  <2>10. HandlerGiven(EventsOf(received[s] \o queue[s]), s, since[s], upto[s])'
    BY <2>8, <2>9 DEF HandlerGiven
  <2>11. s \notin (Bus!Local)'
    BY <1>1 DEF Bus!Local
  <2> QED
    BY <2>7, <2>10, <2>11 DEF GivenBooks
<1> QED
  BY <1>7, <1>8, <1>9, <1>10

\* One event put into the queue of a subscription.
LEMMA EventPut ==
  ASSUME BusBooks, NEW s \in Subs, NEW e \in Bus!Event, task[s] # "idle", s \in Bus!Local, ~closed[s] \/ closed'[s],
         \A x \in EventsOf(received[s] \o queue[s]) : x[2] < e[2],
         received'[s] = received[s], queue'[s] = Append(queue[s], e), task'[s] # "idle"
  PROVE  QueueBooks(s)' /\ EventsOf(received[s] \o queue[s])' = EventsOf(received[s] \o queue[s]) \cup {e}
<1>1. received[s] \in Seq(Entry) /\ queue[s] \in Seq(Entry) /\ received[s] \o queue[s] \in Seq(Entry)
      /\ Bus!InOrder(received[s] \o queue[s])
  BY WholeIsList DEF BusBooks, QueueBooks
<1>2. e \in Entry /\ e # Bus!NONE
  BY EventIsNoEnd DEF Entry
<1>3. received'[s] \o queue'[s] = Append(received[s] \o queue[s], e)
  <2>1. received[s] \o Append(queue[s], e) = Append(received[s] \o queue[s], e)
    BY <1>1, <1>2, AppendedWhole
  <2> QED
    BY <2>1
<1>4. Bus!InOrder(received'[s] \o queue'[s]) /\ EventsOf(received'[s] \o queue'[s]) = EventsOf(received[s] \o queue[s]) \cup {e}
  <2>1. PICK whole : whole = received[s] \o queue[s]
    OBVIOUS
  <2>2. whole \in Seq(Entry) /\ Bus!InOrder(whole) /\ \A x \in EventsOf(whole) : x[2] < e[2]
    BY <1>1, <2>1
  <2>3. /\ Bus!InOrder(Append(whole, e))
        /\ EventsOf(Append(whole, e)) = EventsOf(whole) \cup ({e} \ {Bus!NONE})
    BY <1>2, <2>2, OrderAppend
  <2> QED
    BY <1>2, <1>3, <2>1, <2>3
<1>5. QueueBooks(s)'
  <2>1. ~closed[s] => \A i \in 1..Len(queue'[s]) : queue'[s][i] # Bus!NONE
    <3>1. PICK b : b = queue[s]
      OBVIOUS
    <3>2. Len(Append(b, e)) = Len(b) + 1 /\ Append(b, e)[Len(b) + 1] = e
          /\ \A i \in 1..Len(b) : Append(b, e)[i] = b[i]
      BY <1>1, <1>2, <3>1
    <3>3. Len(b) \in Nat
      BY <1>1, <3>1
    <3>4. \A i \in 1..(Len(b) + 1) : i \in 1..Len(b) \/ i = Len(b) + 1
      BY <3>3
    <3>5. ~closed[s] => \A i \in 1..Len(b) : b[i] # Bus!NONE
      BY <3>1 DEF BusBooks, QueueBooks
    <3>6. ~closed[s] => \A i \in 1..(Len(b) + 1) : Append(b, e)[i] # Bus!NONE
      BY <1>2, <3>2, <3>4, <3>5
    <3> QED
      BY <3>1, <3>2, <3>6
  <2> QED
    BY <1>4, <2>1, QueueGoesOn
<1>6. EventsOf(received[s] \o queue[s])' = EventsOf(received[s] \o queue[s]) \cup {e}
  <2>1. EventsOf(received[s] \o queue[s])' = EventsOf(received'[s] \o queue'[s])
    BY DEF EventsOf, Bus!ToSet, Bus!NONE
  <2> QED
    BY <1>4, <2>1
<1> QED
  BY <1>5, <1>6

\* The queue of a subscription that the step does not fill.
LEMMA NothingPut ==
  ASSUME BusBooks, NEW s \in Subs, received'[s] = received[s], queue'[s] = queue[s], closed'[s] = closed[s],
         (task'[s] = "idle") <=> (task[s] = "idle"), forward'[s] = forward[s], since'[s] = since[s],
         task[s] = "idle" => upto'[s] = upto[s]
  PROVE  QueueBooks(s)' /\ EventsOf(received[s] \o queue[s])' = EventsOf(received[s] \o queue[s])
<1>1. Bus!InOrder(received'[s] \o queue'[s])
  BY DEF BusBooks, QueueBooks
<1>2. Bus!InOrder(received[s] \o queue[s])'
  BY <1>1 DEF Bus!InOrder, Bus!NONE
<1>3. QueueBooks(s)'
  BY <1>2 DEF BusBooks, QueueBooks, Bus!Local, Bus!NONE
<1>4. EventsOf(received[s] \o queue[s])' = EventsOf(received[s] \o queue[s])
  BY DEF EventsOf, Bus!ToSet, Bus!NONE
<1> QED
  BY <1>3, <1>4

LEMMA PublishedGrows ==
  ASSUME Bus!BusAssumption, BusBooks, NEW t \in Topics, Count < MaxEvents, published' = Append(published, t)
  PROVE  /\ published' \in Seq(Topics) /\ Len(published') <= MaxEvents
         /\ Count' = Count + 1 /\ Count \in Nat /\ Count + 1 \in 0..MaxEvents /\ Count + 1 \in 1..MaxEvents
         /\ published'[Count + 1] = t /\ \A n \in 1..Count : published'[n] = published[n]
<1>1. published \in Seq(Topics) /\ MaxEvents \in Nat
  BY DEF BusBooks, Bus!TypeOK, Bus!BusAssumption
<1> QED
  BY <1>1 DEF Count

\* A subscription whose handler streams has no part in what is published.
LEMMA HandlerStays ==
  ASSUME NEW s \in Subs, GivenBooks(s), s \notin Bus!Local, s \notin (Bus!Local)',
         EventsOf(received[s] \o queue[s])' = EventsOf(received[s] \o queue[s]),
         forward'[s] = forward[s], since'[s] = since[s], upto'[s] = upto[s]
  PROVE  GivenBooks(s)'
<1>1. PICK E : E = EventsOf(received[s] \o queue[s])
  OBVIOUS
<1>2. EventsOf(received[s] \o queue[s])' = E
  BY <1>1
<1>3. HandlerGiven(E, s, since[s], upto[s]) \/ forward[s] = "none"
  BY <1>1 DEF GivenBooks
<1>4. (forward[s] # "none" => HandlerGiven(E, s, since[s], upto[s]))'
  BY <1>3 DEF HandlerGiven
<1> QED
  BY <1>2, <1>4 DEF GivenBooks, HandlerGiven

LEMMA PublishOnLoopKeeps ==
  ASSUME Bus!BusAssumption, BusBooks, NEW t \in Topics, Bus!PublishOnLoop(t)
  PROVE  BusBooks'
<1> USE DEF BusBooks
<1>0. PICK e : e = <<t, Count + 1>>
  OBVIOUS
<1> DEFINE ss == IF t \in keys THEN subscribers[t] ELSE {}
<1>1. /\ home = "loop" /\ Count < MaxEvents /\ published' = Append(published, t)
      /\ Bus!Put(ss, e)
      /\ upto' = [s \in Subs |-> IF s \in Bus!Local /\ ~closed[s] THEN Count + 1 ELSE upto[s]]
      /\ UNCHANGED <<home, endpoints, subscribers, keys, closed, forward, received, pub, asleep, since>>
  BY <1>0 DEF Bus!PublishOnLoop, Bus!Complete, Bus!registry, Count
<1>2. /\ published' \in Seq(Topics) /\ Len(published') <= MaxEvents
      /\ Count' = Count + 1 /\ Count \in Nat /\ Count + 1 \in 0..MaxEvents /\ Count + 1 \in 1..MaxEvents
      /\ published'[Count + 1] = t /\ \A n \in 1..Count : published'[n] = published[n]
  BY <1>1, PublishedGrows
<1>3. e \in Bus!Event /\ e[1] = t /\ e[2] = Count + 1 /\ e \in Entry
  BY <1>0, <1>2 DEF Bus!Event, Entry
<1>4. \A r \in Subs : r \in ss <=> r \in Bus!Local /\ ~closed[r] /\ t \in MCWants[r]
  BY DEF Registers
<1> HIDE DEF ss
<1>5. /\ queue' \in [Subs -> Seq(Entry)]
      /\ task' \in [Subs -> {"idle", "run", "get", "woken", "done"}]
      /\ \A r \in Subs : (task'[r] = "idle") <=> (task[r] = "idle")
      /\ \A r \in Subs : queue'[r] = IF r \in ss THEN Append(queue[r], e) ELSE queue[r]
  BY <1>1, <1>3, PutStep
<1>6. /\ upto' \in [Subs -> 0..MaxEvents]
      /\ \A r \in Subs : upto'[r] = IF r \in Bus!Local /\ ~closed[r] THEN Count + 1 ELSE upto[r]
  BY <1>1, <1>2 DEF Bus!TypeOK
<1>7. Bus!TypeOK'
  BY <1>1, <1>2, <1>5, <1>6 DEF Bus!TypeOK, Bus!Event, Bus!NONE, Entry
<1>8. (Bus!Local)' = Bus!Local
  BY <1>1, <1>5 DEF Bus!Local
<1>9. Registers'
  BY <1>1, <1>8 DEF Registers
<1>10. pub.at = "idle" /\ pub.targets = {} /\ Publication' /\ Slack = 0 /\ Slack' = 0
  BY <1>1, <1>8 DEF Publication, Slack, Bus!TypeOK
<1>11. ASSUME NEW r \in Subs PROVE QueueBooks(r)' /\ GivenBooks(r)'
  <2>1. PICK E : E = EventsOf(received[r] \o queue[r])
    OBVIOUS
  <2>2. r \in Bus!Local => LocalGiven(E, ~closed[r], FALSE, since[r], upto[r], MCWants[r])
    BY <1>10, <2>1 DEF GivenBooks, LocalGiven
  <2>3. since[r] \in 0..MaxEvents /\ upto[r] \in 0..MaxEvents
    BY DEF Bus!TypeOK
  <2>4. CASE r \notin Bus!Local
    <3>1. queue'[r] = queue[r] /\ upto'[r] = upto[r]
      BY <1>4, <1>5, <1>6, <2>4
    <3>2. QueueBooks(r)' /\ EventsOf(received[r] \o queue[r])' = EventsOf(received[r] \o queue[r])
      BY <1>1, <1>5, <3>1, NothingPut
    <3>3. GivenBooks(r)'
      BY <1>1, <1>8, <2>4, <3>1, <3>2, HandlerStays
    <3> QED
      BY <3>2, <3>3
  <2>5. CASE r \in Bus!Local /\ r \in ss
    <3>1. r \in Bus!Local /\ ~closed[r] /\ t \in MCWants[r] /\ queue'[r] = Append(queue[r], e) /\ upto'[r] = Count + 1
      BY <1>4, <1>5, <1>6, <2>5
    <3>2. \A x \in E : x[2] < e[2]
      BY <1>2, <1>3, <2>2, <3>1 DEF LocalGiven
    <3>3. QueueBooks(r)' /\ EventsOf(received[r] \o queue[r])' = E \cup {e}
      <4>1. task[r] # "idle" /\ task'[r] # "idle" /\ \A x \in EventsOf(received[r] \o queue[r]) : x[2] < e[2]
        BY <1>5, <2>1, <2>5, <3>2 DEF Bus!Local
      <4> QED
        BY <1>1, <1>3, <2>1, <3>1, <4>1, EventPut
    <3>4. LocalGiven(E \cup {e}, ~closed[r], FALSE, since[r], Count, MCWants[r])'
      <4>1. LocalGiven(E, TRUE, FALSE, since[r], upto[r], MCWants[r])
        BY <2>2, <3>1
      <4>2. since[r] <= Count /\ upto[r] = Count
        BY <1>2, <1>10, <2>3, <4>1 DEF LocalGiven
      <4>3. \A x \in E \cup {e} : /\ x[2] \in 1..(Count + 1) /\ x[1] = published'[x[2]] /\ x[1] \in MCWants[r]
                                   /\ since[r] < x[2] /\ x[2] <= Count + 1
        BY <1>2, <1>3, <1>10, <2>3, <3>1, <4>1, <4>2 DEF LocalGiven
      <4>4. \A n \in (since[r] + 1)..(Count + 1) : published'[n] \in MCWants[r] => \E x \in E \cup {e} : x[2] = n
        <5>1. ASSUME NEW n \in (since[r] + 1)..(Count + 1), published'[n] \in MCWants[r] PROVE \E x \in E \cup {e} : x[2] = n
          <6>1. CASE n = Count + 1
            BY <1>3, <6>1
          <6>2. CASE n # Count + 1
            <7>1. n \in (since[r] + 1)..upto[r] /\ n \in 1..Count
              BY <1>2, <2>3, <4>2, <6>2
            <7> QED
              BY <1>2, <4>1, <5>1, <7>1 DEF LocalGiven
          <6> QED
            BY <6>1, <6>2
        <5> QED
          BY <5>1
      <4>5. pub'.at = "idle" /\ closed'[r] = closed[r] /\ since'[r] = since[r]
        BY <1>1, <1>10
      <4> QED
        BY <1>2, <1>10, <2>3, <4>2, <4>3, <4>4, <4>5 DEF LocalGiven
    <3>5. r \notin pub'.targets /\ forward'[r] = "none"
      BY <1>1, <1>10, <2>5 DEF Bus!Local
    <3>6. LocalGiven(E \cup {e}, ~closed[r], r \in pub.targets, since[r], upto[r], MCWants[r])'
      BY <1>2, <3>1, <3>4, <3>5 DEF LocalGiven
    <3>7. (EventsOf(received[r] \o queue[r]) = E \cup {e})'
      BY <3>3
    <3> QED
      BY <3>3, <3>5, <3>6, <3>7 DEF GivenBooks
  <2>6. CASE r \in Bus!Local /\ r \notin ss
    <3>1. queue'[r] = queue[r] /\ (~closed[r] => t \notin MCWants[r] /\ upto'[r] = Count + 1) /\ (closed[r] => upto'[r] = upto[r])
      BY <1>4, <1>5, <1>6, <2>6
    <3>2. QueueBooks(r)' /\ EventsOf(received[r] \o queue[r])' = E
      <4>1. task[r] # "idle"
        BY <2>6 DEF Bus!Local
      <4> QED
        BY <1>1, <1>5, <2>1, <3>1, <4>1, NothingPut
    <3>3. LocalGiven(E, ~closed[r], FALSE, since[r], upto[r], MCWants[r])'
      <4>1. LocalGiven(E, ~closed[r], FALSE, since[r], upto[r], MCWants[r])
        BY <2>2, <2>6
      <4>2. since[r] <= upto[r] /\ upto[r] <= Count /\ (~closed[r] => upto[r] = Count)
        BY <1>2, <1>10, <2>3, <4>1 DEF LocalGiven
      <4>3. upto[r] <= upto'[r] /\ upto'[r] \in 0..(Count + 1)
        BY <1>2, <2>3, <3>1, <4>2
      <4>4. \A x \in E : /\ x[2] \in 1..(Count + 1) /\ x[1] = published'[x[2]] /\ x[1] \in MCWants[r]
                         /\ since[r] < x[2] /\ x[2] <= upto'[r]
        BY <1>2, <1>10, <2>3, <4>1, <4>2, <4>3 DEF LocalGiven
      <4>5. ASSUME NEW n \in (since[r] + 1)..upto'[r], published'[n] \in MCWants[r] PROVE \E x \in E : x[2] = n
        <5>1. n # Count + 1
          BY <1>2, <2>3, <3>1, <4>2, <4>5
        <5>2. n \in (since[r] + 1)..upto[r] /\ n \in 1..Count
          BY <1>2, <2>3, <3>1, <4>2, <4>3, <5>1
        <5> QED
          BY <1>2, <4>1, <4>5, <5>2 DEF LocalGiven
      <4>6. pub'.at = "idle" /\ closed'[r] = closed[r] /\ since'[r] = since[r]
        BY <1>1, <1>10
      <4> QED
        BY <1>2, <1>10, <2>3, <3>1, <4>2, <4>3, <4>4, <4>5, <4>6 DEF LocalGiven
    <3>4. r \notin pub'.targets /\ forward'[r] = "none"
      BY <1>1, <1>10, <2>6 DEF Bus!Local
    <3>5. LocalGiven(E, ~closed[r], r \in pub.targets, since[r], upto[r], MCWants[r])'
      BY <3>3, <3>4 DEF LocalGiven
    <3>6. (EventsOf(received[r] \o queue[r]) = E)'
      BY <3>2
    <3> QED
      BY <3>2, <3>4, <3>5, <3>6 DEF GivenBooks
  <2> QED
    BY <2>4, <2>5, <2>6
<1> QED
  BY <1>7, <1>9, <1>10, <1>11

\* The books of a subscription to the bus whose list is E now.
LEMMA LocalBooks ==
  ASSUME NEW s \in Subs, NEW E, EventsOf(received[s] \o queue[s])' = E, forward'[s] = "none",
         LocalGiven(E, ~closed[s], s \in pub.targets, since[s], upto[s], MCWants[s])'
  PROVE  GivenBooks(s)'
<1>1. (EventsOf(received[s] \o queue[s]) = E)'
  OBVIOUS
<1> QED
  BY <1>1 DEF GivenBooks

\* A step of the thread that fills no queue.
LEMMA ThreadStep ==
  ASSUME BusBooks,
         UNCHANGED <<home, endpoints, subscribers, queue, closed, task, forward, received, asleep, since>>,
         published' \in Seq(Topics), Len(published') <= MaxEvents, pub' \in [at : {"idle", "found", "put"}, targets : SUBSET Subs],
         upto' \in [Subs -> 0 .. MaxEvents], keys' \in SUBSET Topics, keys \subseteq keys',
         \A r \in Subs : r \notin Bus!Local => upto'[r] = upto[r],
         Publication',
         ASSUME NEW r \in Subs, NEW E, E = EventsOf(received[r] \o queue[r]), r \in Bus!Local,
                LocalGiven(E, ~closed[r], r \in pub.targets, since[r], upto[r], MCWants[r])
         PROVE  LocalGiven(E, ~closed[r], r \in pub.targets, since[r], upto[r], MCWants[r])'
  PROVE  BusBooks'
<1> USE DEF BusBooks
<1>1. Bus!TypeOK'
  BY DEF Bus!TypeOK, Bus!Event, Bus!NONE
<1>2. (Bus!Local)' = Bus!Local
  BY DEF Bus!Local
<1>3. Registers'
  BY <1>2 DEF Registers
<1>4. ASSUME NEW r \in Subs PROVE QueueBooks(r)' /\ GivenBooks(r)'
  <2>1. PICK E : E = EventsOf(received[r] \o queue[r])
    OBVIOUS
  <2>2. QueueBooks(r)' /\ EventsOf(received[r] \o queue[r])' = E
    <3>1. task[r] = "idle" => upto'[r] = upto[r]
      BY DEF Bus!Local
    <3> QED
      BY <2>1, <3>1, NothingPut
  <2>3. CASE r \in Bus!Local
    <3>1. LocalGiven(E, ~closed[r], r \in pub.targets, since[r], upto[r], MCWants[r])
      BY <2>1, <2>3 DEF GivenBooks
    <3>2. LocalGiven(E, ~closed[r], r \in pub.targets, since[r], upto[r], MCWants[r])'
      BY <2>1, <2>3, <3>1
    <3>3. forward'[r] = "none"
      BY <2>3 DEF Bus!Local
    <3> QED
      BY <2>2, <3>2, <3>3, LocalBooks
  <2>4. CASE r \notin Bus!Local
    <3>1. GivenBooks(r)'
      BY <1>2, <2>1, <2>2, <2>4, HandlerStays
    <3> QED
      BY <2>2, <3>1
  <2> QED
    BY <2>3, <2>4
<1> QED
  BY <1>1, <1>3, <1>4

LEMMA PublishTestKeeps ==
  ASSUME Bus!BusAssumption, BusBooks, NEW t \in Topics, Bus!PublishTest(t)
  PROVE  BusBooks'
<1>1. /\ home = "thread" /\ pub = Bus!Idle /\ Count < MaxEvents /\ published' = Append(published, t)
      /\ pub' = [Bus!Idle EXCEPT !.at = IF t \in keys THEN "found" ELSE "idle"]
      /\ IF t \in keys THEN upto' = upto
         ELSE upto' = [s \in Subs |-> IF s \in Bus!Local /\ ~closed[s] THEN Count + 1 ELSE upto[s]]
      /\ UNCHANGED <<home, endpoints, subscribers, keys, queue, closed, task, forward, received, asleep, since>>
  BY DEF Bus!PublishTest, Bus!Complete, Bus!registry, Count
<1>2. /\ published' \in Seq(Topics) /\ Len(published') <= MaxEvents
      /\ Count' = Count + 1 /\ Count \in Nat /\ Count + 1 \in 0..MaxEvents /\ Count + 1 \in 1..MaxEvents
      /\ published'[Count + 1] = t /\ \A n \in 1..Count : published'[n] = published[n]
  BY <1>1, PublishedGrows
<1>3. /\ pub' \in [at : {"idle", "found", "put"}, targets : SUBSET Subs] /\ pub'.targets = {} /\ pub.targets = {}
      /\ pub.at = "idle" /\ pub'.at = IF t \in keys THEN "found" ELSE "idle"
  BY <1>1 DEF Bus!Idle
<1>4. /\ upto' \in [Subs -> 0..MaxEvents]
      /\ \A r \in Subs : upto'[r] = IF t \notin keys /\ r \in Bus!Local /\ ~closed[r] THEN Count + 1 ELSE upto[r]
  BY <1>1, <1>2 DEF BusBooks, Bus!TypeOK
<1>5. Publication'
  <2>1. published' # <<>>
    BY <1>2 DEF Count
  <2> QED
    BY <1>1, <1>3, <2>1 DEF Publication
<1>6. Slack = 1 /\ Slack' = 1
  BY <1>1 DEF Slack
<1>7. ASSUME NEW r \in Subs, NEW E, E = EventsOf(received[r] \o queue[r]), r \in Bus!Local,
             LocalGiven(E, ~closed[r], r \in pub.targets, since[r], upto[r], MCWants[r])
      PROVE  LocalGiven(E, ~closed[r], r \in pub.targets, since[r], upto[r], MCWants[r])'
  <2>1. since[r] \in 0..MaxEvents /\ upto[r] \in 0..MaxEvents
    BY DEF BusBooks, Bus!TypeOK
  <2>2. since[r] <= upto[r] /\ upto[r] <= Count /\ (~closed[r] => upto[r] = Count)
    BY <1>2, <1>3, <1>7, <2>1 DEF LocalGiven
  <2>3. upto[r] <= upto'[r] /\ upto'[r] \in 0..(Count + 1) /\ (upto'[r] = Count + 1 => t \notin keys /\ ~closed[r])
    BY <1>2, <1>4, <2>1, <2>2
  <2>4. t \notin keys /\ ~closed[r] => t \notin MCWants[r] /\ upto'[r] = Count + 1
    BY <1>4, <1>7 DEF BusBooks, Registers
  <2>5. \A x \in E : /\ x[2] \in 1..(Count + 1) /\ x[1] = published'[x[2]] /\ x[1] \in MCWants[r]
                     /\ since[r] - 1 < x[2] /\ x[2] <= upto'[r] + 1 /\ x[2] < Count + 1
    BY <1>2, <1>6, <1>7, <2>1, <2>2, <2>3 DEF LocalGiven
  <2>6. ASSUME NEW n \in (since[r] + 1)..upto'[r], published'[n] \in MCWants[r] PROVE \E x \in E : x[2] = n
    <3>1. n # Count + 1
      BY <1>2, <2>1, <2>3, <2>4, <2>6
    <3>2. n \in (since[r] + 1)..upto[r] /\ n \in 1..Count
      BY <1>2, <1>4, <2>1, <2>2, <2>3, <2>6, <3>1
    <3> QED
      BY <1>2, <1>7, <2>6, <3>2 DEF LocalGiven
  <2>7. pub'.at # "put" /\ closed'[r] = closed[r] /\ since'[r] = since[r] /\ r \notin pub'.targets
        /\ (t \in keys => pub'.at # "idle")
    BY <1>1, <1>3
  <2>8. ~closed[r] => upto'[r] = Count + 1 \/ (pub'.at # "idle" /\ upto'[r] = Count)
    BY <1>4, <2>2, <2>4, <2>7
  <2> QED
    BY <1>2, <1>6, <2>1, <2>2, <2>3, <2>5, <2>6, <2>7, <2>8 DEF LocalGiven
<1>8. \A r \in Subs : r \notin Bus!Local => upto'[r] = upto[r]
  BY <1>4
<1>9. keys' \in SUBSET Topics /\ keys \subseteq keys'
  BY <1>1 DEF BusBooks, Bus!TypeOK
<1> QED
  BY <1>1, <1>2, <1>3, <1>4, <1>5, <1>7, <1>8, <1>9, ThreadStep

LEMMA PublishListKeeps ==
  ASSUME Bus!BusAssumption, BusBooks, Bus!PublishList
  PROVE  BusBooks'
<1> DEFINE t == published[Count]
<1>1. /\ pub.at = "found" /\ pub' = [at |-> "put", targets |-> subscribers[t]]
      /\ keys' = keys \cup {t}
      /\ UNCHANGED <<home, endpoints, subscribers, queue, closed, task, forward, received, published, asleep, since, upto>>
  BY DEF Bus!PublishList, Bus!Last, Bus!history, Count
<1>2. published \in Seq(Topics) /\ Len(published) <= MaxEvents /\ published # <<>> /\ home = "thread"
  BY <1>1 DEF BusBooks, Bus!TypeOK, Publication
<1>3. Count \in Nat /\ Count >= 1 /\ t \in Topics
  BY <1>2 DEF Count
<1>4. subscribers[t] \subseteq Subs /\ \A r \in Subs : r \in subscribers[t] <=> r \in Bus!Local /\ ~closed[r] /\ t \in MCWants[r]
  BY <1>3 DEF BusBooks, Bus!TypeOK, Registers
<1> HIDE DEF t
<1>5. pub' \in [at : {"idle", "found", "put"}, targets : SUBSET Subs] /\ pub'.at = "put" /\ pub'.targets = subscribers[t]
  BY <1>1, <1>4
<1>6. (Bus!Local)' = Bus!Local
  BY <1>1 DEF Bus!Local
<1>7. Publication'
  BY <1>1, <1>2, <1>4, <1>5, <1>6 DEF Publication
<1>8. Count' = Count /\ Slack' = Slack
  BY <1>1 DEF Count, Slack
<1>9. ASSUME NEW r \in Subs, NEW E, E = EventsOf(received[r] \o queue[r]), r \in Bus!Local,
             LocalGiven(E, ~closed[r], r \in pub.targets, since[r], upto[r], MCWants[r])
      PROVE  LocalGiven(E, ~closed[r], r \in pub.targets, since[r], upto[r], MCWants[r])'
  <2>1. r \in pub'.targets <=> ~closed[r] /\ published[Count] \in MCWants[r]
    BY <1>4, <1>5, <1>9 DEF t
  <2>2. since[r] \in 0..MaxEvents /\ upto[r] \in 0..MaxEvents
    BY DEF BusBooks, Bus!TypeOK
  <2>3. /\ since[r] <= upto[r] /\ upto[r] <= Count
        /\ \A e \in E : /\ e[2] \in 1..Count /\ e[1] = published[e[2]] /\ e[1] \in MCWants[r]
                        /\ since[r] - Slack < e[2] /\ e[2] <= upto[r] + Slack
        /\ \A e \in E : e[2] < Count
        /\ ~closed[r] => upto[r] = Count \/ upto[r] = Count - 1
        /\ \A n \in (since[r] + 1)..upto[r] : published[n] \in MCWants[r] => \E e \in E : e[2] = n
    BY <1>1, <1>9 DEF LocalGiven
  <2>4. ~closed[r] => upto[r] >= Count - 1
    BY <1>3, <2>2, <2>3
  <2>5. closed'[r] = closed[r] /\ since'[r] = since[r] /\ upto'[r] = upto[r] /\ published' = published
    BY <1>1
  <2> QED
    BY <1>3, <1>5, <1>8, <2>1, <2>3, <2>4, <2>5 DEF LocalGiven
<1>10. keys' \in SUBSET Topics /\ keys \subseteq keys'
  BY <1>1, <1>3 DEF BusBooks, Bus!TypeOK, t
<1>11. upto' \in [Subs -> 0..MaxEvents]
  BY <1>1 DEF BusBooks, Bus!TypeOK
<1> QED
  BY <1>1, <1>2, <1>5, <1>7, <1>9, <1>10, <1>11, ThreadStep

LEMMA PublishDoneKeeps ==
  ASSUME Bus!BusAssumption, BusBooks, Bus!PublishDone
  PROVE  BusBooks'
<1>1. /\ pub.at = "put" /\ pub.targets = {} /\ pub' = Bus!Idle
      /\ upto' = [s \in Subs |-> IF s \in Bus!Local /\ ~closed[s] THEN Count ELSE upto[s]]
      /\ UNCHANGED <<home, endpoints, subscribers, keys, queue, closed, task, forward, received, published, asleep, since>>
  BY DEF Bus!PublishDone, Bus!Complete, Bus!registry, Count
<1>2. published \in Seq(Topics) /\ Len(published) <= MaxEvents /\ home = "thread" /\ MaxEvents \in Nat
  BY <1>1 DEF BusBooks, Bus!TypeOK, Publication, Bus!BusAssumption
<1>3. Count \in Nat /\ Count \in 0..MaxEvents
  BY <1>2 DEF Count
<1>4. pub' \in [at : {"idle", "found", "put"}, targets : SUBSET Subs] /\ pub'.at = "idle" /\ pub'.targets = {}
  BY <1>1 DEF Bus!Idle
<1>5. /\ upto' \in [Subs -> 0..MaxEvents]
      /\ \A r \in Subs : upto'[r] = IF r \in Bus!Local /\ ~closed[r] THEN Count ELSE upto[r]
  BY <1>1, <1>3 DEF BusBooks, Bus!TypeOK
<1>6. Publication'
  BY <1>4 DEF Publication
<1>7. Count' = Count /\ Slack' = 1 /\ Slack = 1
  BY <1>1, <1>2 DEF Count, Slack
<1>8. ASSUME NEW r \in Subs, NEW E, E = EventsOf(received[r] \o queue[r]), r \in Bus!Local,
             LocalGiven(E, ~closed[r], r \in pub.targets, since[r], upto[r], MCWants[r])
      PROVE  LocalGiven(E, ~closed[r], r \in pub.targets, since[r], upto[r], MCWants[r])'
  <2>1. since[r] \in 0..MaxEvents /\ upto[r] \in 0..MaxEvents
    BY DEF BusBooks, Bus!TypeOK
  <2>2. /\ since[r] <= upto[r] /\ upto[r] <= Count
        /\ \A e \in E : /\ e[2] \in 1..Count /\ e[1] = published[e[2]] /\ e[1] \in MCWants[r]
                        /\ since[r] - 1 < e[2] /\ e[2] <= upto[r] + 1
        /\ ~closed[r] => upto[r] = Count \/ upto[r] = Count - 1
        /\ \A n \in (since[r] + 1)..upto[r] : published[n] \in MCWants[r] => \E e \in E : e[2] = n
        /\ ~closed[r] /\ since[r] < Count /\ published[Count] \in MCWants[r] => \E e \in E : e[2] = Count
    BY <1>1, <1>7, <1>8 DEF LocalGiven
  <2>3. upto'[r] = IF ~closed[r] THEN Count ELSE upto[r]
    BY <1>5, <1>8
  <2>4. since[r] <= upto'[r] /\ upto'[r] <= Count /\ upto[r] <= upto'[r]
    BY <1>3, <2>1, <2>2, <2>3
  <2>5. \A e \in E : e[2] <= upto'[r] + 1
    BY <1>3, <2>1, <2>2, <2>3, <2>4
  <2>6. ASSUME NEW n \in (since[r] + 1)..upto'[r], published[n] \in MCWants[r] PROVE \E e \in E : e[2] = n
    <3>1. n \in (since[r] + 1)..upto[r] \/ (n = Count /\ ~closed[r] /\ since[r] < Count)
      BY <1>3, <2>1, <2>2, <2>3, <2>6
    <3> QED
      BY <2>2, <2>6, <3>1
  <2>7. closed'[r] = closed[r] /\ since'[r] = since[r] /\ published' = published
    BY <1>1
  <2> QED
    BY <1>4, <1>7, <2>2, <2>3, <2>4, <2>5, <2>6, <2>7 DEF LocalGiven
<1>9. keys' \in SUBSET Topics /\ keys \subseteq keys'
  BY <1>1 DEF BusBooks, Bus!TypeOK
<1>10. (\A r \in Subs : r \notin Bus!Local => upto'[r] = upto[r]) /\ published' \in Seq(Topics) /\ Len(published') <= MaxEvents
  BY <1>1, <1>2, <1>5
<1> QED
  BY <1>1, <1>4, <1>5, <1>6, <1>8, <1>9, <1>10, ThreadStep

LEMMA PublishPutKeeps ==
  ASSUME Bus!BusAssumption, BusBooks, NEW s \in Subs, Bus!PublishPut(s)
  PROVE  BusBooks'
<1> USE DEF BusBooks
<1>0. PICK e : e = <<published[Count], Count>>
  OBVIOUS
<1>1. /\ pub.at = "put" /\ s \in pub.targets /\ Bus!Put({s}, e)
      /\ pub' = [pub EXCEPT !.targets = pub.targets \ {s}]
      /\ UNCHANGED <<home, endpoints, subscribers, keys, closed, forward, received, published, asleep, since, upto>>
  BY <1>0 DEF Bus!PublishPut, Bus!Last, Bus!registry, Bus!history, Count
<1>2. published \in Seq(Topics) /\ Len(published) <= MaxEvents /\ published # <<>> /\ home = "thread"
  BY <1>1 DEF Bus!TypeOK, Publication
<1>3. Count \in Nat /\ Count \in 1..MaxEvents /\ published[Count] \in Topics /\ MaxEvents \in Nat
  BY <1>2 DEF Count, Bus!BusAssumption
<1>4. e \in Bus!Event /\ e[1] = published[Count] /\ e[2] = Count /\ e \in Entry
  BY <1>0, <1>3 DEF Bus!Event, Entry
<1>5. /\ queue' \in [Subs -> Seq(Entry)]
      /\ task' \in [Subs -> {"idle", "run", "get", "woken", "done"}]
      /\ \A r \in Subs : (task'[r] = "idle") <=> (task[r] = "idle")
      /\ \A r \in Subs : queue'[r] = IF r \in {s} THEN Append(queue[r], e) ELSE queue[r]
  BY <1>1, <1>4, PutStep
<1>6. /\ pub \in [at : {"idle", "found", "put"}, targets : SUBSET Subs]
      /\ pub' \in [at : {"idle", "found", "put"}, targets : SUBSET Subs]
      /\ pub'.at = "put" /\ pub'.targets = pub.targets \ {s}
  <2>1. pub \in [at : {"idle", "found", "put"}, targets : SUBSET Subs]
    BY DEF Bus!TypeOK
  <2> QED
    BY <1>1, <2>1
<1>7. Bus!TypeOK'
  BY <1>1, <1>5, <1>6 DEF Bus!TypeOK, Bus!Event, Bus!NONE, Entry
<1>8. (Bus!Local)' = Bus!Local /\ s \in Bus!Local
  BY <1>1, <1>5 DEF Bus!Local, Publication
<1>9. Registers' /\ Publication'
  BY <1>1, <1>2, <1>6, <1>8 DEF Registers, Publication
<1>10. Count' = Count /\ Slack' = 1 /\ Slack = 1
  BY <1>1, <1>2 DEF Count, Slack
<1>11. ASSUME NEW r \in Subs, r # s PROVE QueueBooks(r)' /\ GivenBooks(r)'
  <2>1. PICK E : E = EventsOf(received[r] \o queue[r])
    OBVIOUS
  <2>2. QueueBooks(r)' /\ EventsOf(received[r] \o queue[r])' = E
    <3>1. queue'[r] = queue[r]
      BY <1>5, <1>11
    <3> QED
      BY <1>1, <1>5, <2>1, <3>1, NothingPut
  <2>3. CASE r \in Bus!Local
    <3>1. LocalGiven(E, ~closed[r], r \in pub.targets, since[r], upto[r], MCWants[r])
      BY <2>1, <2>3 DEF GivenBooks
    <3>2. /\ r \in pub'.targets <=> r \in pub.targets
          /\ closed'[r] = closed[r] /\ since'[r] = since[r] /\ upto'[r] = upto[r] /\ published' = published
      BY <1>1, <1>6, <1>11
    <3>3. LocalGiven(E, ~closed[r], r \in pub.targets, since[r], upto[r], MCWants[r])'
      BY <1>1, <1>6, <1>10, <3>1, <3>2 DEF LocalGiven
    <3>4. forward'[r] = "none"
      BY <1>1, <2>3 DEF Bus!Local
    <3> QED
      BY <2>2, <3>3, <3>4, LocalBooks
  <2>4. CASE r \notin Bus!Local
    <3>1. GivenBooks(r)'
      BY <1>1, <1>8, <2>1, <2>2, <2>4, HandlerStays
    <3> QED
      BY <2>2, <3>1
  <2> QED
    BY <2>3, <2>4
<1>12. QueueBooks(s)' /\ GivenBooks(s)'
  <2>1. PICK E : E = EventsOf(received[s] \o queue[s])
    OBVIOUS
  <2>2. LocalGiven(E, ~closed[s], s \in pub.targets, since[s], upto[s], MCWants[s])
    BY <1>8, <2>1 DEF GivenBooks
  <2>3. since[s] \in 0..MaxEvents /\ upto[s] \in 0..MaxEvents
    BY DEF Bus!TypeOK
  <2>4. /\ since[s] <= upto[s] /\ upto[s] <= Count
        /\ \A x \in E : /\ x[2] \in 1..Count /\ x[1] = published[x[2]] /\ x[1] \in MCWants[s]
                        /\ since[s] - 1 < x[2] /\ x[2] <= upto[s] + 1
        /\ \A x \in E : x[2] < Count
        /\ ~closed[s] => upto[s] = Count \/ upto[s] = Count - 1
        /\ \A n \in (since[s] + 1)..upto[s] : published[n] \in MCWants[s] => \E x \in E : x[2] = n
        /\ published[Count] \in MCWants[s] /\ upto[s] >= Count - 1
    BY <1>1, <1>10, <2>2 DEF LocalGiven
  <2>5. QueueBooks(s)' /\ EventsOf(received[s] \o queue[s])' = E \cup {e}
    <3>1. task[s] # "idle" /\ task'[s] # "idle" /\ queue'[s] = Append(queue[s], e) /\ received'[s] = received[s]
          /\ (~closed[s] \/ closed'[s])
      BY <1>1, <1>5, <1>8 DEF Bus!Local, Bus!TypeOK
    <3>2. \A x \in EventsOf(received[s] \o queue[s]) : x[2] < e[2]
      BY <1>4, <2>1, <2>4
    <3> QED
      BY <1>4, <1>8, <2>1, <3>1, <3>2, EventPut
  <2>6. \A x \in E \cup {e} : /\ x[2] \in 1..Count /\ x[1] = published[x[2]] /\ x[1] \in MCWants[s]
                               /\ since[s] - 1 < x[2] /\ x[2] <= upto[s] + 1
    BY <1>3, <1>4, <2>3, <2>4
  <2>7. \A n \in (since[s] + 1)..upto[s] : published[n] \in MCWants[s] => \E x \in E \cup {e} : x[2] = n
    BY <2>4
  <2>8. \E x \in E \cup {e} : x[2] = Count
    BY <1>4
  <2>9. closed'[s] = closed[s] /\ since'[s] = since[s] /\ upto'[s] = upto[s] /\ published' = published /\ s \notin pub'.targets
    BY <1>1, <1>6
  <2>10. LocalGiven(E \cup {e}, ~closed[s], s \in pub.targets, since[s], upto[s], MCWants[s])'
    BY <1>6, <1>10, <2>4, <2>6, <2>7, <2>8, <2>9 DEF LocalGiven
  <2>11. forward'[s] = "none"
    BY <1>1, <1>8 DEF Bus!Local
  <2>12. GivenBooks(s)'
    <3>1. PICK F : F = E \cup {e}
      OBVIOUS
    <3>2. EventsOf(received[s] \o queue[s])' = F /\ LocalGiven(F, ~closed[s], s \in pub.targets, since[s], upto[s], MCWants[s])'
      BY <2>5, <2>10, <3>1
    <3> QED
      BY <2>11, <3>2, LocalBooks
  <2> QED
    BY <2>5, <2>12
<1> QED
  BY <1>7, <1>9, <1>11, <1>12

LEMMA BusGoes ==
  ASSUME Bus!BusAssumption, BusBooks, Bus!Next
  PROVE  BusBooks'
<1>1. CASE \/ \E ss \in UNION {[1 .. n -> Tools] : n \in 1 .. 2} : Bus!Register(ss)
           \/ \E s \in Subs : Bus!Unregister(s)
           \/ Bus!Sleep \/ Bus!Wake
  BY <1>1, EndpointsKeep
<1>2. ASSUME NEW s \in Subs, \/ Bus!Delegate(s) \/ Bus!SubscribeLocal(s) \/ Bus!Reader(s) \/ Bus!Interrupt(s)
                             \/ Bus!Close(s) \/ Bus!Forwarder(s) \/ Bus!ForwardItem(s)
      PROVE  BusBooks'
  BY <1>2, DelegateKeeps, SubscribeKeeps, WaitKeeps, TakeKeeps, TakeEndKeeps, InterruptKeeps, CloseKeeps,
     ForwardEndKeeps, ForwardItemKeeps DEF Bus!Reader, Bus!Forwarder
<1>3. CASE Bus!Publisher
  BY <1>3, PublishOnLoopKeeps, PublishTestKeeps, PublishListKeeps, PublishPutKeeps, PublishDoneKeeps DEF Bus!Publisher
<1> QED
  BY <1>1, <1>2, <1>3 DEF Bus!Next

LEMMA BusHolds == BusBooks => Bus!BusInv
<1> SUFFICES ASSUME BusBooks PROVE Bus!EachOnceInOrder
  BY DEF BusBooks, Bus!BusInv
<1>1. ASSUME NEW s \in Subs
      PROVE  LET nums  == {e[2] : e \in Bus!Seen(s)}
                 slack == IF home = "thread" /\ s \in Bus!Local THEN 1 ELSE 0
             IN  /\ Bus!InOrder(received[s] \o queue[s])
                 /\ \A e \in Bus!Seen(s) :
                       e[1] = Bus!Given(s, e[2]) /\ (s \in Bus!Local => e[1] \in MCWants[s])
                 /\ \A n \in nums : since[s] - slack < n /\ n <= upto[s] + slack
                 /\ \A n \in since[s] + 1 .. upto[s] :
                       n \in nums \/ (s \in Bus!Local /\ published[n] \notin MCWants[s])
  <2> DEFINE slack == IF home = "thread" /\ s \in Bus!Local THEN 1 ELSE 0
  <2>1. PICK E : E = EventsOf(received[s] \o queue[s])
    OBVIOUS
  <2>2. Bus!Seen(s) = E
    BY <2>1 DEF Bus!Seen, EventsOf
  <2>3. Bus!InOrder(received[s] \o queue[s]) /\ since[s] \in Int /\ upto[s] \in Int
    BY DEF BusBooks, QueueBooks, Bus!TypeOK
  <2>4. CASE s \in Bus!Local
    <3>1. LocalGiven(E, ~closed[s], s \in pub.targets, since[s], upto[s], MCWants[s]) /\ forward[s] = "none"
      BY <2>1, <2>4 DEF BusBooks, GivenBooks, Bus!Local
    <3>2. slack = Slack
      BY <2>4 DEF Slack
    <3>3. /\ \A e \in E : e[1] = Bus!Given(s, e[2]) /\ e[1] \in MCWants[s] /\ since[s] - slack < e[2] /\ e[2] <= upto[s] + slack
          /\ \A n \in (since[s] + 1)..upto[s] : published[n] \in MCWants[s] => \E e \in E : e[2] = n
      BY <3>1, <3>2 DEF LocalGiven, Bus!Given
    <3> QED
      BY <2>2, <2>3, <2>4, <3>3
  <2>5. CASE s \notin Bus!Local /\ forward[s] # "none"
    <3>1. HandlerGiven(E, s, since[s], upto[s])
      BY <2>1, <2>5 DEF BusBooks, GivenBooks
    <3>2. /\ \A e \in E : e[1] = Bus!Given(s, e[2]) /\ since[s] < e[2] /\ e[2] <= upto[s]
          /\ \A n \in (since[s] + 1)..upto[s] : \E e \in E : e[2] = n
      BY <2>3, <2>5, <3>1 DEF HandlerGiven, Bus!Given
    <3> QED
      BY <2>2, <2>3, <2>5, <3>2
  <2>6. CASE s \notin Bus!Local /\ forward[s] = "none"
    <3>1. task[s] = "idle" /\ received[s] = <<>> /\ queue[s] = <<>> /\ since[s] = 0 /\ upto[s] = 0
      BY <2>6 DEF BusBooks, QueueBooks, Bus!Local
    <3>2. E = {}
      BY <2>1, <3>1 DEF EventsOf, Bus!ToSet
    <3> QED
      BY <2>2, <2>3, <3>1, <3>2
  <2> QED
    BY <2>4, <2>5, <2>6
<1> QED
  BY <1>1 DEF Bus!EachOnceInOrder

(***************************************************************************)
(* The composition                                                         *)
(***************************************************************************)

LEMMA ClientStays == ClientBooks /\ UNCHANGED vars => ClientBooks'
<1> SUFFICES ASSUME ClientBooks, UNCHANGED vars PROVE ClientBooks'
  OBVIOUS
<1> USE DEF vars, host, call, read, peer
<1>1. TypeOK'
  BY DEF ClientBooks, TypeOK
<1>2. Ids'
  BY OwnStays DEF ClientBooks, Ids
<1>3. NoForeignAnswer' /\ WaiterHasHope'
  BY DEF ClientBooks, NoForeignAnswer, WaiterHasHope, Answers, Alive
<1> QED
  BY <1>1, <1>2, <1>3 DEF ClientBooks

LEMMA HotStays == HotBooks /\ UNCHANGED reload => HotBooks'
BY DEF HotBooks, Hot!TypeOK, Watches, Pollers, Counted, Due, CallsOn, reload

LEMMA BusStays == BusBooks /\ UNCHANGED bus => BusBooks'
<1> SUFFICES ASSUME BusBooks, UNCHANGED bus PROVE BusBooks'
  OBVIOUS
<1>1. Bus!TypeOK'
  BY DEF BusBooks, Bus!TypeOK, Bus!Event, Bus!NONE, bus
<1>2. Registers' /\ Publication'
  BY DEF BusBooks, Registers, Publication, Bus!Local, bus
<1>3. ASSUME NEW r \in Subs PROVE QueueBooks(r)' /\ GivenBooks(r)'
  BY BooksStay DEF BusBooks, bus
<1> QED
  BY <1>1, <1>2, <1>3 DEF BusBooks

(* No answer of a daemon, no callback of a reload and no event of the bus   *)
(* goes to the wrong place or is given twice (ToolBus.subscribe).           *)
THEOREM RuntimeHolds ==
  ASSUME Hot!HotReloadAssumption, Bus!BusAssumption
  PROVE  AllSpec => []RuntimeInv
<1> DEFINE Books == ClientBooks /\ HotBooks /\ BusBooks
           whole == <<part, vars, reload, bus>>
<1>1. AllInit => Books
  BY ClientBegins, HotBegins, BusBegins DEF AllInit
<1>2. Books /\ [AllNext]_whole => Books'
  <2>1. SUFFICES ASSUME Books, [AllNext]_whole PROVE Books'
    OBVIOUS
  <2>2. ClientBooks'
    BY <2>1, ClientGoes, ClientStays DEF AllNext
  <2>3. HotBooks'
    BY <2>1, HotGoes, HotStays DEF AllNext
  <2>4. BusBooks'
    BY <2>1, BusGoes, BusStays DEF AllNext
  <2> QED
    BY <2>2, <2>3, <2>4
<1>3. Books => RuntimeInv
  <2>1. ClientBooks => ClientInv
    BY DEF ClientBooks, ClientInv
  <2> QED
    BY <2>1, HotHolds, BusHolds DEF RuntimeInv
<1> QED
  BY <1>1, <1>2, <1>3, PTL DEF AllSpec
=============================================================================
