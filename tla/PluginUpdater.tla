---------------------------- MODULE PluginUpdater ----------------------------
(***************************************************************************)
(* PluginChannelUpdater and PluginUpdateCache (src/coolbox/plugins/        *)
(* update.py) for one plugin: releases are staged, promoted and rolled     *)
(* back per channel; every change of memory is followed by writes of       *)
(* files, any of which may raise, or be cut short by the end of the        *)
(* process.  Nothing reads the files back.                                 *)
(*                                                                         *)
(* A release is its version.  An operation leaves what it still has to do  *)
(* in todo, one step per file it writes.                                   *)
(***************************************************************************)
EXTENDS Naturals, Sequences, SequencesExt, TLAPS

CONSTANTS Channel, Stable, Version,
  MaxHistory,   \* bound on the releases of a channel
  MaxFaults     \* bound on writes that raise and restarts

UpdaterAssumption ==
  /\ Stable \in Channel /\ MaxHistory \in Nat /\ MaxFaults \in Nat
  /\ "none" \notin Version /\ "torn" \notin Version

VARIABLES
  selected,     \* _channels
  history,      \* _history
  active,       \* _active
  staged,       \* _staged
  loaded,       \* the release the load that has just ended is of
  todo,         \* steps the operation under way has left
  failed,       \* history: channels with a write that raised
  faults,       \* writes that raised and restarts so far
  stored,       \* pairs of channel and version with a metadata.json, whole or truncated
  activeFile, rollbackFile, stagedFile  \* active.json, rollback.json, staged.json

memory == <<selected, history, active, staged, loaded>>
disk == <<stored, activeFile, rollbackFile, stagedFile>>
vars == <<memory, todo, failed, faults, disk>>

None == "none"
Torn == "torn"
Empty == [c \in Channel |-> None]
NoHistory == [c \in Channel |-> <<>>]
Step(do, c, v) == [do |-> do, channel |-> c, version |-> v]
Steps == {"store", "active", "rollback", "staged", "unstage", "register", "forget", "resolve"}

Init ==
  /\ selected = Stable /\ history = NoHistory /\ active = Empty /\ staged = Empty
  /\ loaded = None /\ todo = <<>> /\ failed = {} /\ faults = 0
  /\ stored = {} /\ activeFile = Empty /\ rollbackFile = Empty /\ stagedFile = Empty

\* mark_active()
Marks(c, v, previous) ==
  <<Step("active", c, v)>>
    \o IF previous = None THEN <<>> ELSE <<Step("rollback", c, previous)>>

AlwaysAppended(h, v) == Append(h, v)      \* mutant of Recorded

\* the history _register_release() leaves: a version promoted again is replaced
Recorded(h, v) == IF h # <<>> /\ Last(h) = v THEN h ELSE Append(h, v)
Previous(h) == IF Len(h) > 1 THEN h[Len(h) - 1] ELSE None

Enabled(c, v) == todo = <<>> /\ Len(Recorded(history[c], v)) <= MaxHistory

-----------------------------------------------------------------------------
\* load_from_manifest(): bootstrap() of the manifest's version, then resolve_definition()
Load(v) ==
  /\ Enabled(Stable, v)
  /\ todo' = (IF \E i \in DOMAIN history[Stable] : history[Stable][i] = v THEN <<>>
              ELSE <<Step("register", Stable, v)>>) \o <<Step("resolve", Stable, v)>>
  /\ loaded' = None /\ UNCHANGED <<selected, history, active, staged, failed, faults, disk>>

SetChannel(c) ==
  /\ todo = <<>> /\ selected' = c
  /\ loaded' = None /\ UNCHANGED <<history, active, staged, todo, failed, faults, disk>>

RecordFirst(c, v) ==                      \* mutant of Stage
  /\ todo = <<>>
  /\ staged' = [staged EXCEPT ![c] = v]
  /\ todo' = <<Step("staged", c, v), Step("store", c, v)>>
  /\ loaded' = None /\ UNCHANGED <<selected, history, active, failed, faults, disk>>

Stage(c, v) ==
  /\ todo = <<>>
  /\ staged' = [staged EXCEPT ![c] = v]
  /\ todo' = <<Step("store", c, v), Step("staged", c, v)>>
  /\ loaded' = None /\ UNCHANGED <<selected, history, active, failed, faults, disk>>

\* the stable release becomes the baseline of a channel without releases
Baseline(c) ==
  IF active[c] = None /\ c # Stable /\ active[Stable] # None
  THEN <<Step("register", c, active[Stable])>> ELSE <<>>
Promote(c) ==
  LET v == staged[c]
      previous == IF active[c] = None /\ c # Stable THEN active[Stable] ELSE active[c]
  IN /\ v # None /\ todo = <<>>
     /\ Len(Recorded(history[c], v)) + Len(Baseline(c)) <= MaxHistory
     /\ todo' = Baseline(c) \o <<Step("register", c, v)>> \o Marks(c, v, previous)
                  \o <<Step("unstage", c, v), Step("forget", c, v)>>
     /\ loaded' = None /\ UNCHANGED <<selected, history, active, staged, failed, faults, disk>>

\* rollback.json keeps naming the release that is active now
Rollback(c) ==
  /\ todo = <<>> /\ Len(history[c]) > 1
  /\ history' = [history EXCEPT ![c] = Front(@)]
  /\ active' = [active EXCEPT ![c] = Last(history'[c])]
  /\ todo' = Marks(c, active'[c], None)
  /\ loaded' = None /\ UNCHANGED <<selected, staged, failed, faults, disk>>

-----------------------------------------------------------------------------
(* What an operation has left to do *)

\* _register_release()
Register(c, v) ==
  /\ history' = [history EXCEPT ![c] = Recorded(@, v)]
  /\ active' = [active EXCEPT ![c] = v]
  /\ todo' = <<Step("store", c, v)>> \o Marks(c, v, Previous(history'[c])) \o Tail(todo)
  /\ UNCHANGED <<selected, staged, loaded, failed, faults, disk>>

Forget(c) ==
  /\ staged' = [staged EXCEPT ![c] = None] /\ todo' = Tail(todo)
  /\ UNCHANGED <<selected, history, active, loaded, failed, faults, disk>>

\* the active release of the selected channel, or what the manifest says
Resolve(default) ==
  /\ loaded' = IF active[selected] = None THEN default ELSE active[selected]
  /\ todo' = Tail(todo)
  /\ UNCHANGED <<selected, history, active, staged, failed, faults, disk>>

\* a file is written to its end, or left behind truncated
Write(s, value) ==
  /\ stored' = IF s.do = "store" THEN stored \union {<<s.channel, s.version>>} ELSE stored
  /\ activeFile' = IF s.do = "active" THEN [activeFile EXCEPT ![s.channel] = value] ELSE activeFile
  /\ rollbackFile' = IF s.do = "rollback" THEN [rollbackFile EXCEPT ![s.channel] = value]
                     ELSE rollbackFile
  /\ stagedFile' = CASE s.do = "staged" -> [stagedFile EXCEPT ![s.channel] = value]
                     [] s.do = "unstage" /\ value # Torn -> [stagedFile EXCEPT ![s.channel] = None]
                     [] OTHER -> stagedFile

Files == {"store", "active", "rollback", "staged", "unstage"}

WriteFile ==
  LET s == Head(todo)
  IN /\ todo # <<>> /\ s.do \in Files
     /\ Write(s, s.version) /\ todo' = Tail(todo) /\ UNCHANGED <<memory, failed, faults>>

Proceed ==
  LET s == Head(todo)
  IN /\ todo # <<>>
     /\ \/ s.do = "register" /\ Register(s.channel, s.version)
        \/ s.do = "forget" /\ Forget(s.channel)
        \/ s.do = "resolve" /\ Resolve(s.version)

\* a write raises: the rest of the operation does not happen
WriteRaises ==
  LET s == Head(todo)
  IN /\ todo # <<>> /\ s.do \in Files
     /\ Write(s, Torn) \/ UNCHANGED disk
     /\ faults < MaxFaults /\ faults' = faults + 1
     /\ todo' = <<>> /\ failed' = failed \union {s.channel} /\ UNCHANGED memory

\* the process ends, inside a write or not, and the next one knows nothing
Restart ==
  /\ faults < MaxFaults /\ faults' = faults + 1
  /\ selected' = Stable /\ history' = NoHistory /\ active' = Empty /\ staged' = Empty
  /\ loaded' = None /\ todo' = <<>> /\ UNCHANGED failed
  /\ \/ UNCHANGED disk
     \/ todo # <<>> /\ Head(todo).do \in Files /\ Write(Head(todo), Torn)

Next ==
  \/ WriteFile \/ Proceed \/ WriteRaises \/ Restart
  \/ \E v \in Version : Load(v)
  \/ \E c \in Channel :
       \/ SetChannel(c) \/ Promote(c) \/ Rollback(c)
       \/ \E v \in Version : Stage(c, v)
Spec == Init /\ [][Next]_vars

-----------------------------------------------------------------------------
Maybe == Version \union {None}
TypeOK ==
  /\ selected \in Channel /\ history \in [Channel -> BoundedSeq(Version, MaxHistory)]
  /\ active \in [Channel -> Maybe] /\ staged \in [Channel -> Maybe] /\ loaded \in Maybe
  /\ faults \in 0..MaxFaults
  /\ todo \in Seq([do : Steps, channel : Channel, version : Version])
  /\ failed \subseteq Channel /\ stored \subseteq Channel \X Version
  /\ \A f \in {activeFile, rollbackFile, stagedFile} : f \in [Channel -> Maybe \union {Torn}]

\* The active release of a channel is the last one of its history, through
\* promotions and rollbacks that fail at any of their writes.
ActiveIsLast == \A c \in Channel :
  active[c] = IF history[c] = <<>> THEN None ELSE Last(history[c])

\* Wherever the process ends, what active.json, rollback.json and staged.json
\* name is a release with a metadata.json, unless a write of the channel has
\* raised before (then memory keeps a release the disk never got).
PointersResolve ==
  \A c \in Channel \ failed : \A f \in {activeFile, rollbackFile, stagedFile} :
    f[c] \in Version => <<c, f[c]>> \in stored

\* Between operations the files of a channel with releases say what memory
\* holds, unless a write of that channel has raised since the process began.
DiskFollows ==
  todo = <<>> => \A c \in Channel \ failed :
    /\ active[c] # None => activeFile[c] = active[c]
    /\ staged[c] # None => stagedFile[c] = staged[c]

\* The definition a plugin is loaded from has its metadata on disk, unless a
\* write has raised (load_from_manifest).
LoadedIsStored ==
  loaded # None /\ failed = {} => \E c \in Channel : <<c, loaded>> \in stored

UpdaterInv == TypeOK /\ ActiveIsLast /\ PointersResolve /\ DiskFollows /\ LoadedIsStored

\* rollback() reverts to another release: no version follows itself in a history.
Reverts ==
  \A c \in Channel : Len(history'[c]) < Len(history[c]) /\ history'[c] # <<>>
                       => active'[c] # active[c]
RollbackReverts == [][Reverts]_vars

-----------------------------------------------------------------------------
(* Proofs *)

(***************************************************************************)
(* What memory and files agree on while releases are staged, promoted and  *)
(* rolled back, for any channels, versions and bounds, wherever a write    *)
(* raises or the process ends.                                             *)
(***************************************************************************)

-----------------------------------------------------------------------------
(* The inductive invariant *)

Pending == [do : Steps, channel : Channel, version : Version]

(* The release that is named exists, or is about to: a step of todo that   *)
(* names one comes after the step that stores it.                          *)
Named == {"active", "rollback", "staged", "resolve"}
Provided(steps, j) ==
  \E i \in 1..j - 1 :
    /\ steps[i].do \in {"store", "register"}
    /\ steps[i].channel = steps[j].channel /\ steps[i].version = steps[j].version
StoredFirst ==
  \A j \in DOMAIN todo : todo[j].do \in Named /\ todo[j].channel \notin failed =>
    <<todo[j].channel, todo[j].version>> \in stored \/ Provided(todo, j)

(* A channel's releases are stored, the latest perhaps only next.          *)
HistoryStored ==
  \A c \in Channel \ failed : \A i \in DOMAIN history[c] :
    \/ <<c, history[c][i]>> \in stored
    \/ todo # <<>> /\ Head(todo) = Step("store", c, history[c][i])

(* No version follows itself.                                              *)
Differing ==
  \A c \in Channel : \A i \in 1..Len(history[c]) - 1 : history[c][i] # history[c][i + 1]

(* No release is registered before step j.                                 *)
Settled(steps, j) == \A i \in 1..j - 1 : steps[i].do # "register"

(* active.json is told the release that is active when its turn comes.     *)
Marked ==
  /\ \A j \in DOMAIN todo : todo[j].do = "active" /\ Settled(todo, j) =>
       todo[j].version = active[todo[j].channel]
  /\ \A i, j \in DOMAIN todo :
       /\ i < j /\ todo[i].do = "register" /\ todo[j].do = "active"
       /\ \A k \in i + 1..j - 1 : todo[k].do # "register"
       => todo[i].channel = todo[j].channel /\ todo[i].version = todo[j].version
  /\ \A c \in Channel \ failed : active[c] # None =>
       \/ activeFile[c] = active[c]
       \/ \E j \in DOMAIN todo : todo[j].do = "active" /\ todo[j].channel = c /\ Settled(todo, j)

(* staged.json is told what is staged, or what was is forgotten.           *)
Announced ==
  /\ \A j \in DOMAIN todo : todo[j].do = "staged" =>
       /\ todo[j].version = staged[todo[j].channel]
       /\ \A i \in DOMAIN todo : todo[i].do # "forget"
  /\ \A j \in DOMAIN todo : todo[j].do = "unstage" =>
       \E k \in DOMAIN todo : j < k /\ todo[k].do = "forget" /\ todo[k].channel = todo[j].channel
  /\ \A c \in Channel \ failed : staged[c] # None =>
       \/ stagedFile[c] = staged[c]
       \/ \E j \in DOMAIN todo : todo[j].do \in {"staged", "forget"} /\ todo[j].channel = c

(* What is going to be registered fits.                                    *)
Fits ==
  /\ \A j \in DOMAIN todo : todo[j].do = "register" /\ Settled(todo, j) =>
       Len(Recorded(history[todo[j].channel], todo[j].version)) <= MaxHistory
  /\ \A i, j \in DOMAIN todo : i < j /\ todo[i].do = "register" /\ todo[j].do = "register" =>
       /\ todo[i].channel = todo[j].channel /\ Len(history[todo[i].channel]) + 2 <= MaxHistory
       /\ \A k \in DOMAIN todo : j < k => todo[k].do # "register"

(* An operation is about one channel.                                      *)
OneChannel == \A i, j \in DOMAIN todo : todo[i].channel = todo[j].channel

Inv ==
  /\ TypeOK /\ ActiveIsLast /\ PointersResolve /\ LoadedIsStored
  /\ StoredFirst /\ HistoryStored /\ Differing /\ Marked /\ Announced /\ Fits /\ OneChannel

-----------------------------------------------------------------------------
(* Histories *)

LEMMA Bounded ==
  ASSUME NEW S, NEW n \in Nat, NEW s
  PROVE  s \in BoundedSeq(S, n) <=> s \in Seq(S) /\ Len(s) <= n
<1>1. ASSUME s \in BoundedSeq(S, n) PROVE s \in Seq(S) /\ Len(s) <= n
  <2>1. PICK m \in 0..n : s \in [1..m -> S]
    BY <1>1 DEF BoundedSeq, SeqOf
  <2> QED
    BY <2>1
<1>2. ASSUME s \in Seq(S), Len(s) <= n PROVE s \in BoundedSeq(S, n)
  <2>1. Len(s) \in 0..n /\ s \in [1..Len(s) -> S]
    BY <1>2
  <2> QED
    BY <2>1 DEF BoundedSeq, SeqOf
<1> QED
  BY <1>1, <1>2

LEMMA RecordedIs ==
  ASSUME NEW h \in Seq(Version), NEW v \in Version
  PROVE  /\ Recorded(h, v) \in Seq(Version) /\ Recorded(h, v) # <<>> /\ Last(Recorded(h, v)) = v
         /\ Len(Recorded(h, v)) \in {Len(h), Len(h) + 1} /\ Len(Recorded(h, v)) \in Nat \ {0}
         /\ \A i \in DOMAIN h : Recorded(h, v)[i] = h[i]
         /\ \A i \in DOMAIN Recorded(h, v) : i \in DOMAIN h \/ Recorded(h, v)[i] = v
         /\ (\A i \in 1..Len(h) - 1 : h[i] # h[i + 1]) =>
              \A i \in 1..Len(Recorded(h, v)) - 1 : Recorded(h, v)[i] # Recorded(h, v)[i + 1]
<1>1. CASE h # <<>> /\ Last(h) = v
  <2>1. Recorded(h, v) = h /\ Len(h) \in Nat \ {0}
    BY <1>1 DEF Recorded
  <2> QED
    BY <1>1, <2>1 DEF Last
<1>2. CASE h = <<>>
  <2>1. Recorded(h, v) = <<v>>
    BY <1>2 DEF Recorded
  <2> QED
    BY <1>2, <2>1 DEF Last
<1>3. CASE h # <<>> /\ Last(h) # v
  <2> DEFINE r == Recorded(h, v)
             n == Len(h)
  <2>1. /\ r = Append(h, v) /\ n \in Nat \ {0} /\ h[n] # v
    BY <1>3 DEF Recorded, Last
  <2>2. /\ r \in Seq(Version) /\ Len(r) = n + 1 /\ r[n + 1] = v /\ DOMAIN h = 1..n
        /\ DOMAIN r = 1..n + 1 /\ \A i \in 1..n : r[i] = h[i]
    BY <2>1
  <2> HIDE DEF r, n
  <2>3. r # <<>> /\ Last(r) = v
    BY <2>1, <2>2 DEF Last
  <2>4. ASSUME \A i \in 1..n - 1 : h[i] # h[i + 1], NEW i \in 1..n
        PROVE  r[i] # r[i + 1]
    <3>1. CASE i = n
      BY <2>1, <2>2, <3>1
    <3>2. CASE i # n
      BY <2>1, <2>2, <2>4, <3>2
    <3> QED
      BY <3>1, <3>2
  <2> QED
    BY <2>1, <2>2, <2>3, <2>4 DEF r, n
<1> QED
  BY <1>1, <1>2, <1>3

LEMMA Histories ==
  ASSUME TypeOK, UpdaterAssumption
  PROVE  \A c \in Channel : /\ history[c] \in Seq(Version) /\ Len(history[c]) <= MaxHistory
                            /\ DOMAIN history[c] = 1..Len(history[c]) /\ Len(history[c]) \in Nat
BY Bounded DEF TypeOK, UpdaterAssumption

(* The files of the three names, spelled out.                              *)
LEMMA FileTypes ==
  TypeOK =>
    /\ activeFile \in [Channel -> Maybe \cup {Torn}] /\ rollbackFile \in [Channel -> Maybe \cup {Torn}]
    /\ stagedFile \in [Channel -> Maybe \cup {Torn}]
BY DEF TypeOK

-----------------------------------------------------------------------------
(* What is left to do *)

LEMMA Popped ==
  ASSUME TypeOK, todo # <<>>
  PROVE  /\ Len(todo) \in Nat \ {0} /\ DOMAIN todo = 1..Len(todo)
         /\ Head(todo) = todo[1] /\ todo[1] \in Pending /\ todo \in Seq(Pending)
         /\ Tail(todo) \in Seq(Pending) /\ Len(Tail(todo)) = Len(todo) - 1
         /\ DOMAIN Tail(todo) = 1..Len(todo) - 1
         /\ \A j \in 1..Len(todo) - 1 : Tail(todo)[j] = todo[j + 1]
<1>1. todo \in Seq(Pending)
  BY DEF TypeOK, Pending
<1> HIDE DEF Pending
<1>2. Len(todo) \in Nat \ {0} /\ DOMAIN todo = 1..Len(todo)
  BY <1>1
<1>3. Head(todo) = todo[1] /\ todo[1] \in Pending
  BY <1>1, <1>2
<1>4. /\ Tail(todo) \in Seq(Pending) /\ Len(Tail(todo)) = Len(todo) - 1
      /\ \A j \in 1..Len(todo) - 1 : Tail(todo)[j] = todo[j + 1]
  BY <1>1, <1>2
<1>5. DOMAIN Tail(todo) = 1..Len(todo) - 1
  BY <1>2, <1>4
<1> QED
  BY <1>1, <1>2, <1>3, <1>4, <1>5

LEMMA Written ==
  ASSUME TypeOK, NEW s \in Pending, NEW value \in Version \cup {Torn}, Write(s, value)
  PROVE  /\ stored' = IF s.do = "store" THEN stored \cup {<<s.channel, s.version>>} ELSE stored
         /\ activeFile' \in [Channel -> Maybe \cup {Torn}]
         /\ rollbackFile' \in [Channel -> Maybe \cup {Torn}]
         /\ stagedFile' \in [Channel -> Maybe \cup {Torn}]
         /\ stored' \subseteq Channel \X Version
         /\ \A c \in Channel :
              /\ activeFile'[c] = IF s.do = "active" /\ c = s.channel THEN value ELSE activeFile[c]
              /\ rollbackFile'[c] = IF s.do = "rollback" /\ c = s.channel THEN value
                                    ELSE rollbackFile[c]
              /\ stagedFile'[c] = IF s.do = "staged" /\ c = s.channel THEN value
                                  ELSE IF s.do = "unstage" /\ c = s.channel /\ value # Torn THEN None
                                  ELSE stagedFile[c]
<1>1. s.channel \in Channel /\ s.version \in Version /\ value \in Maybe \cup {Torn} /\ None \in Maybe
  BY DEF Pending, Maybe
<1>2. stored' = IF s.do = "store" THEN stored \cup {<<s.channel, s.version>>} ELSE stored
  BY DEF Write
<1>3. /\ activeFile' \in [Channel -> Maybe \cup {Torn}]
      /\ \A c \in Channel : activeFile'[c] = IF s.do = "active" /\ c = s.channel THEN value
                                             ELSE activeFile[c]
  BY <1>1, FileTypes DEF Write
<1>4. /\ rollbackFile' \in [Channel -> Maybe \cup {Torn}]
      /\ \A c \in Channel : rollbackFile'[c] = IF s.do = "rollback" /\ c = s.channel THEN value
                                               ELSE rollbackFile[c]
  BY <1>1, FileTypes DEF Write
<1>5. /\ stagedFile' \in [Channel -> Maybe \cup {Torn}]
      /\ \A c \in Channel : stagedFile'[c] = IF s.do = "staged" /\ c = s.channel THEN value
                                  ELSE IF s.do = "unstage" /\ c = s.channel /\ value # Torn THEN None
                                  ELSE stagedFile[c]
  <2>1. CASE s.do = "staged"
    <3>1. stagedFile' = [stagedFile EXCEPT ![s.channel] = value]
      BY <2>1 DEF Write
    <3> QED
      BY <1>1, <2>1, <3>1, FileTypes
  <2>2. CASE s.do = "unstage" /\ value # Torn
    <3>1. stagedFile' = [stagedFile EXCEPT ![s.channel] = None]
      BY <2>2 DEF Write
    <3> QED
      BY <1>1, <2>2, <3>1, FileTypes
  <2>3. CASE ~(s.do = "staged" \/ (s.do = "unstage" /\ value # Torn))
    <3>1. stagedFile' = stagedFile
      BY <2>3 DEF Write
    <3> QED
      BY <2>3, <3>1, FileTypes
  <2> QED
    BY <2>1, <2>2, <2>3
<1>6. stored' \subseteq Channel \X Version
  BY <1>1, <1>2 DEF TypeOK
<1> QED
  BY <1>2, <1>3, <1>4, <1>5, <1>6

-----------------------------------------------------------------------------
(* Steps that do what is first to do *)

(* The others move up.                                                     *)
LEMMA Shifted ==
  ASSUME TypeOK, todo # <<>>, todo' = Tail(todo), todo[1].do # "register"
  PROVE  /\ DOMAIN todo' = 1..Len(todo) - 1 /\ DOMAIN todo = 1..Len(todo) /\ Len(todo) \in Nat \ {0}
         /\ todo' \in Seq(Pending) /\ todo[1] \in Pending /\ Head(todo) = todo[1]
         /\ \A j \in DOMAIN todo' : todo'[j] = todo[j + 1] /\ j + 1 \in DOMAIN todo
         /\ \A j \in DOMAIN todo' : Settled(todo', j) <=> Settled(todo, j + 1)
<1>1. /\ DOMAIN todo' = 1..Len(todo) - 1 /\ DOMAIN todo = 1..Len(todo) /\ Len(todo) \in Nat \ {0}
      /\ todo' \in Seq(Pending) /\ todo[1] \in Pending /\ Head(todo) = todo[1]
      /\ \A j \in DOMAIN todo' : todo'[j] = todo[j + 1] /\ j + 1 \in DOMAIN todo
  BY Popped
<1> DEFINE n == Len(todo)
<1>2. ASSUME NEW j \in DOMAIN todo'
      PROVE  Settled(todo', j) <=> Settled(todo, j + 1)
  <2>1. ASSUME Settled(todo', j), NEW i \in 1..j PROVE todo[i].do # "register"
    <3>1. CASE i = 1
      BY <3>1
    <3>2. CASE i # 1
      <4>1. i - 1 \in 1..j - 1 /\ i - 1 \in DOMAIN todo' /\ todo'[i - 1] = todo[i]
        BY <1>1, <1>2, <2>1, <3>2
      <4> QED
        BY <2>1, <4>1 DEF Settled
    <3> QED
      BY <3>1, <3>2
  <2>2. ASSUME Settled(todo, j + 1), NEW i \in 1..j - 1 PROVE todo'[i].do # "register"
    <3>1. i + 1 \in 1..j + 1 - 1 /\ todo'[i] = todo[i + 1]
      BY <1>1, <1>2, <2>2
    <3> QED
      BY <2>2, <3>1 DEF Settled
  <2>3. (j + 1) - 1 = j
    BY <1>1, <1>2
  <2>4. Settled(todo', j) => Settled(todo, j + 1)
    BY <2>1, <2>3 DEF Settled
  <2>5. Settled(todo, j + 1) => Settled(todo', j)
    BY <2>2 DEF Settled
  <2> QED
    BY <2>4, <2>5
<1> QED
  BY <1>1, <1>2

LEMMA PopKeeps ==
  ASSUME Inv, todo # <<>>, todo' = Tail(todo), todo[1].do # "register",
         UNCHANGED <<history, active, failed>>, stored \subseteq stored',
         todo[1].do = "store" => <<todo[1].channel, todo[1].version>> \in stored'
  PROVE  /\ StoredFirst' /\ HistoryStored' /\ Differing' /\ Fits' /\ OneChannel'
         /\ \A j \in DOMAIN todo' : todo'[j].do = "active" /\ Settled(todo', j) =>
              todo'[j].version = active'[todo'[j].channel]
         /\ \A i, j \in DOMAIN todo' :
              /\ i < j /\ todo'[i].do = "register" /\ todo'[j].do = "active"
              /\ \A k \in i + 1..j - 1 : todo'[k].do # "register"
              => todo'[i].channel = todo'[j].channel /\ todo'[i].version = todo'[j].version
<1> DEFINE n == Len(todo)
<1>1. /\ DOMAIN todo' = 1..n - 1 /\ DOMAIN todo = 1..n /\ n \in Nat \ {0} /\ Head(todo) = todo[1]
      /\ \A j \in 1..n - 1 : todo'[j] = todo[j + 1] /\ j + 1 \in 1..n
      /\ \A j \in 1..n - 1 : Settled(todo', j) <=> Settled(todo, j + 1)
  BY Shifted DEF Inv
<1> HIDE DEF n
<1>2. StoredFirst'
  <2>1. SUFFICES ASSUME NEW j \in 1..n - 1, todo'[j].do \in Named, todo'[j].channel \notin failed,
                        <<todo'[j].channel, todo'[j].version>> \notin stored'
                 PROVE  Provided(todo', j)
    BY <1>1 DEF StoredFirst
  <2>2. todo'[j] = todo[j + 1] /\ j + 1 \in 1..n
    BY <1>1
  <2>3. <<todo[j + 1].channel, todo[j + 1].version>> \notin stored
    BY <2>1, <2>2
  <2>4. Provided(todo, j + 1)
    BY <1>1, <2>1, <2>2, <2>3 DEF Inv, StoredFirst
  <2>5. PICK i \in 1..j :
          /\ todo[i].do \in {"store", "register"}
          /\ todo[i].channel = todo[j + 1].channel /\ todo[i].version = todo[j + 1].version
    BY <1>1, <2>4 DEF Provided
  <2>6. i # 1
    BY <2>1, <2>2, <2>5
  <2>7. i - 1 \in 1..j - 1 /\ todo'[i - 1] = todo[i]
    <3>1. i - 1 \in 1..j - 1 /\ i - 1 \in 1..n - 1 /\ (i - 1) + 1 = i
      BY <1>1, <2>5, <2>6
    <3> QED
      BY <1>1, <3>1
  <2> QED
    BY <2>2, <2>5, <2>7 DEF Provided
<1>3. HistoryStored'
  <2>1. SUFFICES ASSUME NEW c \in Channel \ failed, NEW i \in DOMAIN history[c]
                 PROVE  <<c, history[c][i]>> \in stored'
    BY DEF HistoryStored
  <2>2. CASE <<c, history[c][i]>> \in stored
    BY <2>2
  <2>3. CASE Head(todo) = Step("store", c, history[c][i])
    <3>1. todo[1].do = "store" /\ todo[1].channel = c /\ todo[1].version = history[c][i]
      BY <1>1, <2>3 DEF Step
    <3> QED
      BY <3>1
  <2> QED
    BY <2>1, <2>2, <2>3 DEF Inv, HistoryStored
<1>4. Differing' /\ OneChannel'
  BY <1>1 DEF Inv, Differing, OneChannel
<1>5. ASSUME NEW j \in 1..n - 1, todo'[j].do = "active", Settled(todo', j)
      PROVE  todo'[j].version = active'[todo'[j].channel]
  BY <1>1, <1>5 DEF Inv, Marked
<1>6. ASSUME NEW i \in 1..n - 1, NEW j \in 1..n - 1, i < j,
             todo'[i].do = "register", todo'[j].do = "active",
             \A k \in i + 1..j - 1 : todo'[k].do # "register"
      PROVE  todo'[i].channel = todo'[j].channel /\ todo'[i].version = todo'[j].version
  <2>1. /\ i + 1 \in 1..n /\ j + 1 \in 1..n /\ i + 1 < j + 1
        /\ todo'[i] = todo[i + 1] /\ todo'[j] = todo[j + 1]
    BY <1>1, <1>6
  <2>2. ASSUME NEW k \in (i + 1) + 1..(j + 1) - 1 PROVE todo[k].do # "register"
    <3>1. k - 1 \in i + 1..j - 1 /\ k - 1 \in 1..n - 1 /\ (k - 1) + 1 = k
      BY <1>1, <2>2
    <3> QED
      BY <1>1, <1>6, <3>1
  <2>3. \A k \in (i + 1) + 1..(j + 1) - 1 : todo[k].do # "register"
    BY <2>2
  <2>4. todo[i + 1].channel = todo[j + 1].channel /\ todo[i + 1].version = todo[j + 1].version
    <3>1. Marked /\ i + 1 \in DOMAIN todo /\ j + 1 \in DOMAIN todo
      BY <1>1, <2>1 DEF Inv
    <3>2. todo[i + 1].do = "register" /\ todo[j + 1].do = "active"
      BY <1>6, <2>1
    <3> QED
      BY <2>1, <2>3, <3>1, <3>2 DEF Marked
  <2> QED
    BY <2>1, <2>4
<1>7. Fits'
  <2>1. ASSUME NEW j \in 1..n - 1, todo'[j].do = "register", Settled(todo', j)
        PROVE  Len(Recorded(history[todo'[j].channel], todo'[j].version)) <= MaxHistory
    BY <1>1, <2>1 DEF Inv, Fits
  <2>2. ASSUME NEW i \in 1..n - 1, NEW j \in 1..n - 1, i < j, todo'[i].do = "register",
               todo'[j].do = "register"
        PROVE  /\ todo'[i].channel = todo'[j].channel
               /\ Len(history[todo'[i].channel]) + 2 <= MaxHistory
               /\ \A k \in 1..n - 1 : j < k => todo'[k].do # "register"
    <3>1. /\ i + 1 \in 1..n /\ j + 1 \in 1..n /\ i + 1 < j + 1
          /\ todo'[i] = todo[i + 1] /\ todo'[j] = todo[j + 1]
      BY <1>1, <2>2
    <3>2. /\ todo[i + 1].channel = todo[j + 1].channel
          /\ Len(history[todo[i + 1].channel]) + 2 <= MaxHistory
          /\ \A k \in 1..n : j + 1 < k => todo[k].do # "register"
      BY <1>1, <2>2, <3>1 DEF Inv, Fits
    <3>3. ASSUME NEW k \in 1..n - 1, j < k PROVE todo'[k].do # "register"
      BY <1>1, <3>2, <3>3
    <3> QED
      BY <3>1, <3>2, <3>3
  <2>3. history' = history /\ DOMAIN todo' = 1..n - 1
    BY <1>1
  <2>4. ASSUME NEW j \in DOMAIN todo', todo'[j].do = "register", Settled(todo', j)
        PROVE  Len(Recorded(history'[todo'[j].channel], todo'[j].version)) <= MaxHistory
    BY <2>1, <2>3, <2>4
  <2>5. ASSUME NEW i \in DOMAIN todo', NEW j \in DOMAIN todo', i < j,
               todo'[i].do = "register", todo'[j].do = "register"
        PROVE  /\ todo'[i].channel = todo'[j].channel
               /\ Len(history'[todo'[i].channel]) + 2 <= MaxHistory
               /\ \A k \in DOMAIN todo' : j < k => todo'[k].do # "register"
    <3>1. i \in 1..n - 1 /\ j \in 1..n - 1
      BY <2>3, <2>5
    <3> QED
      BY <2>2, <2>3, <2>5, <3>1
  <2> QED
    BY <2>4, <2>5 DEF Fits
<1>8. ASSUME NEW j \in DOMAIN todo', todo'[j].do = "active", Settled(todo', j)
      PROVE  todo'[j].version = active'[todo'[j].channel]
  BY <1>1, <1>5, <1>8
<1>9. ASSUME NEW i \in DOMAIN todo', NEW j \in DOMAIN todo', i < j,
             todo'[i].do = "register", todo'[j].do = "active",
             \A k \in i + 1..j - 1 : todo'[k].do # "register"
      PROVE  todo'[i].channel = todo'[j].channel /\ todo'[i].version = todo'[j].version
  BY <1>1, <1>6, <1>9
<1> QED
  BY <1>2, <1>3, <1>4, <1>7, <1>8, <1>9

LEMMA AnnouncedKeeps ==
  ASSUME Inv, todo # <<>>, todo' = Tail(todo), todo[1].do # "register"
  PROVE  /\ \A j \in DOMAIN todo' : todo'[j].do = "staged" =>
              /\ todo'[j].version = staged[todo'[j].channel]
              /\ \A i \in DOMAIN todo' : todo'[i].do # "forget"
         /\ \A j \in DOMAIN todo' : todo'[j].do = "unstage" =>
              \E k \in DOMAIN todo' : /\ j < k /\ todo'[k].do = "forget"
                                      /\ todo'[k].channel = todo'[j].channel
<1> DEFINE n == Len(todo)
<1>1. /\ DOMAIN todo' = 1..n - 1 /\ DOMAIN todo = 1..n /\ n \in Nat \ {0}
      /\ \A j \in 1..n - 1 : todo'[j] = todo[j + 1] /\ j + 1 \in 1..n
  BY Shifted DEF Inv
<1> HIDE DEF n
<1>2. ASSUME NEW j \in 1..n - 1, todo'[j].do = "staged"
      PROVE  /\ todo'[j].version = staged[todo'[j].channel]
             /\ \A i \in 1..n - 1 : todo'[i].do # "forget"
  BY <1>1, <1>2 DEF Inv, Announced
<1>3. ASSUME NEW j \in 1..n - 1, todo'[j].do = "unstage"
      PROVE  \E k \in 1..n - 1 : /\ j < k /\ todo'[k].do = "forget"
                                 /\ todo'[k].channel = todo'[j].channel
  <2>1. PICK k \in 1..n : /\ j + 1 < k /\ todo[k].do = "forget"
                          /\ todo[k].channel = todo[j + 1].channel
    BY <1>1, <1>3 DEF Inv, Announced
  <2>2. k - 1 \in 1..n - 1 /\ j < k - 1 /\ (k - 1) + 1 = k
    BY <1>1, <1>3, <2>1
  <2> QED
    BY <1>1, <1>3, <2>1, <2>2
<1>4. ASSUME NEW j \in DOMAIN todo', todo'[j].do = "staged"
      PROVE  /\ todo'[j].version = staged[todo'[j].channel]
             /\ \A i \in DOMAIN todo' : todo'[i].do # "forget"
  BY <1>1, <1>2, <1>4
<1>5. ASSUME NEW j \in DOMAIN todo', todo'[j].do = "unstage"
      PROVE  \E k \in DOMAIN todo' : /\ j < k /\ todo'[k].do = "forget"
                                     /\ todo'[k].channel = todo'[j].channel
  BY <1>1, <1>3, <1>5
<1> QED
  BY <1>4, <1>5

(* A step of todo that is not the first is one of what is left.            *)
LEMMA Later ==
  ASSUME TypeOK, todo # <<>>, todo' = Tail(todo), todo[1].do # "register",
         NEW j \in DOMAIN todo, j # 1
  PROVE  /\ j - 1 \in DOMAIN todo' /\ todo'[j - 1] = todo[j]
         /\ Settled(todo, j) => Settled(todo', j - 1)
<1>1. /\ DOMAIN todo' = 1..Len(todo) - 1 /\ DOMAIN todo = 1..Len(todo) /\ Len(todo) \in Nat \ {0}
      /\ \A i \in DOMAIN todo' : todo'[i] = todo[i + 1]
      /\ \A i \in DOMAIN todo' : Settled(todo', i) <=> Settled(todo, i + 1)
  BY Shifted
<1>2. j - 1 \in DOMAIN todo' /\ (j - 1) + 1 = j
  BY <1>1
<1> QED
  BY <1>1, <1>2

(* Nothing comes before the first step.                                    *)
LEMMA First ==
  ASSUME TypeOK, todo # <<>>
  PROVE  Settled(todo, 1) /\ ~Provided(todo, 1) /\ 1 \in DOMAIN todo /\ Head(todo) = todo[1]
BY Popped DEF Settled, Provided

LEMMA WriteKeeps ==
  ASSUME UpdaterAssumption, Inv, WriteFile
  PROVE  Inv'
<1> DEFINE s == todo[1]
<1>1. /\ TypeOK /\ todo # <<>> /\ todo' = Tail(todo) /\ s.do \in Files /\ Head(todo) = s
      /\ s \in Pending /\ Write(s, s.version) /\ 1 \in DOMAIN todo
      /\ UNCHANGED <<selected, history, active, staged, loaded, failed, faults>>
  BY First, Popped DEF Inv, WriteFile, memory
<1>2. /\ stored' = IF s.do = "store" THEN stored \cup {<<s.channel, s.version>>} ELSE stored
      /\ activeFile' \in [Channel -> Maybe \cup {Torn}]
      /\ rollbackFile' \in [Channel -> Maybe \cup {Torn}]
      /\ stagedFile' \in [Channel -> Maybe \cup {Torn}]
      /\ stored' \subseteq Channel \X Version
      /\ \A c \in Channel :
           /\ activeFile'[c] = IF s.do = "active" /\ c = s.channel THEN s.version ELSE activeFile[c]
           /\ rollbackFile'[c] = IF s.do = "rollback" /\ c = s.channel THEN s.version
                                 ELSE rollbackFile[c]
           /\ stagedFile'[c] = IF s.do = "staged" /\ c = s.channel THEN s.version
                               ELSE IF s.do = "unstage" /\ c = s.channel /\ s.version # Torn THEN None
                               ELSE stagedFile[c]
  <2>1. s.version \in Version \cup {Torn}
    BY <1>1 DEF Pending
  <2> QED
    BY <1>1, <2>1, Written
<1>3. s.do # "register" /\ s.do # "forget" /\ stored \subseteq stored'
  BY <1>1, <1>2 DEF Files
<1>4. s.do = "store" => <<s.channel, s.version>> \in stored'
  BY <1>2
<1>5. todo' \in Seq(Pending) /\ s.version \in Version /\ s.channel \in Channel
  BY <1>1, Popped DEF Pending
<1>6. s.do \in Named /\ s.channel \notin failed => <<s.channel, s.version>> \in stored
  BY <1>1, First DEF Inv, StoredFirst
<1> HIDE DEF s
<1>7. /\ StoredFirst' /\ HistoryStored' /\ Differing' /\ Fits' /\ OneChannel'
      /\ \A j \in DOMAIN todo' : todo'[j].do = "active" /\ Settled(todo', j) =>
           todo'[j].version = active'[todo'[j].channel]
      /\ \A i, j \in DOMAIN todo' :
           /\ i < j /\ todo'[i].do = "register" /\ todo'[j].do = "active"
           /\ \A k \in i + 1..j - 1 : todo'[k].do # "register"
           => todo'[i].channel = todo'[j].channel /\ todo'[i].version = todo'[j].version
  BY <1>1, <1>3, <1>4, PopKeeps DEF s
<1>8. TypeOK'
  <2>1. \A f \in {activeFile', rollbackFile', stagedFile'} : f \in [Channel -> Maybe \cup {Torn}]
    BY <1>2
  <2>2. stored' \subseteq Channel \X Version
    BY <1>2
  <2>3. todo' \in Seq([do : Steps, channel : Channel, version : Version])
    BY <1>5 DEF Pending
  <2> QED
    BY <1>1, <2>1, <2>2, <2>3 DEF TypeOK
<1>9. ActiveIsLast'
  BY <1>1 DEF Inv, ActiveIsLast
<1>10. LoadedIsStored'
  BY <1>1, <1>3 DEF Inv, LoadedIsStored
<1>11. PointersResolve'
  <2>1. SUFFICES ASSUME NEW c \in Channel \ failed
                 PROVE  /\ activeFile'[c] \in Version => <<c, activeFile'[c]>> \in stored'
                        /\ rollbackFile'[c] \in Version => <<c, rollbackFile'[c]>> \in stored'
                        /\ stagedFile'[c] \in Version => <<c, stagedFile'[c]>> \in stored'
    BY <1>1 DEF PointersResolve
  <2>2. /\ activeFile[c] \in Version => <<c, activeFile[c]>> \in stored
        /\ rollbackFile[c] \in Version => <<c, rollbackFile[c]>> \in stored
        /\ stagedFile[c] \in Version => <<c, stagedFile[c]>> \in stored
    BY <2>1 DEF Inv, PointersResolve
  <2>3. activeFile'[c] \in Version => <<c, activeFile'[c]>> \in stored'
    BY <1>2, <1>3, <1>6, <2>1, <2>2 DEF Named
  <2>4. rollbackFile'[c] \in Version => <<c, rollbackFile'[c]>> \in stored'
    BY <1>2, <1>3, <1>6, <2>1, <2>2 DEF Named
  <2>5. stagedFile'[c] \in Version => <<c, stagedFile'[c]>> \in stored'
    BY <1>2, <1>3, <1>6, <2>1, <2>2 DEF Named, UpdaterAssumption, None
  <2> QED
    BY <2>3, <2>4, <2>5
<1>12. Marked'
  <2>1. ASSUME NEW c \in Channel \ failed, active[c] # None, activeFile'[c] # active[c]
        PROVE  \E j \in DOMAIN todo' : /\ todo'[j].do = "active" /\ todo'[j].channel = c
                                       /\ Settled(todo', j)
    <3>1. CASE s.do = "active" /\ s.channel = c
      <4>1. s.version = active[c]
        BY <1>1, <3>1, First DEF Inv, Marked, s
      <4> QED
        BY <1>2, <2>1, <3>1, <4>1
    <3>2. CASE ~(s.do = "active" /\ s.channel = c)
      <4>1. activeFile[c] # active[c]
        BY <1>2, <2>1, <3>2
      <4>2. PICK j \in DOMAIN todo : /\ todo[j].do = "active" /\ todo[j].channel = c
                                     /\ Settled(todo, j)
        BY <2>1, <4>1 DEF Inv, Marked
      <4>3. j # 1
        BY <3>2, <4>2 DEF s
      <4> QED
        BY <1>1, <1>3, <4>2, <4>3, Later DEF s
    <3> QED
      BY <3>1, <3>2
  <2> QED
    BY <1>1, <1>7, <2>1 DEF Marked
<1>13. Announced'
  <2>1. ASSUME NEW c \in Channel \ failed, staged[c] # None, stagedFile'[c] # staged[c]
        PROVE  \E j \in DOMAIN todo' : todo'[j].do \in {"staged", "forget"} /\ todo'[j].channel = c
    <3>1. CASE s.do = "staged" /\ s.channel = c
      <4>1. s.version = staged[c]
        BY <1>1, <3>1 DEF Inv, Announced, s
      <4> QED
        BY <1>2, <2>1, <3>1, <4>1
    <3>2. CASE s.do = "unstage" /\ s.channel = c
      <4>1. PICK k \in DOMAIN todo : 1 < k /\ todo[k].do = "forget" /\ todo[k].channel = c
        BY <1>1, <3>2 DEF Inv, Announced, s
      <4> QED
        BY <1>1, <1>3, <4>1, Later DEF s
    <3>3. CASE s.channel # c \/ s.do \notin {"staged", "unstage"}
      <4>1. stagedFile[c] # staged[c]
        BY <1>2, <2>1, <3>3
      <4>2. PICK j \in DOMAIN todo : todo[j].do \in {"staged", "forget"} /\ todo[j].channel = c
        BY <2>1, <4>1 DEF Inv, Announced
      <4>3. j # 1
        BY <1>3, <3>3, <4>2 DEF s
      <4> QED
        BY <1>1, <1>3, <4>2, <4>3, Later DEF s
    <3> QED
      BY <3>1, <3>2, <3>3
  <2>2. /\ \A j \in DOMAIN todo' : todo'[j].do = "staged" =>
             /\ todo'[j].version = staged[todo'[j].channel]
             /\ \A i \in DOMAIN todo' : todo'[i].do # "forget"
        /\ \A j \in DOMAIN todo' : todo'[j].do = "unstage" =>
             \E k \in DOMAIN todo' : /\ j < k /\ todo'[k].do = "forget"
                                     /\ todo'[k].channel = todo'[j].channel
    BY <1>1, <1>3, AnnouncedKeeps DEF s
  <2> QED
    BY <1>1, <2>1, <2>2 DEF Announced
<1> QED
  BY <1>7, <1>8, <1>9, <1>10, <1>11, <1>12, <1>13 DEF Inv

LEMMA ForgetKeeps ==
  ASSUME UpdaterAssumption, Inv, todo # <<>>, todo[1].do = "forget", Forget(todo[1].channel)
  PROVE  Inv'
<1> DEFINE d == todo[1].channel
<1>1. /\ TypeOK /\ todo' = Tail(todo) /\ todo[1].do # "register" /\ d \in Channel
      /\ 1 \in DOMAIN todo /\ todo' \in Seq(Pending)
      /\ UNCHANGED <<selected, history, active, loaded, failed, faults>>
      /\ UNCHANGED <<stored, activeFile, rollbackFile, stagedFile>>
      /\ staged' = [staged EXCEPT ![d] = None]
  BY First, Popped DEF Inv, Forget, Pending, disk
<1>2. /\ StoredFirst' /\ HistoryStored' /\ Differing' /\ Fits' /\ OneChannel'
      /\ \A j \in DOMAIN todo' : todo'[j].do = "active" /\ Settled(todo', j) =>
           todo'[j].version = active'[todo'[j].channel]
      /\ \A i, j \in DOMAIN todo' :
           /\ i < j /\ todo'[i].do = "register" /\ todo'[j].do = "active"
           /\ \A k \in i + 1..j - 1 : todo'[k].do # "register"
           => todo'[i].channel = todo'[j].channel /\ todo'[i].version = todo'[j].version
  BY <1>1, PopKeeps
<1>3. staged' \in [Channel -> Maybe] /\ \A c \in Channel : staged'[c] = IF c = d THEN None ELSE staged[c]
  BY <1>1 DEF TypeOK, Maybe
<1> HIDE DEF d
<1>4. TypeOK'
  <2>1. \A f \in {activeFile', rollbackFile', stagedFile'} : f \in [Channel -> Maybe \cup {Torn}]
    BY <1>1 DEF TypeOK
  <2>2. todo' \in Seq([do : Steps, channel : Channel, version : Version])
    BY <1>1 DEF Pending
  <2> QED
    BY <1>1, <1>3, <2>1, <2>2 DEF TypeOK
<1>5. ActiveIsLast' /\ LoadedIsStored'
  BY <1>1 DEF Inv, ActiveIsLast, LoadedIsStored
<1>6. PointersResolve'
  BY <1>1 DEF Inv, PointersResolve
<1>7. Marked'
  <2>1. ASSUME NEW c \in Channel \ failed, active[c] # None, activeFile[c] # active[c]
        PROVE  \E j \in DOMAIN todo' : /\ todo'[j].do = "active" /\ todo'[j].channel = c
                                       /\ Settled(todo', j)
    <3>1. PICK j \in DOMAIN todo : /\ todo[j].do = "active" /\ todo[j].channel = c
                                   /\ Settled(todo, j)
      BY <2>1 DEF Inv, Marked
    <3> QED
      BY <1>1, <3>1, Later
  <2> QED
    BY <1>1, <1>2, <2>1 DEF Marked
<1>8. Announced'
  <2>1. ASSUME NEW c \in Channel \ failed, staged'[c] # None, stagedFile[c] # staged'[c]
        PROVE  \E j \in DOMAIN todo' : todo'[j].do \in {"staged", "forget"} /\ todo'[j].channel = c
    <3>1. c # d /\ staged'[c] = staged[c]
      BY <1>3, <2>1
    <3>2. PICK j \in DOMAIN todo : todo[j].do \in {"staged", "forget"} /\ todo[j].channel = c
      BY <2>1, <3>1 DEF Inv, Announced
    <3>3. j # 1
      BY <3>1, <3>2 DEF d
    <3> QED
      BY <1>1, <3>2, <3>3, Later
  <2>2. ASSUME NEW j \in DOMAIN todo' PROVE todo'[j].do # "staged"
    <3>1. j + 1 \in DOMAIN todo /\ todo'[j] = todo[j + 1]
      BY <1>1, <2>2, Shifted
    <3> QED
      BY <1>1, <3>1 DEF Inv, Announced
  <2>3. \A j \in DOMAIN todo' : todo'[j].do = "unstage" =>
             \E k \in DOMAIN todo' : /\ j < k /\ todo'[k].do = "forget"
                                     /\ todo'[k].channel = todo'[j].channel
    BY <1>1, AnnouncedKeeps
  <2> QED
    BY <1>1, <2>1, <2>2, <2>3 DEF Announced
<1> QED
  BY <1>2, <1>4, <1>5, <1>6, <1>7, <1>8 DEF Inv

(* Releases of a history are releases, and the active one is among them.   *)
LEMMA ActiveStored ==
  ASSUME UpdaterAssumption, TypeOK, ActiveIsLast, HistoryStored, NEW c \in Channel,
         active[c] # None
  PROVE  /\ active[c] \in Version /\ Len(history[c]) \in DOMAIN history[c]
         /\ active[c] = history[c][Len(history[c])]
         /\ c \notin failed => \/ <<c, active[c]>> \in stored
                               \/ todo # <<>> /\ Head(todo) = Step("store", c, active[c])
<1>1. /\ history[c] \in Seq(Version) /\ DOMAIN history[c] = 1..Len(history[c])
      /\ Len(history[c]) \in Nat
  BY Histories
<1>2. history[c] # <<>> /\ active[c] = Last(history[c])
  BY DEF ActiveIsLast
<1>3. Len(history[c]) \in DOMAIN history[c] /\ active[c] = history[c][Len(history[c])]
  BY <1>1, <1>2 DEF Last
<1> QED
  BY <1>1, <1>3 DEF HistoryStored

LEMMA ResolveKeeps ==
  ASSUME UpdaterAssumption, Inv, todo # <<>>, todo[1].do = "resolve", Resolve(todo[1].version)
  PROVE  Inv'
<1>1. /\ TypeOK /\ todo' = Tail(todo) /\ todo[1].do # "register" /\ todo[1] \in Pending
      /\ 1 \in DOMAIN todo /\ todo' \in Seq(Pending) /\ Head(todo) = todo[1]
      /\ UNCHANGED <<selected, history, active, staged, failed, faults>>
      /\ UNCHANGED <<stored, activeFile, rollbackFile, stagedFile>>
      /\ loaded' = IF active[selected] = None THEN todo[1].version ELSE active[selected]
  BY First, Popped DEF Inv, Resolve, disk
<1>2. /\ StoredFirst' /\ HistoryStored' /\ Differing' /\ Fits' /\ OneChannel'
      /\ \A j \in DOMAIN todo' : todo'[j].do = "active" /\ Settled(todo', j) =>
           todo'[j].version = active'[todo'[j].channel]
      /\ \A i, j \in DOMAIN todo' :
           /\ i < j /\ todo'[i].do = "register" /\ todo'[j].do = "active"
           /\ \A k \in i + 1..j - 1 : todo'[k].do # "register"
           => todo'[i].channel = todo'[j].channel /\ todo'[i].version = todo'[j].version
  BY <1>1, PopKeeps
<1>3. selected \in Channel /\ todo[1].version \in Version /\ todo[1].channel \in Channel
  BY <1>1 DEF TypeOK, Pending
<1>4. loaded' \in Version /\ (failed = {} => \E c \in Channel : <<c, loaded'>> \in stored)
  <2>1. CASE active[selected] = None
    <3>1. failed = {} => <<todo[1].channel, todo[1].version>> \in stored
      <4>1. todo[1].do \in Named
        BY DEF Named
      <4> QED
        BY <1>1, <4>1, First DEF Inv, StoredFirst
    <3> QED
      BY <1>1, <1>3, <2>1, <3>1
  <2>2. CASE active[selected] # None
    <3>1. active[selected] \in Version /\ (failed = {} => <<selected, active[selected]>> \in stored)
      BY <1>1, <1>3, <2>2, ActiveStored DEF Inv, Step
    <3> QED
      BY <1>1, <1>3, <2>2, <3>1
  <2> QED
    BY <2>1, <2>2
<1>5. TypeOK'
  <2>1. \A f \in {activeFile', rollbackFile', stagedFile'} : f \in [Channel -> Maybe \cup {Torn}]
    BY <1>1 DEF TypeOK
  <2>2. todo' \in Seq([do : Steps, channel : Channel, version : Version])
    BY <1>1 DEF Pending
  <2>3. loaded' \in Maybe
    BY <1>4 DEF Maybe
  <2> QED
    BY <1>1, <2>1, <2>2, <2>3 DEF TypeOK
<1>6. ActiveIsLast' /\ LoadedIsStored'
  BY <1>1, <1>4 DEF Inv, ActiveIsLast, LoadedIsStored
<1>7. PointersResolve'
  BY <1>1 DEF Inv, PointersResolve
<1>8. Marked'
  <2>1. ASSUME NEW c \in Channel \ failed, active[c] # None, activeFile[c] # active[c]
        PROVE  \E j \in DOMAIN todo' : /\ todo'[j].do = "active" /\ todo'[j].channel = c
                                       /\ Settled(todo', j)
    <3>1. PICK j \in DOMAIN todo : /\ todo[j].do = "active" /\ todo[j].channel = c
                                   /\ Settled(todo, j)
      BY <2>1 DEF Inv, Marked
    <3> QED
      BY <1>1, <3>1, Later
  <2> QED
    BY <1>1, <1>2, <2>1 DEF Marked
<1>9. Announced'
  <2>1. ASSUME NEW c \in Channel \ failed, staged[c] # None, stagedFile[c] # staged[c]
        PROVE  \E j \in DOMAIN todo' : todo'[j].do \in {"staged", "forget"} /\ todo'[j].channel = c
    <3>1. PICK j \in DOMAIN todo : todo[j].do \in {"staged", "forget"} /\ todo[j].channel = c
      BY <2>1 DEF Inv, Announced
    <3> QED
      BY <1>1, <3>1, Later
  <2>2. /\ \A j \in DOMAIN todo' : todo'[j].do = "staged" =>
             /\ todo'[j].version = staged[todo'[j].channel]
             /\ \A i \in DOMAIN todo' : todo'[i].do # "forget"
        /\ \A j \in DOMAIN todo' : todo'[j].do = "unstage" =>
             \E k \in DOMAIN todo' : /\ j < k /\ todo'[k].do = "forget"
                                     /\ todo'[k].channel = todo'[j].channel
    BY <1>1, AnnouncedKeeps
  <2> QED
    BY <1>1, <2>1, <2>2 DEF Announced
<1> QED
  BY <1>2, <1>5, <1>6, <1>7, <1>8, <1>9 DEF Inv

-----------------------------------------------------------------------------
(* A release is registered                                                 *)

LEMMA Joined ==
  ASSUME NEW S, NEW s \in Seq(S), NEW t \in Seq(S)
  PROVE  /\ s \o t \in Seq(S) /\ Len(s \o t) = Len(s) + Len(t)
         /\ \A i \in 1..Len(s) : (s \o t)[i] = s[i]
         /\ \A i \in Len(s) + 1..Len(s) + Len(t) : (s \o t)[i] = t[i - Len(s)]
OBVIOUS

LEMMA Element ==
  ASSUME NEW S, NEW s \in Seq(S), NEW j \in DOMAIN s
  PROVE  s[j] \in S
OBVIOUS

LEMMA Single ==
  ASSUME NEW S, NEW one \in S
  PROVE  <<one>> \in Seq(S) /\ Len(<<one>>) = 1 /\ <<one>>[1] = one
OBVIOUS

(* What todo becomes: the steps of the registration, then the others.      *)
LEMMA Registered ==
  ASSUME UpdaterAssumption, TypeOK, todo # <<>>, todo[1].do = "register",
         Register(todo[1].channel, todo[1].version), Fits
  PROVE  LET c == todo[1].channel
             v == todo[1].version
             r == Recorded(history[c], v)
             m == IF Previous(r) = None THEN 2 ELSE 3
         IN /\ c \in Channel /\ v \in Version /\ todo' \in Seq(Pending)
            /\ DOMAIN todo' = 1..(Len(todo) - 1) + m /\ DOMAIN todo = 1..Len(todo)
            /\ Len(todo) \in Nat \ {0}
            /\ todo'[1] = Step("store", c, v) /\ todo'[2] = Step("active", c, v)
            /\ m = 3 => todo'[3] = Step("rollback", c, Previous(r))
            /\ m = 3 => Len(r) > 1 /\ Previous(r) = r[Len(r) - 1]
            /\ \A j \in 2..Len(todo) : todo'[j + m - 1] = todo[j]
            /\ \A j \in DOMAIN todo' : j > m => j - m + 1 \in 2..Len(todo) /\ todo'[j] = todo[j - m + 1]
            /\ r \in Seq(Version) /\ Len(r) <= MaxHistory
            /\ history' = [history EXCEPT ![c] = r] /\ active' = [active EXCEPT ![c] = v]
<1> DEFINE c == todo[1].channel
           v == todo[1].version
           r == Recorded(history[c], v)
           m == IF Previous(r) = None THEN 2 ELSE 3
<1>1. /\ c \in Channel /\ v \in Version /\ Len(todo) \in Nat \ {0} /\ DOMAIN todo = 1..Len(todo)
      /\ Tail(todo) \in Seq(Pending) /\ Len(Tail(todo)) = Len(todo) - 1
      /\ \A j \in 1..Len(todo) - 1 : Tail(todo)[j] = todo[j + 1]
  BY Popped DEF Pending
<1>2. history[c] \in Seq(Version) /\ history \in [Channel -> BoundedSeq(Version, MaxHistory)]
  BY <1>1, Histories DEF TypeOK
<1>3. history' = [history EXCEPT ![c] = r] /\ active' = [active EXCEPT ![c] = v]
  BY DEF Register
<1>4. history'[c] = r
  BY <1>1, <1>2, <1>3
<1>5. r \in Seq(Version) /\ Len(r) <= MaxHistory /\ Len(r) \in Nat
  <2>1. r \in Seq(Version) /\ Len(r) \in Nat
    BY <1>1, <1>2, RecordedIs
  <2>2. 1 \in DOMAIN todo /\ Settled(todo, 1)
    BY First
  <2> QED
    BY <2>1, <2>2 DEF Fits
<1>6. Step("store", c, v) \in Pending /\ Step("active", c, v) \in Pending
  BY <1>1 DEF Step, Pending, Steps
<1> HIDE DEF r
<1>7. todo' = <<Step("store", c, v)>>
                \o (<<Step("active", c, v)>>
                      \o IF Previous(r) = None THEN <<>> ELSE <<Step("rollback", c, Previous(r))>>)
                \o Tail(todo)
  BY <1>4 DEF Register, Marks
<1>8. CASE Previous(r) = None
  <2> DEFINE one == Step("store", c, v)
             two == Step("active", c, v)
             t == Tail(todo)
             n == Len(todo)
  <2>1. m = 2 /\ todo' = <<one>> \o (<<two>> \o <<>>) \o t
    BY <1>7, <1>8
  <2>2. one \in Pending /\ two \in Pending /\ t \in Seq(Pending) /\ Len(t) = n - 1 /\ n \in Nat \ {0}
        /\ \A j \in 1..n - 1 : t[j] = todo[j + 1]
    BY <1>1, <1>6
  <2> HIDE DEF one, two, t, n, Pending
  <2> DEFINE w == <<two>> \o <<>>
             u == <<one>> \o w
  <2>10. w \in Seq(Pending) /\ Len(w) = 1 /\ w[1] = two
    BY <2>2
  <2> HIDE DEF w
  <2>11. u \in Seq(Pending) /\ Len(u) = 2 /\ u[1] = one /\ u[2] = two
    <3>1. <<one>> \in Seq(Pending) /\ Len(<<one>>) = 1 /\ <<one>>[1] = one
      BY <2>2, Single
    <3>2. /\ u \in Seq(Pending) /\ Len(u) = 1 + 1 /\ \A i \in 1..1 : u[i] = <<one>>[i]
          /\ \A i \in 1 + 1..1 + 1 : u[i] = w[i - 1]
      BY <2>10, <3>1, Joined
    <3> QED
      BY <2>10, <3>1, <3>2
  <2>3. todo' = u \o t
    BY <2>1 DEF u, w
  <2> HIDE DEF u
  <2>12. /\ u \o t \in Seq(Pending) /\ Len(u \o t) = Len(u) + Len(t)
         /\ \A i \in 1..Len(u) : (u \o t)[i] = u[i]
         /\ \A i \in Len(u) + 1..Len(u) + Len(t) : (u \o t)[i] = t[i - Len(u)]
    BY <2>2, <2>11, Joined
  <2>4. /\ todo' \in Seq(Pending) /\ Len(todo') = (n - 1) + 2 /\ todo'[1] = one /\ todo'[2] = two
        /\ \A j \in 3..(n - 1) + 2 : todo'[j] = t[j - 2]
    BY <2>2, <2>3, <2>11, <2>12
  <2>5. DOMAIN todo' = 1..(n - 1) + 2
    BY <2>2, <2>4
  <2>6. ASSUME NEW j \in 2..n PROVE todo'[j + 2 - 1] = todo[j]
    <3>1. j + 1 \in 3..(n - 1) + 2 /\ (j + 1) - 2 = j - 1 /\ j - 1 \in 1..n - 1 /\ (j - 1) + 1 = j
          /\ j + 2 - 1 = j + 1
      BY <2>2
    <3> QED
      BY <2>2, <2>4, <3>1
  <2>7. ASSUME NEW j \in 1..(n - 1) + 2, j > 2
        PROVE  j - 2 + 1 \in 2..n /\ todo'[j] = todo[j - 2 + 1]
    <3>1. j - 2 + 1 \in 2..n /\ (j - 2 + 1) + 2 - 1 = j
      BY <2>2, <2>7
    <3> QED
      BY <2>6, <3>1
  <2> QED
    BY <1>1, <1>3, <1>5, <2>1, <2>4, <2>5, <2>6, <2>7 DEF one, two, n, r
<1>9. CASE Previous(r) # None
  <2> DEFINE one == Step("store", c, v)
             two == Step("active", c, v)
             d == Step("rollback", c, Previous(r))
             t == Tail(todo)
             n == Len(todo)
  <2>1. m = 3 /\ todo' = <<one>> \o (<<two>> \o <<d>>) \o t
    BY <1>7, <1>9
  <2>8. Len(r) > 1 /\ Previous(r) = r[Len(r) - 1]
    BY <1>9 DEF Previous
  <2>9. Previous(r) \in Version
    BY <1>5, <2>8
  <2>2. one \in Pending /\ two \in Pending /\ d \in Pending
        /\ t \in Seq(Pending) /\ Len(t) = n - 1 /\ n \in Nat \ {0}
        /\ \A j \in 1..n - 1 : t[j] = todo[j + 1]
    BY <1>1, <1>6, <2>9 DEF Step, Pending, Steps
  <2> HIDE DEF one, two, d, t, n, Pending
  <2> DEFINE w == <<two>> \o <<d>>
             u == <<one>> \o w
  <2>10. w \in Seq(Pending) /\ Len(w) = 2 /\ w[1] = two /\ w[2] = d
    BY <2>2
  <2> HIDE DEF w
  <2>11. u \in Seq(Pending) /\ Len(u) = 3 /\ u[1] = one /\ u[2] = two /\ u[3] = d
    <3>1. <<one>> \in Seq(Pending) /\ Len(<<one>>) = 1 /\ <<one>>[1] = one
      BY <2>2, Single
    <3> QED
      BY <2>10, <3>1, Joined
  <2>3. todo' = u \o t
    BY <2>1 DEF u, w
  <2> HIDE DEF u
  <2>12. /\ u \o t \in Seq(Pending) /\ Len(u \o t) = Len(u) + Len(t)
         /\ \A i \in 1..Len(u) : (u \o t)[i] = u[i]
         /\ \A i \in Len(u) + 1..Len(u) + Len(t) : (u \o t)[i] = t[i - Len(u)]
    BY <2>2, <2>11, Joined
  <2>4. /\ todo' \in Seq(Pending) /\ Len(todo') = (n - 1) + 3 /\ todo'[1] = one /\ todo'[2] = two
        /\ todo'[3] = d /\ \A j \in 4..(n - 1) + 3 : todo'[j] = t[j - 3]
    BY <2>2, <2>3, <2>11, <2>12
  <2>5. DOMAIN todo' = 1..(n - 1) + 3
    BY <2>2, <2>4
  <2>6. ASSUME NEW j \in 2..n PROVE todo'[j + 3 - 1] = todo[j]
    <3>1. j + 2 \in 4..(n - 1) + 3 /\ (j + 2) - 3 = j - 1 /\ j - 1 \in 1..n - 1 /\ (j - 1) + 1 = j
          /\ j + 3 - 1 = j + 2
      BY <2>2
    <3> QED
      BY <2>2, <2>4, <3>1
  <2>7. ASSUME NEW j \in 1..(n - 1) + 3, j > 3
        PROVE  j - 3 + 1 \in 2..n /\ todo'[j] = todo[j - 3 + 1]
    <3>1. j - 3 + 1 \in 2..n /\ (j - 3 + 1) + 3 - 1 = j
      BY <2>2, <2>7
    <3> QED
      BY <2>6, <3>1
  <2> QED
    BY <1>1, <1>3, <1>5, <2>1, <2>4, <2>5, <2>6, <2>7, <2>8 DEF one, two, d, n, r
<1> QED
  BY <1>8, <1>9

LEMMA RegisterKeeps ==
  ASSUME UpdaterAssumption, Inv, todo # <<>>, todo[1].do = "register",
         Register(todo[1].channel, todo[1].version)
  PROVE  Inv'
<1> DEFINE c == todo[1].channel
           v == todo[1].version
           h == history[c]
           r == Recorded(h, v)
           p == Previous(r)
           m == IF p = None THEN 2 ELSE 3
           n == Len(todo)
<1>1. /\ c \in Channel /\ v \in Version /\ todo' \in Seq(Pending)
      /\ DOMAIN todo' = 1..(n - 1) + m /\ DOMAIN todo = 1..n /\ n \in Nat \ {0}
      /\ todo'[1] = Step("store", c, v) /\ todo'[2] = Step("active", c, v)
      /\ m = 3 => todo'[3] = Step("rollback", c, p)
      /\ m = 3 => Len(r) > 1 /\ p = r[Len(r) - 1]
      /\ \A j \in 2..n : todo'[j + m - 1] = todo[j]
      /\ \A j \in DOMAIN todo' : j > m => j - m + 1 \in 2..n /\ todo'[j] = todo[j - m + 1]
      /\ r \in Seq(Version) /\ Len(r) <= MaxHistory
      /\ history' = [history EXCEPT ![c] = r] /\ active' = [active EXCEPT ![c] = v]
  BY Registered DEF Inv
<1>2. /\ TypeOK /\ UNCHANGED <<selected, staged, loaded, failed, faults>>
      /\ UNCHANGED <<stored, activeFile, rollbackFile, stagedFile>>
  BY DEF Register, disk, Inv
<1>3. /\ h \in Seq(Version) /\ DOMAIN h = 1..Len(h) /\ Len(h) \in Nat
      /\ history \in [Channel -> BoundedSeq(Version, MaxHistory)] /\ active \in [Channel -> Maybe]
  BY <1>1, <1>2, Histories DEF TypeOK
<1>4. /\ r # <<>> /\ Last(r) = v /\ Len(r) \in {Len(h), Len(h) + 1} /\ Len(r) \in Nat \ {0}
      /\ \A i \in DOMAIN h : r[i] = h[i]
      /\ \A i \in DOMAIN r : i \in DOMAIN h \/ r[i] = v
      /\ (\A i \in 1..Len(h) - 1 : h[i] # h[i + 1]) => \A i \in 1..Len(r) - 1 : r[i] # r[i + 1]
  <2>1. v \in Version /\ h \in Seq(Version)
    BY <1>1, <1>3
  <2> HIDE DEF h, v
  <2> QED
    BY <2>1, RecordedIs
<1>5. /\ todo[1].do = "register" /\ todo[1].channel = c /\ todo[1].version = v
      /\ 1 \in DOMAIN todo /\ Settled(todo, 1) /\ Head(todo) = todo[1]
  BY <1>2, First
<1>6. m \in {2, 3}
  OBVIOUS
<1>7. \A d \in Channel : /\ history'[d] = IF d = c THEN r ELSE history[d]
                         /\ active'[d] = IF d = c THEN v ELSE active[d]
  BY <1>1, <1>3
<1> HIDE DEF c, v, h, r, p, m, n
<1>8. \A j \in DOMAIN todo : todo[j].channel = c
  BY <1>5 DEF Inv, OneChannel
<1>9. ASSUME NEW d \in Channel \ failed, NEW i \in DOMAIN history[d]
      PROVE  <<d, history[d][i]>> \in stored
  BY <1>5 DEF Inv, HistoryStored, Step
<1>10. TypeOK'
  <2>1. \A f \in {activeFile', rollbackFile', stagedFile'} : f \in [Channel -> Maybe \cup {Torn}]
    BY <1>2 DEF TypeOK
  <2>2. todo' \in Seq([do : Steps, channel : Channel, version : Version])
    BY <1>1 DEF Pending
  <2>3. r \in BoundedSeq(Version, MaxHistory)
    BY <1>1, Bounded DEF UpdaterAssumption
  <2>4. history' \in [Channel -> BoundedSeq(Version, MaxHistory)] /\ active' \in [Channel -> Maybe]
    BY <1>1, <1>3, <2>3 DEF Maybe
  <2> QED
    BY <1>2, <2>1, <2>2, <2>4 DEF TypeOK
<1>11. ActiveIsLast'
  BY <1>4, <1>7 DEF Inv, ActiveIsLast
<1>12. PointersResolve' /\ LoadedIsStored'
  BY <1>2 DEF Inv, PointersResolve, LoadedIsStored
<1>13. StoredFirst'
  <2>1. SUFFICES ASSUME NEW j \in DOMAIN todo', todo'[j].do \in Named, todo'[j].channel \notin failed,
                        <<todo'[j].channel, todo'[j].version>> \notin stored
                 PROVE  Provided(todo', j)
    BY <1>2 DEF StoredFirst
  <2>2. j \in Int /\ j >= 1
    BY <1>1, <1>6
  <2>3. todo'[1].do = "store" /\ todo'[1].channel = c /\ todo'[1].version = v
    BY <1>1 DEF Step
  <2>4. CASE j > 1 /\ todo'[j].channel = c /\ todo'[j].version = v
    BY <2>2, <2>3, <2>4 DEF Provided
  <2>5. CASE j <= m
    <3>1. j # 1
      BY <2>1, <2>3 DEF Named
    <3>2. CASE j = 2
      BY <1>1, <2>4, <3>2 DEF Step
    <3>3. CASE j = 3 /\ m = 3
      <4>1. todo'[3].channel = c /\ todo'[3].version = r[Len(r) - 1] /\ Len(r) > 1
        BY <1>1, <3>3 DEF Step
      <4>2. Len(r) - 1 \in DOMAIN r
        BY <1>1, <4>1
      <4>3. CASE r[Len(r) - 1] = v
        BY <2>4, <3>3, <4>1, <4>3
      <4>4. CASE Len(r) - 1 \in DOMAIN h
        <5>1. r[Len(r) - 1] = history[c][Len(r) - 1] /\ Len(r) - 1 \in DOMAIN history[c]
          BY <1>4, <4>4 DEF h
        <5> QED
          BY <1>1, <1>9, <2>1, <3>3, <4>1, <5>1
      <4> QED
        BY <1>4, <4>2, <4>3, <4>4
    <3> QED
      BY <1>6, <2>2, <2>5, <3>1, <3>2, <3>3
  <2>6. CASE j > m
    <3> DEFINE q == j - m + 1
    <3>1. q \in 2..n /\ todo'[j] = todo[q] /\ q \in DOMAIN todo /\ q \in Int /\ q = j - m + 1
      BY <1>1, <2>6
    <3> HIDE DEF q
    <3>2. Provided(todo, q)
      BY <1>2, <2>1, <3>1 DEF Inv, StoredFirst
    <3>3. PICK i \in 1..q - 1 :
            /\ todo[i].do \in {"store", "register"}
            /\ todo[i].channel = todo[q].channel /\ todo[i].version = todo[q].version
      BY <3>2 DEF Provided
    <3>4. CASE i = 1
      BY <1>5, <1>6, <2>2, <2>4, <2>6, <3>1, <3>3, <3>4
    <3>5. CASE i # 1
      <4>1. i \in 2..n /\ i + m - 1 \in 1..j - 1
        BY <1>1, <1>6, <2>2, <3>1, <3>3, <3>5
      <4>2. todo'[i + m - 1] = todo[i]
        BY <1>1, <4>1
      <4> QED
        BY <3>1, <3>3, <4>1, <4>2 DEF Provided
    <3> QED
      BY <3>4, <3>5
  <2> QED
    BY <1>6, <2>2, <2>5, <2>6
<1>14. HistoryStored'
  <2>1. SUFFICES ASSUME NEW d \in Channel \ failed, NEW i \in DOMAIN history'[d]
                 PROVE  \/ <<d, history'[d][i]>> \in stored
                        \/ todo' # <<>> /\ Head(todo') = Step("store", d, history'[d][i])
    BY <1>2 DEF HistoryStored
  <2>2. todo' # <<>> /\ Head(todo') = Step("store", c, v)
    BY <1>1, <1>6
  <2>3. CASE d # c
    BY <1>7, <1>9, <2>1, <2>3
  <2>4. CASE d = c
    <3>1. history'[d] = r /\ i \in DOMAIN r
      BY <1>7, <2>1, <2>4
    <3>2. CASE r[i] = v
      BY <2>2, <2>4, <3>1, <3>2
    <3>3. CASE i \in DOMAIN h
      <4>1. r[i] = history[d][i] /\ i \in DOMAIN history[d]
        BY <1>4, <2>4, <3>3 DEF h
      <4> QED
        BY <1>9, <2>1, <3>1, <4>1
    <3> QED
      BY <1>4, <3>1, <3>2, <3>3
  <2> QED
    BY <2>3, <2>4
<1>15. Differing'
  <2>1. \A i \in 1..Len(r) - 1 : r[i] # r[i + 1]
    BY <1>1, <1>4 DEF Inv, Differing, h
  <2> QED
    BY <1>7, <2>1 DEF Inv, Differing
<1>16. Marked'
  <2>1. ASSUME NEW j \in DOMAIN todo', todo'[j].do = "active", Settled(todo', j)
        PROVE  todo'[j].version = active'[todo'[j].channel]
    <3>1. CASE j <= m
      BY <1>1, <1>6, <1>7, <2>1, <3>1 DEF Step
    <3>2. CASE j > m
      <4> DEFINE q == j - m + 1
      <4>1. q \in 2..n /\ todo'[j] = todo[q] /\ q \in DOMAIN todo /\ q = j - m + 1
        BY <1>1, <3>2
      <4> HIDE DEF q
      <4>2. ASSUME NEW k \in 1 + 1..q - 1 PROVE todo[k].do # "register"
        <5>1. k \in 2..n /\ k + m - 1 \in 1..j - 1
          BY <1>1, <1>6, <3>2, <4>1, <4>2
        <5>2. todo'[k + m - 1] = todo[k]
          BY <1>1, <5>1
        <5> QED
          BY <2>1, <5>1, <5>2 DEF Settled
      <4>3. \A k \in 1 + 1..q - 1 : todo[k].do # "register"
        BY <4>2
      <4>4. 1 < q /\ todo[q].do = "active"
        BY <2>1, <4>1
      <4>5. Marked
        BY DEF Inv
      <4>6. todo[1].channel = todo[q].channel /\ todo[1].version = todo[q].version
        BY <1>5, <4>1, <4>3, <4>4, <4>5 DEF Marked
      <4> QED
        BY <1>1, <1>5, <1>7, <4>1, <4>6
    <3> QED
      BY <1>1, <1>6, <3>1, <3>2
  <2>2. ASSUME NEW i \in DOMAIN todo', NEW j \in DOMAIN todo', i < j,
               todo'[i].do = "register", todo'[j].do = "active",
               \A k \in i + 1..j - 1 : todo'[k].do # "register"
        PROVE  todo'[i].channel = todo'[j].channel /\ todo'[i].version = todo'[j].version
    <3>1. i > m
      BY <1>1, <1>6, <2>2 DEF Step
    <3> DEFINE one == i - m + 1
               two == j - m + 1
    <3>2. /\ one \in 2..n /\ two \in 2..n /\ one < two /\ todo'[i] = todo[one] /\ todo'[j] = todo[two]
          /\ one \in DOMAIN todo /\ two \in DOMAIN todo /\ one = i - m + 1 /\ two = j - m + 1
      BY <1>1, <1>6, <2>2, <3>1
    <3> HIDE DEF one, two
    <3>3. ASSUME NEW k \in one + 1..two - 1 PROVE todo[k].do # "register"
      <4>1. k \in 2..n /\ k + m - 1 \in i + 1..j - 1
        <5>1. i \in Int /\ j \in Int /\ n \in Int /\ one \in Int /\ two \in Int /\ k \in Int
          BY <1>1, <1>6, <2>2, <3>2, <3>3
        <5>2. i = one + m - 1 /\ j = two + m - 1 /\ 2 <= one /\ two <= n /\ one + 1 <= k /\ k <= two - 1
          <6>1. m \in Int
            BY <1>6
          <6>4. one = i - m + 1 /\ two = j - m + 1
            BY <3>2
          <6>2. i = one + m - 1 /\ j = two + m - 1
            BY <5>1, <6>1, <6>4
          <6>3. 2 <= one /\ two <= n /\ one + 1 <= k /\ k <= two - 1
            BY <3>2, <3>3, <5>1
          <6> QED
            BY <6>2, <6>3
        <5> QED
          BY <1>6, <5>1, <5>2
      <4>2. todo'[k + m - 1] = todo[k]
        BY <1>1, <4>1
      <4> QED
        BY <2>2, <4>1, <4>2
    <3>4. Marked /\ todo[one].do = "register" /\ todo[two].do = "active"
      BY <2>2, <3>2 DEF Inv
    <3>5. \A k \in one + 1..two - 1 : todo[k].do # "register"
      BY <3>3
    <3>6. todo[one].channel = todo[two].channel /\ todo[one].version = todo[two].version
      BY <3>2, <3>4, <3>5 DEF Marked
    <3> QED
      BY <3>2, <3>6
  <2>3. ASSUME NEW d \in Channel \ failed, active'[d] # None, activeFile[d] # active'[d]
        PROVE  \E j \in DOMAIN todo' : /\ todo'[j].do = "active" /\ todo'[j].channel = d
                                       /\ Settled(todo', j)
    <3>1. d = c
      <4>1. SUFFICES ASSUME d # c PROVE FALSE
        OBVIOUS
      <4>2. active[d] # None /\ activeFile[d] # active[d]
        BY <1>7, <2>3, <4>1
      <4>3. PICK j \in DOMAIN todo : todo[j].channel = d
        BY <2>3, <4>2 DEF Inv, Marked
      <4> QED
        BY <1>8, <4>1, <4>3
    <3>2. 2 \in DOMAIN todo' /\ todo'[2].do = "active" /\ todo'[2].channel = c
      BY <1>1, <1>6 DEF Step
    <3>3. Settled(todo', 2)
      <4>1. todo'[1].do = "store"
        BY <1>1 DEF Step
      <4> QED
        BY <4>1 DEF Settled
    <3> QED
      BY <3>1, <3>2, <3>3
  <2> QED
    BY <1>2, <2>1, <2>2, <2>3 DEF Marked
<1>17. Announced'
  <2>1. ASSUME NEW j \in DOMAIN todo', todo'[j].do = "staged"
        PROVE  /\ todo'[j].version = staged[todo'[j].channel]
               /\ \A i \in DOMAIN todo' : todo'[i].do # "forget"
    <3>1. j > m
      BY <1>1, <1>6, <2>1 DEF Step
    <3>2. j - m + 1 \in DOMAIN todo /\ todo'[j] = todo[j - m + 1]
      BY <1>1, <3>1
    <3>3. /\ todo'[j].version = staged[todo'[j].channel]
          /\ \A i \in DOMAIN todo : todo[i].do # "forget"
      BY <2>1, <3>2 DEF Inv, Announced
    <3>4. ASSUME NEW i \in DOMAIN todo', todo'[i].do = "forget" PROVE FALSE
      <4>1. i > m
        BY <1>1, <1>6, <3>4 DEF Step
      <4>2. i - m + 1 \in DOMAIN todo /\ todo'[i] = todo[i - m + 1]
        BY <1>1, <4>1
      <4> QED
        BY <3>3, <3>4, <4>2
    <3> QED
      BY <3>3, <3>4
  <2>2. ASSUME NEW j \in DOMAIN todo', todo'[j].do = "unstage"
        PROVE  \E k \in DOMAIN todo' : /\ j < k /\ todo'[k].do = "forget"
                                       /\ todo'[k].channel = todo'[j].channel
    <3>1. j > m
      BY <1>1, <1>6, <2>2 DEF Step
    <3>2. j - m + 1 \in DOMAIN todo /\ todo'[j] = todo[j - m + 1]
      BY <1>1, <3>1
    <3>3. PICK k \in DOMAIN todo : /\ j - m + 1 < k /\ todo[k].do = "forget"
                                   /\ todo[k].channel = todo'[j].channel
      BY <2>2, <3>2 DEF Inv, Announced
    <3>4. k \in 2..n /\ k + m - 1 \in DOMAIN todo' /\ j < k + m - 1
      BY <1>1, <1>6, <3>1, <3>3
    <3>5. todo'[k + m - 1] = todo[k]
      BY <1>1, <3>4
    <3> QED
      BY <3>3, <3>4, <3>5
  <2>3. ASSUME NEW d \in Channel \ failed, staged[d] # None, stagedFile[d] # staged[d]
        PROVE  \E j \in DOMAIN todo' : todo'[j].do \in {"staged", "forget"} /\ todo'[j].channel = d
    <3>1. PICK j \in DOMAIN todo : todo[j].do \in {"staged", "forget"} /\ todo[j].channel = d
      BY <2>3 DEF Inv, Announced
    <3>2. j # 1
      BY <1>5, <3>1
    <3>3. j \in 2..n /\ j + m - 1 \in DOMAIN todo'
      BY <1>1, <1>6, <3>1, <3>2
    <3>4. todo'[j + m - 1] = todo[j]
      BY <1>1, <3>3
    <3> QED
      BY <3>1, <3>3, <3>4
  <2> QED
    BY <1>2, <2>1, <2>2, <2>3 DEF Announced
<1>18. Fits'
  <2>1. ASSUME NEW j \in DOMAIN todo', todo'[j].do = "register"
        PROVE  /\ j > m /\ j - m + 1 \in 2..n /\ todo'[j] = todo[j - m + 1]
               /\ todo'[j].channel = c /\ Len(h) + 2 <= MaxHistory
               /\ \A k \in DOMAIN todo : j - m + 1 < k => todo[k].do # "register"
    <3>1. j > m
      BY <1>1, <1>6, <2>1 DEF Step
    <3>2. j - m + 1 \in 2..n /\ todo'[j] = todo[j - m + 1]
      BY <1>1, <3>1
    <3>3. j - m + 1 \in DOMAIN todo /\ 1 < j - m + 1 /\ todo[j - m + 1].do = "register"
      BY <1>1, <2>1, <3>2
    <3>4. /\ todo[1].channel = todo[j - m + 1].channel /\ Len(history[todo[1].channel]) + 2 <= MaxHistory
          /\ \A k \in DOMAIN todo : j - m + 1 < k => todo[k].do # "register"
      BY <1>5, <3>3 DEF Inv, Fits
    <3> QED
      BY <1>5, <3>1, <3>2, <3>4 DEF h
  <2>2. ASSUME NEW j \in DOMAIN todo', todo'[j].do = "register"
        PROVE  Len(Recorded(history'[todo'[j].channel], todo'[j].version)) <= MaxHistory
    <3>1. todo'[j].channel = c /\ Len(h) + 2 <= MaxHistory /\ todo'[j].version \in Version
      <4>1. todo'[j] \in Pending
        BY <1>1, <2>2, Element
      <4> QED
        BY <2>1, <2>2, <4>1 DEF Pending
    <3>2. history'[c] = r
      BY <1>1, <1>7
    <3>3. Len(Recorded(r, todo'[j].version)) \in {Len(r), Len(r) + 1}
      BY <1>1, <3>1, RecordedIs
    <3> QED
      BY <1>3, <1>4, <3>1, <3>2, <3>3 DEF UpdaterAssumption
  <2>3. ASSUME NEW i \in DOMAIN todo', NEW j \in DOMAIN todo', i < j,
               todo'[i].do = "register", todo'[j].do = "register"
        PROVE  FALSE
    <3>1. /\ j - m + 1 \in 2..n /\ todo'[j] = todo[j - m + 1]
          /\ \A k \in DOMAIN todo : i - m + 1 < k => todo[k].do # "register"
      BY <2>1, <2>3
    <3>2. j - m + 1 \in DOMAIN todo /\ i - m + 1 < j - m + 1
      BY <1>1, <1>6, <2>3, <3>1
    <3> QED
      BY <2>3, <3>1, <3>2
  <2> QED
    BY <2>2, <2>3 DEF Fits
<1>19. OneChannel'
  <2>1. ASSUME NEW j \in DOMAIN todo' PROVE todo'[j].channel = c
    <3>1. CASE j <= m
      BY <1>1, <1>6, <2>1, <3>1 DEF Step
    <3>2. CASE j > m
      BY <1>1, <1>8, <2>1, <3>2
    <3> QED
      BY <1>1, <1>6, <3>1, <3>2
  <2> QED
    BY <2>1 DEF OneChannel
<1> QED
  BY <1>10, <1>11, <1>12, <1>13, <1>14, <1>15, <1>16, <1>17, <1>18, <1>19 DEF Inv

-----------------------------------------------------------------------------
(* Operations begin when nothing is left to do                             *)

LEMMA Idle ==
  ASSUME UpdaterAssumption, Inv, todo = <<>>, NEW c \in Channel \ failed
  PROVE  /\ \A i \in DOMAIN history[c] : <<c, history[c][i]>> \in stored
         /\ active[c] # None => activeFile[c] = active[c] /\ <<c, active[c]>> \in stored
         /\ staged[c] # None => stagedFile[c] = staged[c]
<1>1. DOMAIN todo = {}
  OBVIOUS
<1>2. \A i \in DOMAIN history[c] : <<c, history[c][i]>> \in stored
  BY DEF Inv, HistoryStored
<1>3. active[c] # None => activeFile[c] = active[c]
  BY <1>1 DEF Inv, Marked
<1>4. active[c] # None => <<c, active[c]>> \in stored
  BY ActiveStored DEF Inv
<1>5. staged[c] # None => stagedFile[c] = staged[c]
  BY <1>1 DEF Inv, Announced
<1> QED
  BY <1>2, <1>3, <1>4, <1>5

LEMMA Begun ==
  ASSUME UpdaterAssumption, Inv, todo = <<>>, TypeOK', loaded' = None,
         UNCHANGED <<history, active, failed>>, UNCHANGED <<stored, activeFile, rollbackFile, stagedFile>>,
         StoredFirst', Fits', OneChannel', Announced',
         \A j \in DOMAIN todo' : todo'[j].do # "active" \/ ~Settled(todo', j),
         \A i, j \in DOMAIN todo' :
           /\ i < j /\ todo'[i].do = "register" /\ todo'[j].do = "active"
           /\ \A k \in i + 1..j - 1 : todo'[k].do # "register"
           => todo'[i].channel = todo'[j].channel /\ todo'[i].version = todo'[j].version
  PROVE  Inv'
<1>1. HistoryStored'
  BY Idle DEF HistoryStored
<1>2. Marked'
  <2>1. \A c \in Channel \ failed : active[c] # None => activeFile[c] = active[c]
    BY Idle
  <2> QED
    BY <2>1 DEF Marked
<1>3. ActiveIsLast' /\ LoadedIsStored' /\ Differing'
  BY DEF Inv, ActiveIsLast, LoadedIsStored, Differing
<1>4. PointersResolve'
  BY DEF Inv, PointersResolve
<1> QED
  BY <1>1, <1>2, <1>3, <1>4 DEF Inv

LEMMA SetChannelKeeps ==
  ASSUME UpdaterAssumption, Inv, NEW c \in Channel, SetChannel(c)
  PROVE  Inv'
<1>1. /\ todo = <<>> /\ todo' = <<>> /\ loaded' = None /\ selected' = c
      /\ UNCHANGED <<history, active, staged, failed, faults>>
      /\ UNCHANGED <<stored, activeFile, rollbackFile, stagedFile>>
  BY DEF SetChannel, disk
<1>2. DOMAIN todo' = {}
  BY <1>1
<1>3. TypeOK'
  BY <1>1 DEF Inv, TypeOK, Maybe
<1>4. StoredFirst' /\ Fits' /\ OneChannel'
  BY <1>2 DEF StoredFirst, Fits, OneChannel
<1>5. Announced'
  <2>1. \A d \in Channel \ failed : staged[d] # None => stagedFile[d] = staged[d]
    BY <1>1, Idle
  <2> QED
    BY <1>1, <1>2, <2>1 DEF Announced
<1> QED
  BY <1>1, <1>2, <1>3, <1>4, <1>5, Begun

LEMMA StageKeeps ==
  ASSUME UpdaterAssumption, Inv, NEW c \in Channel, NEW v \in Version, Stage(c, v)
  PROVE  Inv'
<1> DEFINE one == Step("store", c, v)
           two == Step("staged", c, v)
<1>1. /\ todo = <<>> /\ todo' = <<one, two>> /\ loaded' = None /\ staged' = [staged EXCEPT ![c] = v]
      /\ UNCHANGED <<selected, history, active, failed, faults>>
      /\ UNCHANGED <<stored, activeFile, rollbackFile, stagedFile>>
  BY DEF Stage, disk
<1>2. one \in Pending /\ two \in Pending
  BY DEF Step, Pending, Steps
<1>3. /\ one.do = "store" /\ one.channel = c /\ one.version = v
      /\ two.do = "staged" /\ two.channel = c /\ two.version = v
  BY DEF Step
<1>4. staged' \in [Channel -> Maybe] /\ \A d \in Channel : staged'[d] = IF d = c THEN v ELSE staged[d]
  BY <1>1 DEF Inv, TypeOK, Maybe
<1> HIDE DEF one, two
<1>5. DOMAIN todo' = {1, 2} /\ todo'[1] = one /\ todo'[2] = two
  BY <1>1
<1>6. TypeOK'
  <2>1. todo' \in Seq(Pending)
    BY <1>1, <1>2
  <2>2. \A f \in {activeFile', rollbackFile', stagedFile'} : f \in [Channel -> Maybe \cup {Torn}]
    BY <1>1 DEF Inv, TypeOK
  <2>3. todo' \in Seq([do : Steps, channel : Channel, version : Version])
    BY <2>1 DEF Pending
  <2>4. loaded' \in Maybe
    BY <1>1 DEF Maybe
  <2> QED
    BY <1>1, <1>4, <2>2, <2>3, <2>4 DEF Inv, TypeOK
<1>7. OneChannel'
  BY <1>3, <1>5 DEF OneChannel
<1>8. StoredFirst'
  <2>1. Provided(todo', 2)
    BY <1>3, <1>5 DEF Provided
  <2> QED
    BY <1>3, <1>5, <2>1 DEF StoredFirst, Named
<1>9. \A j \in DOMAIN todo' : todo'[j].do \in {"store", "staged"}
  BY <1>3, <1>5
<1>10. Fits'
  BY <1>9 DEF Fits
<1>11. Announced'
  <2>1. ASSUME NEW d \in Channel \ failed, staged'[d] # None, stagedFile[d] # staged'[d]
        PROVE  d = c
    BY <1>1, <1>4, <2>1, Idle
  <2> QED
    BY <1>1, <1>3, <1>4, <1>5, <2>1 DEF Announced
<1> QED
  BY <1>1, <1>6, <1>7, <1>8, <1>9, <1>10, <1>11, Begun

LEMMA NothingFirst ==
  ASSUME NEW S, NEW s \in Seq(S)
  PROVE  <<>> \o s = s
OBVIOUS

LEMMA Pair ==
  ASSUME NEW S, NEW one \in S, NEW two \in S
  PROVE  /\ <<one>> \o <<two>> \in Seq(S) /\ DOMAIN (<<one>> \o <<two>>) = 1..2
         /\ (<<one>> \o <<two>>)[1] = one /\ (<<one>> \o <<two>>)[2] = two
<1> DEFINE s == <<one>>
           t == <<two>>
           u == s \o t
<1>1. s \in Seq(S) /\ Len(s) = 1 /\ s[1] = one /\ t \in Seq(S) /\ Len(t) = 1 /\ t[1] = two
  BY Single
<1> HIDE DEF s, t
<1>2. /\ u \in Seq(S) /\ Len(u) = 1 + 1 /\ \A i \in 1..1 : u[i] = s[i]
      /\ \A i \in 1 + 1..1 + 1 : u[i] = t[i - 1]
  <2>1. /\ u \in Seq(S) /\ Len(u) = Len(s) + Len(t) /\ \A i \in 1..Len(s) : u[i] = s[i]
        /\ \A i \in Len(s) + 1..Len(s) + Len(t) : u[i] = t[i - Len(s)]
    BY <1>1, Joined
  <2> QED
    BY <1>1, <2>1
<1> HIDE DEF u
<1>3. u[1] = one /\ u[2] = two /\ DOMAIN u = 1..2
  BY <1>1, <1>2
<1> QED
  BY <1>2, <1>3 DEF u, s, t

LEMMA LoadKeeps ==
  ASSUME UpdaterAssumption, Inv, NEW v \in Version, Load(v)
  PROVE  Inv'
<1> DEFINE one == Step("register", Stable, v)
           two == Step("resolve", Stable, v)
<1>1. /\ todo = <<>> /\ loaded' = None /\ Len(Recorded(history[Stable], v)) <= MaxHistory
      /\ UNCHANGED <<selected, history, active, staged, failed, faults>>
      /\ UNCHANGED <<stored, activeFile, rollbackFile, stagedFile>>
      /\ todo' = (IF \E i \in DOMAIN history[Stable] : history[Stable][i] = v THEN <<>> ELSE <<one>>)
                   \o <<two>>
  BY DEF Load, Enabled, disk
<1>2. one \in Pending /\ two \in Pending /\ Stable \in Channel
  BY DEF Step, Pending, Steps, UpdaterAssumption
<1>3. /\ one.do = "register" /\ one.channel = Stable /\ one.version = v
      /\ two.do = "resolve" /\ two.channel = Stable /\ two.version = v
  BY DEF Step
<1> HIDE DEF one, two
<1>4. ASSUME todo' \in Seq(Pending),
             \A j \in DOMAIN todo' : /\ todo'[j].do \in {"register", "resolve"}
                                     /\ todo'[j].channel = Stable /\ todo'[j].version = v,
             \A i, j \in DOMAIN todo' : todo'[i].do = "register" /\ todo'[j].do = "register" => i = j,
             StoredFirst'
      PROVE  Inv'
  <2>1. TypeOK'
    <3>1. todo' \in Seq([do : Steps, channel : Channel, version : Version])
      BY <1>4 DEF Pending
    <3>2. \A f \in {activeFile', rollbackFile', stagedFile'} : f \in [Channel -> Maybe \cup {Torn}]
      BY <1>1 DEF Inv, TypeOK
    <3>3. loaded' \in Maybe
      BY <1>1 DEF Maybe
    <3> QED
      BY <1>1, <3>1, <3>2, <3>3 DEF Inv, TypeOK
  <2>2. OneChannel'
    BY <1>4 DEF OneChannel
  <2>3. Fits'
    <3>1. ASSUME NEW j \in DOMAIN todo'
          PROVE  Len(Recorded(history'[todo'[j].channel], todo'[j].version)) <= MaxHistory
      BY <1>1, <1>4, <3>1
    <3>2. DOMAIN todo' \subseteq Int
      BY <1>4
    <3>3. ASSUME NEW i \in DOMAIN todo', NEW j \in DOMAIN todo', i < j,
                 todo'[i].do = "register", todo'[j].do = "register"
          PROVE  FALSE
      <4>1. i = j
        BY <1>4, <3>3
      <4> QED
        BY <3>2, <3>3, <4>1
    <3> QED
      BY <3>1, <3>3 DEF Fits
  <2>4. \A j \in DOMAIN todo' : todo'[j].do \notin {"active", "staged", "unstage", "forget"}
    BY <1>4
  <2>5. Announced'
    <3>1. \A d \in Channel \ failed : staged[d] # None => stagedFile[d] = staged[d]
      BY <1>1, Idle
    <3> QED
      BY <1>1, <2>4, <3>1 DEF Announced
  <2> QED
    BY <1>1, <1>4, <2>1, <2>2, <2>3, <2>4, <2>5, Begun
<1>5. CASE \E i \in DOMAIN history[Stable] : history[Stable][i] = v
  <2>1. todo' = <<two>>
    <3>1. todo' = <<>> \o <<two>>
      BY <1>1, <1>5, Zenon
    <3>2. <<two>> \in Seq(Pending)
      BY <1>2, Single
    <3> QED
      BY <3>1, <3>2, NothingFirst
  <2>2. todo' \in Seq(Pending) /\ DOMAIN todo' = {1} /\ todo'[1] = two
    BY <1>2, <2>1
  <2>3. Stable \notin failed => <<Stable, v>> \in stored
    BY <1>1, <1>2, <1>5, Idle
  <2>4. StoredFirst'
    BY <1>1, <1>3, <2>2, <2>3 DEF StoredFirst
  <2> QED
    BY <1>3, <1>4, <2>2, <2>4
<1>6. CASE ~\E i \in DOMAIN history[Stable] : history[Stable][i] = v
  <2>1. todo' = <<one>> \o <<two>>
    BY <1>1, <1>6
  <2>2. todo' \in Seq(Pending) /\ DOMAIN todo' = 1..2 /\ todo'[1] = one /\ todo'[2] = two
    BY <1>2, <2>1, Pair
  <2>3. Provided(todo', 2)
    BY <1>3, <2>2 DEF Provided
  <2>4. ASSUME NEW j \in DOMAIN todo', todo'[j].do \in Named PROVE Provided(todo', j)
    <3>1. j = 1 \/ j = 2
      BY <2>2
    <3> QED
      BY <1>3, <2>2, <2>3, <2>4, <3>1 DEF Named
  <2>5. StoredFirst'
    BY <2>4 DEF StoredFirst
  <2>6. \A j \in DOMAIN todo' : j = 1 \/ j = 2
    BY <2>2
  <2>7. \A j \in DOMAIN todo' : /\ todo'[j].do \in {"register", "resolve"}
                                /\ todo'[j].channel = Stable /\ todo'[j].version = v
    BY <1>3, <2>2, <2>6
  <2>8. \A i, j \in DOMAIN todo' : todo'[i].do = "register" /\ todo'[j].do = "register" => i = j
    BY <1>3, <2>2, <2>6
  <2> QED
    BY <1>4, <2>2, <2>5, <2>7, <2>8
<1> QED
  BY <1>5, <1>6

LEMMA WriteRaisesKeeps ==
  ASSUME UpdaterAssumption, Inv, WriteRaises
  PROVE  Inv'
<1> DEFINE s == todo[1]
<1>1. /\ TypeOK /\ todo # <<>> /\ Head(todo) = s /\ s \in Pending /\ s.do \in Files
      /\ Write(s, Torn) \/ UNCHANGED disk
      /\ todo' = <<>> /\ failed' = failed \cup {s.channel} /\ faults < MaxFaults /\ faults' = faults + 1
      /\ UNCHANGED <<selected, history, active, staged, loaded>>
  BY Popped DEF Inv, WriteRaises, memory
<1>2. s.channel \in Channel /\ s.version \in Version
  BY <1>1 DEF Pending
<1>3. /\ stored \subseteq stored' /\ stored' \subseteq Channel \X Version
      /\ activeFile' \in [Channel -> Maybe \cup {Torn}] /\ rollbackFile' \in [Channel -> Maybe \cup {Torn}]
      /\ stagedFile' \in [Channel -> Maybe \cup {Torn}]
      /\ \A c \in Channel \ {s.channel} : /\ activeFile'[c] = activeFile[c]
                                          /\ rollbackFile'[c] = rollbackFile[c]
                                          /\ stagedFile'[c] = stagedFile[c]
  <2>1. CASE Write(s, Torn)
    <3>1. Torn \in Version \cup {Torn}
      OBVIOUS
    <3> QED
      BY <1>1, <2>1, <3>1, Written
  <2>2. CASE UNCHANGED disk
    BY <1>1, <2>2, FileTypes DEF disk, TypeOK
  <2> QED
    BY <1>1, <2>1, <2>2
<1>4. DOMAIN todo' = {}
  BY <1>1
<1>5. \A j \in DOMAIN todo : todo[j].channel = s.channel
  BY <1>1, First DEF Inv, OneChannel
<1> HIDE DEF s
<1>6. TypeOK'
  <2>1. \A f \in {activeFile', rollbackFile', stagedFile'} : f \in [Channel -> Maybe \cup {Torn}]
    BY <1>3
  <2>2. faults' \in 0..MaxFaults
    BY <1>1 DEF TypeOK, UpdaterAssumption
  <2>3. failed' \subseteq Channel
    BY <1>1, <1>2 DEF TypeOK
  <2> QED
    BY <1>1, <1>3, <2>1, <2>2, <2>3 DEF TypeOK
<1>7. ActiveIsLast' /\ Differing' /\ LoadedIsStored'
  BY <1>1 DEF Inv, ActiveIsLast, Differing, LoadedIsStored
<1>8. PointersResolve'
  <2>1. SUFFICES ASSUME NEW c \in Channel \ failed', c # s.channel
                 PROVE  /\ activeFile'[c] \in Version => <<c, activeFile'[c]>> \in stored'
                        /\ rollbackFile'[c] \in Version => <<c, rollbackFile'[c]>> \in stored'
                        /\ stagedFile'[c] \in Version => <<c, stagedFile'[c]>> \in stored'
    BY <1>1 DEF PointersResolve
  <2>2. /\ activeFile[c] \in Version => <<c, activeFile[c]>> \in stored
        /\ rollbackFile[c] \in Version => <<c, rollbackFile[c]>> \in stored
        /\ stagedFile[c] \in Version => <<c, stagedFile[c]>> \in stored
    BY <1>1, <2>1 DEF Inv, PointersResolve
  <2> QED
    BY <1>3, <2>1, <2>2
<1>9. StoredFirst' /\ Fits' /\ OneChannel'
  BY <1>4 DEF StoredFirst, Fits, OneChannel
<1>10. HistoryStored'
  <2>1. SUFFICES ASSUME NEW c \in Channel \ failed', NEW i \in DOMAIN history[c]
                 PROVE  <<c, history[c][i]>> \in stored'
    BY <1>1 DEF HistoryStored
  <2>2. c \in Channel \ failed /\ c # s.channel
    BY <1>1, <2>1
  <2>3. Head(todo) # Step("store", c, history[c][i])
    BY <1>1, <2>2 DEF Step
  <2> QED
    BY <1>3, <2>2, <2>3 DEF Inv, HistoryStored
<1>11. ASSUME NEW c \in Channel \ failed'
       PROVE  /\ active'[c] # None => activeFile'[c] = active'[c]
              /\ staged'[c] # None => stagedFile'[c] = staged'[c]
  <2>1. c \in Channel \ failed /\ c # s.channel
    BY <1>1, <1>11
  <2>2. active[c] # None => activeFile[c] = active[c]
    BY <1>5, <2>1 DEF Inv, Marked
  <2>3. staged[c] # None => stagedFile[c] = staged[c]
    BY <1>5, <2>1 DEF Inv, Announced
  <2> QED
    BY <1>1, <1>3, <2>1, <2>2, <2>3
<1>12. Marked' /\ Announced'
  BY <1>4, <1>11 DEF Marked, Announced
<1> QED
  BY <1>6, <1>7, <1>8, <1>9, <1>10, <1>12 DEF Inv

LEMMA RestartKeeps ==
  ASSUME UpdaterAssumption, Inv, Restart
  PROVE  Inv'
<1>1. /\ faults < MaxFaults /\ faults' = faults + 1 /\ selected' = Stable /\ history' = NoHistory
      /\ active' = Empty /\ staged' = Empty /\ loaded' = None /\ todo' = <<>> /\ failed' = failed
  BY DEF Restart
<1>2. /\ stored \subseteq stored' /\ stored' \subseteq Channel \X Version
      /\ activeFile' \in [Channel -> Maybe \cup {Torn}] /\ rollbackFile' \in [Channel -> Maybe \cup {Torn}]
      /\ stagedFile' \in [Channel -> Maybe \cup {Torn}]
      /\ \A c \in Channel : /\ activeFile'[c] \in {activeFile[c], Torn}
                            /\ rollbackFile'[c] \in {rollbackFile[c], Torn}
                            /\ stagedFile'[c] \in {stagedFile[c], Torn}
  <2>1. CASE todo # <<>> /\ Head(todo).do \in Files /\ Write(Head(todo), Torn)
    <3>1. Head(todo) \in Pending /\ Torn \in Version \cup {Torn}
      BY <2>1, Popped DEF Inv
    <3> QED
      BY <2>1, <3>1, Written DEF Inv
  <2>2. CASE UNCHANGED disk
    BY <2>2, FileTypes DEF disk, Inv, TypeOK
  <2> QED
    BY <2>1, <2>2 DEF Restart
<1>3. DOMAIN todo' = {}
  BY <1>1
<1>4. /\ \A c \in Channel : history'[c] = <<>> /\ active'[c] = None /\ staged'[c] = None
      /\ \A c \in Channel : Len(history'[c]) = 0 /\ DOMAIN history'[c] = {}
  BY <1>1 DEF NoHistory, Empty
<1>5. TypeOK'
  <2>1. \A f \in {activeFile', rollbackFile', stagedFile'} : f \in [Channel -> Maybe \cup {Torn}]
    BY <1>2
  <2>2. faults' \in 0..MaxFaults
    BY <1>1 DEF Inv, TypeOK, UpdaterAssumption
  <2>3. <<>> \in BoundedSeq(Version, MaxHistory)
    <3>1. <<>> \in Seq(Version) /\ Len(<<>>) <= MaxHistory /\ MaxHistory \in Nat
      BY DEF UpdaterAssumption
    <3> QED
      BY <3>1, Bounded
  <2>4. /\ history' \in [Channel -> BoundedSeq(Version, MaxHistory)]
        /\ active' \in [Channel -> Maybe] /\ staged' \in [Channel -> Maybe]
    BY <1>1, <2>3 DEF NoHistory, Empty, Maybe
  <2>5. failed' \subseteq Channel /\ selected' \in Channel /\ loaded' \in Maybe
    BY <1>1 DEF Inv, TypeOK, UpdaterAssumption, Maybe
  <2> QED
    BY <1>1, <1>2, <2>1, <2>2, <2>4, <2>5 DEF TypeOK
<1>6. ActiveIsLast' /\ Differing' /\ LoadedIsStored'
  BY <1>1, <1>4 DEF ActiveIsLast, Differing, LoadedIsStored
<1>7. PointersResolve'
  <2>1. SUFFICES ASSUME NEW c \in Channel \ failed
                 PROVE  /\ activeFile'[c] \in Version => <<c, activeFile'[c]>> \in stored'
                        /\ rollbackFile'[c] \in Version => <<c, rollbackFile'[c]>> \in stored'
                        /\ stagedFile'[c] \in Version => <<c, stagedFile'[c]>> \in stored'
    BY <1>1 DEF PointersResolve
  <2>2. /\ activeFile[c] \in Version => <<c, activeFile[c]>> \in stored
        /\ rollbackFile[c] \in Version => <<c, rollbackFile[c]>> \in stored
        /\ stagedFile[c] \in Version => <<c, stagedFile[c]>> \in stored
    BY <2>1 DEF Inv, PointersResolve
  <2>3. Torn \notin Version
    BY DEF UpdaterAssumption, Torn
  <2> QED
    BY <1>2, <2>1, <2>2, <2>3
<1>8. StoredFirst' /\ Fits' /\ OneChannel' /\ HistoryStored'
  BY <1>3, <1>4 DEF StoredFirst, Fits, OneChannel, HistoryStored
<1>9. Marked' /\ Announced'
  BY <1>3, <1>4 DEF Marked, Announced
<1> QED
  BY <1>5, <1>6, <1>7, <1>8, <1>9 DEF Inv

(* What a promotion has to do: a baseline or not (k), the release, whose    *)
(* predecessor is named or not (e), and the end of its staging.             *)
LEMMA Promotion ==
  ASSUME UpdaterAssumption, Inv, NEW c \in Channel, Promote(c)
  PROVE  LET v == staged[c]
             previous == IF active[c] = None /\ c # Stable THEN active[Stable] ELSE active[c]
             k == Len(Baseline(c))
             e == IF previous = None THEN 0 ELSE 1
         IN /\ v \in Version /\ k \in {0, 1} /\ e \in {0, 1}
            /\ todo' \in Seq(Pending) /\ DOMAIN todo' = 1..k + e + 4
            /\ k = 1 => /\ todo'[1] = Step("register", c, previous) /\ e = 1
                        /\ active[c] = None /\ c # Stable
            /\ todo'[k + 1] = Step("register", c, v) /\ todo'[k + 2] = Step("active", c, v)
            /\ e = 1 => todo'[k + 3] = Step("rollback", c, previous) /\ previous \in Version
            /\ e = 1 /\ k = 0 => active[c] # None /\ previous = active[c]
            /\ todo'[k + e + 3] = Step("unstage", c, v) /\ todo'[k + e + 4] = Step("forget", c, v)
            /\ Len(Recorded(history[c], v)) + k <= MaxHistory
<1> DEFINE v == staged[c]
           previous == IF active[c] = None /\ c # Stable THEN active[Stable] ELSE active[c]
           base == Baseline(c)
           k == Len(base)
           e == IF previous = None THEN 0 ELSE 1
           reg == Step("register", c, v)
           act == Step("active", c, v)
           rb == Step("rollback", c, previous)
           un == Step("unstage", c, v)
           fo == Step("forget", c, v)
           marks == <<act>> \o IF previous = None THEN <<>> ELSE <<rb>>
           ends == <<un, fo>>
<1>1. v # None /\ todo' = base \o <<reg>> \o marks \o ends /\ Len(Recorded(history[c], v)) + k <= MaxHistory
  BY DEF Promote, Marks
<1>2. v \in Version /\ previous \in Maybe /\ active[Stable] \in Maybe
  BY <1>1 DEF Inv, TypeOK, Maybe, UpdaterAssumption
<1>3. reg \in Pending /\ act \in Pending /\ un \in Pending /\ fo \in Pending
  BY <1>2 DEF Step, Pending, Steps
<1>4. previous # None => rb \in Pending /\ previous \in Version
  BY <1>2 DEF Step, Pending, Steps, Maybe
<1>5. /\ base \in Seq(Pending) /\ k \in {0, 1}
      /\ k = 1 => /\ base[1] = Step("register", c, previous) /\ previous # None
                  /\ active[c] = None /\ c # Stable
      /\ k = 0 => previous = None \/ previous = active[c]
  <2>1. CASE active[c] = None /\ c # Stable /\ active[Stable] # None
    <3> DEFINE two == Step("register", c, previous)
    <3>1. base = <<two>> /\ two \in Pending
      BY <1>2, <2>1 DEF Baseline, Step, Pending, Steps, Maybe
    <3> HIDE DEF two
    <3>2. base \in Seq(Pending) /\ k = 1 /\ base[1] = two
      BY <3>1, Single
    <3> QED
      BY <2>1, <3>2 DEF two
  <2>2. CASE ~(active[c] = None /\ c # Stable /\ active[Stable] # None)
    <3>1. base = <<>>
      BY <2>2 DEF Baseline
    <3> QED
      BY <2>2, <3>1
  <2> QED
    BY <2>1, <2>2
<1>6. /\ marks \in Seq(Pending) /\ Len(marks) = e + 1 /\ marks[1] = act
      /\ e = 1 => marks[2] = rb
  <2>1. CASE previous = None
    <3>1. marks = <<act>> \o <<>> /\ e = 0
      BY <2>1
    <3> HIDE DEF act
    <3> QED
      BY <1>3, <3>1
  <2>2. CASE previous # None
    <3>1. marks = <<act>> \o <<rb>> /\ e = 1 /\ act \in Pending /\ rb \in Pending
      BY <1>3, <1>4, <2>2
    <3> HIDE DEF act, rb, marks
    <3>2. /\ marks \in Seq(Pending) /\ DOMAIN marks = 1..2 /\ marks[1] = act /\ marks[2] = rb
      BY <3>1, Pair
    <3>3. Len(marks) = 2
      BY <3>2
    <3> QED
      BY <3>1, <3>2, <3>3
  <2> QED
    BY <2>1, <2>2
<1>7. /\ ends \in Seq(Pending) /\ Len(ends) = 2 /\ ends[1] = un /\ ends[2] = fo
  BY <1>3
<1>8. e \in {0, 1}
  OBVIOUS
<1> HIDE DEF v, previous, base, reg, act, rb, un, fo, marks, ends
<1> DEFINE s1 == base \o <<reg>>
           s2 == s1 \o marks
           s3 == s2 \o ends
<1>9. s1 \in Seq(Pending) /\ Len(s1) = k + 1 /\ s1[k + 1] = reg /\ (k = 1 => s1[1] = base[1])
  <2>1. <<reg>> \in Seq(Pending) /\ Len(<<reg>>) = 1 /\ <<reg>>[1] = reg
    BY <1>3, Single
  <2>2. /\ s1 \in Seq(Pending) /\ Len(s1) = k + Len(<<reg>>) /\ \A i \in 1..k : s1[i] = base[i]
        /\ \A i \in k + 1..k + Len(<<reg>>) : s1[i] = <<reg>>[i - k]
    BY <1>5, <2>1, Joined
  <2>3. \A i \in k + 1..k + 1 : s1[i] = <<reg>>[i - k]
    BY <2>1, <2>2
  <2>4. k + 1 \in k + 1..k + 1 /\ (k + 1) - k = 1
    BY <1>5
  <2>5. s1[k + 1] = reg
    BY <2>1, <2>3, <2>4
  <2> QED
    BY <1>5, <2>1, <2>2, <2>5
<1> HIDE DEF s1
<1>10. /\ s2 \in Seq(Pending) /\ Len(s2) = k + e + 2 /\ s2[k + 1] = reg /\ s2[k + 2] = act
       /\ k = 1 => s2[1] = base[1]
       /\ e = 1 => s2[k + 3] = rb
  <2>1. /\ s2 \in Seq(Pending) /\ Len(s2) = Len(s1) + Len(marks)
        /\ \A i \in 1..Len(s1) : s2[i] = s1[i]
        /\ \A i \in Len(s1) + 1..Len(s1) + Len(marks) : s2[i] = marks[i - Len(s1)]
    BY <1>6, <1>9, Joined
  <2>2. /\ Len(s2) = k + e + 2 /\ \A i \in 1..k + 1 : s2[i] = s1[i]
        /\ \A i \in k + 2..k + e + 2 : s2[i] = marks[i - (k + 1)]
    BY <1>5, <1>6, <1>8, <1>9, <2>1
  <2>3. s2[k + 1] = reg /\ (k = 1 => s2[1] = base[1])
    BY <1>5, <1>9, <2>2
  <2>4. s2[k + 2] = act
    <3>1. k + 2 \in k + 2..k + e + 2 /\ (k + 2) - (k + 1) = 1
      BY <1>5, <1>8
    <3> QED
      BY <1>6, <2>2, <3>1
  <2>5. ASSUME e = 1 PROVE s2[k + 3] = rb
    <3>1. k + 3 \in k + 2..k + e + 2 /\ (k + 3) - (k + 1) = 2
      BY <1>5, <2>5
    <3> QED
      BY <1>6, <2>2, <2>5, <3>1
  <2> QED
    BY <2>1, <2>2, <2>3, <2>4, <2>5
<1> HIDE DEF s2
<1>11. /\ s3 \in Seq(Pending) /\ DOMAIN s3 = 1..k + e + 4
       /\ \A i \in 1..k + e + 2 : s3[i] = s2[i]
       /\ s3[k + e + 3] = un /\ s3[k + e + 4] = fo
  <2>1. /\ s3 \in Seq(Pending) /\ Len(s3) = Len(s2) + Len(ends)
        /\ \A i \in 1..Len(s2) : s3[i] = s2[i]
        /\ \A i \in Len(s2) + 1..Len(s2) + Len(ends) : s3[i] = ends[i - Len(s2)]
    BY <1>7, <1>10, Joined
  <2>2. /\ Len(s3) = k + e + 4 /\ \A i \in 1..k + e + 2 : s3[i] = s2[i]
        /\ \A i \in k + e + 3..k + e + 4 : s3[i] = ends[i - (k + e + 2)]
    BY <1>5, <1>7, <1>8, <1>10, <2>1
  <2>3. /\ k + e + 3 \in k + e + 3..k + e + 4 /\ (k + e + 3) - (k + e + 2) = 1
        /\ k + e + 4 \in k + e + 3..k + e + 4 /\ (k + e + 4) - (k + e + 2) = 2
    BY <1>5, <1>8
  <2>4. s3[k + e + 3] = un /\ s3[k + e + 4] = fo
    BY <1>7, <2>2, <2>3
  <2>5. DOMAIN s3 = 1..k + e + 4
    BY <2>1, <2>2
  <2> QED
    BY <2>1, <2>2, <2>4, <2>5
<1>12. todo' = s3
  BY <1>1 DEF s1, s2, s3
<1> HIDE DEF s3
<1>13. /\ todo'[k + 1] = reg /\ todo'[k + 2] = act /\ (k = 1 => todo'[1] = base[1])
       /\ e = 1 => todo'[k + 3] = rb
  BY <1>5, <1>8, <1>10, <1>11, <1>12
<1>14. (k = 1 => e = 1) /\ (e = 1 => previous # None)
  BY <1>5
<1> QED
  BY <1>1, <1>2, <1>4, <1>5, <1>8, <1>11, <1>12, <1>13, <1>14 DEF v, previous, base, reg, act, rb, un, fo

LEMMA PromoteKeeps ==
  ASSUME UpdaterAssumption, Inv, NEW c \in Channel, Promote(c)
  PROVE  Inv'
<1> DEFINE v == staged[c]
           previous == IF active[c] = None /\ c # Stable THEN active[Stable] ELSE active[c]
           k == Len(Baseline(c))
           e == IF previous = None THEN 0 ELSE 1
<1>1. /\ v \in Version /\ k \in {0, 1} /\ e \in {0, 1}
      /\ todo' \in Seq(Pending) /\ DOMAIN todo' = 1..k + e + 4
      /\ k = 1 => /\ todo'[1] = Step("register", c, previous) /\ e = 1
                  /\ active[c] = None /\ c # Stable
      /\ todo'[k + 1] = Step("register", c, v) /\ todo'[k + 2] = Step("active", c, v)
      /\ e = 1 => todo'[k + 3] = Step("rollback", c, previous) /\ previous \in Version
      /\ e = 1 /\ k = 0 => active[c] # None /\ previous = active[c]
      /\ todo'[k + e + 3] = Step("unstage", c, v) /\ todo'[k + e + 4] = Step("forget", c, v)
      /\ Len(Recorded(history[c], v)) + k <= MaxHistory
  BY Promotion
<1>2. /\ todo = <<>> /\ loaded' = None
      /\ UNCHANGED <<selected, history, active, staged, failed, faults>>
      /\ UNCHANGED <<stored, activeFile, rollbackFile, stagedFile>>
  BY DEF Promote, disk
<1> HIDE DEF v, previous, k, e
<1>3. ASSUME NEW j \in DOMAIN todo'
      PROVE  \/ k = 1 /\ j = 1 /\ todo'[j] = Step("register", c, previous)
             \/ j = k + 1 /\ todo'[j] = Step("register", c, v)
             \/ j = k + 2 /\ todo'[j] = Step("active", c, v)
             \/ e = 1 /\ j = k + 3 /\ todo'[j] = Step("rollback", c, previous)
             \/ j = k + e + 3 /\ todo'[j] = Step("unstage", c, v)
             \/ j = k + e + 4 /\ todo'[j] = Step("forget", c, v)
  <2>1. \/ k = 1 /\ j = 1
        \/ j = k + 1 \/ j = k + 2
        \/ e = 1 /\ j = k + 3
        \/ j = k + e + 3 \/ j = k + e + 4
    BY <1>1, <1>3
  <2> QED
    BY <1>1, <2>1
<1>4. ASSUME NEW j \in DOMAIN todo'
      PROVE  /\ todo'[j].channel = c /\ todo'[j].do # "staged"
             /\ todo'[j].do = "register" => j \in 1..k + 1 /\ (j = k + 1 => todo'[j].version = v)
                                            /\ (j # k + 1 => k = 1 /\ todo'[j].version = previous)
             /\ todo'[j].do = "active" => j = k + 2 /\ todo'[j].version = v
             /\ todo'[j].do = "rollback" => e = 1 /\ j = k + 3 /\ todo'[j].version = previous
             /\ todo'[j].do = "unstage" => j = k + e + 3
             /\ todo'[j].do \notin {"store", "resolve"}
  BY <1>1, <1>3 DEF Step
<1>5. /\ k + 1 \in DOMAIN todo' /\ todo'[k + 1].do = "register" /\ todo'[k + 1].channel = c
      /\ todo'[k + 1].version = v
      /\ k = 1 => /\ 1 \in DOMAIN todo' /\ todo'[1].do = "register" /\ todo'[1].channel = c
                  /\ todo'[1].version = previous
      /\ k + e + 4 \in DOMAIN todo' /\ todo'[k + e + 4].do = "forget" /\ todo'[k + e + 4].channel = c
  BY <1>1 DEF Step
<1>6. TypeOK'
  <2>1. todo' \in Seq([do : Steps, channel : Channel, version : Version])
    BY <1>1 DEF Pending
  <2>2. \A f \in {activeFile', rollbackFile', stagedFile'} : f \in [Channel -> Maybe \cup {Torn}]
    BY <1>2 DEF Inv, TypeOK
  <2>3. loaded' \in Maybe
    BY <1>2 DEF Maybe
  <2> QED
    BY <1>2, <2>1, <2>2, <2>3 DEF Inv, TypeOK
<1>7. OneChannel'
  BY <1>4 DEF OneChannel
<1>8. StoredFirst'
  <2>1. SUFFICES ASSUME NEW j \in DOMAIN todo', todo'[j].do \in Named, c \notin failed
                 PROVE  <<c, todo'[j].version>> \in stored \/ Provided(todo', j)
    BY <1>2, <1>4 DEF StoredFirst
  <2>2. CASE todo'[j].do = "active"
    <3>1. j = k + 2 /\ todo'[j].version = v /\ todo'[j].channel = c
      BY <1>4, <2>2
    <3>2. k + 1 \in 1..j - 1
      BY <1>1, <3>1
    <3> QED
      BY <1>5, <3>1, <3>2 DEF Provided
  <2>3. CASE todo'[j].do = "rollback"
    <3>1. e = 1 /\ j = k + 3 /\ todo'[j].version = previous /\ todo'[j].channel = c
      BY <1>4, <2>3
    <3>2. CASE k = 1
      <4>1. 1 \in 1..j - 1
        BY <3>1, <3>2
      <4> QED
        BY <1>5, <3>1, <3>2, <4>1 DEF Provided
    <3>3. CASE k = 0
      <4>1. active[c] # None /\ previous = active[c]
        BY <1>1, <3>1, <3>3
      <4> QED
        BY <1>2, <2>1, <3>1, <4>1, Idle
    <3> QED
      BY <1>1, <3>2, <3>3
  <2> QED
    BY <1>4, <2>1, <2>2, <2>3 DEF Named
<1>9. Announced'
  <2>1. ASSUME NEW j \in DOMAIN todo', todo'[j].do = "unstage"
        PROVE  \E i \in DOMAIN todo' : /\ j < i /\ todo'[i].do = "forget"
                                       /\ todo'[i].channel = todo'[j].channel
    <3>1. j = k + e + 3 /\ todo'[j].channel = c
      BY <1>4, <2>1
    <3>2. j < k + e + 4
      BY <1>1, <3>1
    <3> QED
      BY <1>5, <3>1, <3>2
  <2>2. \A d \in Channel \ failed : staged[d] # None => stagedFile[d] = staged[d]
    BY <1>2, Idle
  <2>3. \A j \in DOMAIN todo' : todo'[j].do # "staged"
    BY <1>4
  <2> QED
    BY <1>2, <2>1, <2>2, <2>3 DEF Announced
<1>10. Len(history[c]) \in Nat /\ history[c] \in Seq(Version) /\ MaxHistory \in Nat
       /\ history'[c] = history[c]
  BY <1>2, Histories DEF Inv, UpdaterAssumption
<1>11. Len(Recorded(history[c], v)) \in {Len(history[c]), Len(history[c]) + 1}
       /\ Len(Recorded(history[c], v)) \in Nat \ {0}
  BY <1>1, <1>10, RecordedIs
<1>12. k = 1 => history[c] = <<>> /\ Len(history[c]) = 0
  <2>1. SUFFICES ASSUME k = 1, history[c] # <<>> PROVE FALSE
    BY <1>10
  <2>2. active[c] = None /\ active[c] = Last(history[c])
    BY <1>1, <2>1 DEF Inv, ActiveIsLast
  <2>3. Last(history[c]) \in Version
    BY <1>10, <2>1 DEF Last
  <2> QED
    BY <2>2, <2>3 DEF UpdaterAssumption, None
<1>13. Fits'
  <2>1. ASSUME NEW j \in DOMAIN todo', todo'[j].do = "register", Settled(todo', j)
        PROVE  Len(Recorded(history'[todo'[j].channel], todo'[j].version)) <= MaxHistory
    <3>1. CASE j = k + 1
      <4>1. todo'[j].channel = c /\ todo'[j].version = v
        BY <1>4, <2>1, <3>1
      <4>2. Len(Recorded(history[c], v)) <= MaxHistory
        BY <1>1, <1>10, <1>11
      <4> QED
        BY <1>10, <4>1, <4>2
    <3>2. CASE j # k + 1
      <4>1. k = 1 /\ todo'[j].channel = c /\ todo'[j].version = previous /\ previous \in Version
        BY <1>1, <1>4, <2>1, <3>2
      <4>2. Len(Recorded(history[c], previous)) \in {Len(history[c]), Len(history[c]) + 1}
        BY <1>10, <4>1, RecordedIs
      <4>3. Len(Recorded(history[c], previous)) <= MaxHistory
        BY <1>1, <1>10, <1>11, <1>12, <4>1, <4>2
      <4> QED
        BY <1>10, <4>1, <4>3
    <3> QED
      BY <3>1, <3>2
  <2>2. ASSUME NEW i \in DOMAIN todo', NEW j \in DOMAIN todo', i < j,
               todo'[i].do = "register", todo'[j].do = "register"
        PROVE  /\ todo'[i].channel = todo'[j].channel
               /\ Len(history'[todo'[i].channel]) + 2 <= MaxHistory
               /\ \A l \in DOMAIN todo' : j < l => todo'[l].do # "register"
    <3>1. i \in 1..k + 1 /\ j \in 1..k + 1 /\ todo'[i].channel = c /\ todo'[j].channel = c
      BY <1>4, <2>2
    <3>2. k = 1 /\ j = k + 1
      BY <1>1, <2>2, <3>1
    <3>3. Len(history[c]) = 0 /\ 2 <= MaxHistory
      BY <1>1, <1>10, <1>11, <1>12, <3>2
    <3>4. \A l \in DOMAIN todo' : j < l => todo'[l].do # "register"
      BY <1>1, <1>4, <3>2
    <3> QED
      BY <1>10, <3>1, <3>3, <3>4
  <2> QED
    BY <2>1, <2>2 DEF Fits
<1>14. ASSUME NEW j \in DOMAIN todo', todo'[j].do = "active", Settled(todo', j)
       PROVE  FALSE
  <2>1. k + 1 \in 1..j - 1
    BY <1>1, <1>4, <1>14
  <2> QED
    BY <1>5, <1>14, <2>1 DEF Settled
<1>15. ASSUME NEW i \in DOMAIN todo', NEW j \in DOMAIN todo', i < j,
              todo'[i].do = "register", todo'[j].do = "active",
              \A l \in i + 1..j - 1 : todo'[l].do # "register"
       PROVE  todo'[i].channel = todo'[j].channel /\ todo'[i].version = todo'[j].version
  <2>1. i \in 1..k + 1 /\ j = k + 2 /\ todo'[i].channel = c /\ todo'[j].channel = c /\ todo'[j].version = v
    BY <1>4, <1>15
  <2>2. i = k + 1
    <3>1. SUFFICES ASSUME i # k + 1 PROVE FALSE
      OBVIOUS
    <3>2. k + 1 \in i + 1..j - 1
      BY <1>1, <2>1, <3>1
    <3> QED
      BY <1>5, <1>15, <3>2
  <2>3. todo'[i].version = v
    BY <1>5, <2>2
  <2> QED
    BY <2>1, <2>3
<1> QED
  BY <1>2, <1>6, <1>7, <1>8, <1>9, <1>13, <1>14, <1>15, Begun

LEMMA RollbackKeeps ==
  ASSUME UpdaterAssumption, Inv, NEW c \in Channel, Rollback(c)
  PROVE  Inv'
<1> DEFINE h == history[c]
           f == Front(h)
           n == Len(h)
           v == Last(f)
           one == Step("active", c, v)
<1>1. h \in Seq(Version) /\ n \in Nat /\ n > 1 /\ n <= MaxHistory /\ DOMAIN h = 1..n
  BY Histories DEF Inv, Rollback
<1>2. /\ f \in Seq(Version) /\ Len(f) = n - 1 /\ DOMAIN f = 1..n - 1 /\ \A i \in 1..n - 1 : f[i] = h[i]
  <2>1. f = [i \in 1..n - 1 |-> h[i]]
    BY <1>1 DEF Front
  <2>2. \A i \in 1..n - 1 : h[i] \in Version
    BY <1>1
  <2> QED
    BY <1>1, <2>1, <2>2
<1>3. /\ todo = <<>> /\ loaded' = None /\ history' = [history EXCEPT ![c] = f]
      /\ UNCHANGED <<selected, staged, failed, faults>>
      /\ UNCHANGED <<stored, activeFile, rollbackFile, stagedFile>>
  BY DEF Rollback, disk
<1>4. history \in [Channel -> BoundedSeq(Version, MaxHistory)] /\ active \in [Channel -> Maybe]
  BY DEF Inv, TypeOK
<1>5. \A d \in Channel : history'[d] = IF d = c THEN f ELSE history[d]
  BY <1>3, <1>4
<1>6. v = h[n - 1] /\ v \in Version /\ f # <<>>
  BY <1>1, <1>2 DEF Last
<1>7. /\ active' = [active EXCEPT ![c] = v]
      /\ \A d \in Channel : active'[d] = IF d = c THEN v ELSE active[d]
  <2>1. active' = [active EXCEPT ![c] = Last(history'[c])]
    BY DEF Rollback
  <2>2. history'[c] = f
    BY <1>5
  <2>3. active' = [active EXCEPT ![c] = v]
    BY <2>1, <2>2
  <2> QED
    BY <1>4, <2>3
<1>8. todo' = <<one>> /\ one \in Pending
  <2>1. todo' = <<Step("active", c, active'[c])>> \o <<>>
    BY DEF Rollback, Marks
  <2>2. active'[c] = v
    BY <1>7
  <2>3. todo' = <<one>> \o <<>> /\ one \in Pending
    BY <1>6, <2>1, <2>2 DEF Step, Pending, Steps
  <2> HIDE DEF one
  <2> QED
    BY <2>3
<1>9. one.do = "active" /\ one.channel = c /\ one.version = v
  BY DEF Step
<1> HIDE DEF one, f, v
<1>10. DOMAIN todo' = {1} /\ todo'[1] = one
  BY <1>8
<1>11. TypeOK'
  <2>1. todo' \in Seq([do : Steps, channel : Channel, version : Version])
    BY <1>8 DEF Pending
  <2>2. \A g \in {activeFile', rollbackFile', stagedFile'} : g \in [Channel -> Maybe \cup {Torn}]
    BY <1>3 DEF Inv, TypeOK
  <2>3. f \in BoundedSeq(Version, MaxHistory)
    BY <1>1, <1>2, Bounded DEF UpdaterAssumption
  <2>4. history' \in [Channel -> BoundedSeq(Version, MaxHistory)] /\ active' \in [Channel -> Maybe]
    BY <1>3, <1>4, <1>6, <1>7, <2>3 DEF Maybe
  <2>5. loaded' \in Maybe
    BY <1>3 DEF Maybe
  <2> QED
    BY <1>3, <2>1, <2>2, <2>4, <2>5 DEF Inv, TypeOK
<1>12. ActiveIsLast'
  BY <1>5, <1>6, <1>7 DEF Inv, ActiveIsLast, v
<1>13. PointersResolve' /\ LoadedIsStored'
  BY <1>3 DEF Inv, PointersResolve, LoadedIsStored
<1>14. ASSUME NEW d \in Channel \ failed, NEW i \in DOMAIN history'[d]
       PROVE  <<d, history'[d][i]>> \in stored
  <2>1. i \in DOMAIN history[d] /\ history'[d][i] = history[d][i]
    BY <1>1, <1>2, <1>5, <1>14
  <2> QED
    BY <1>3, <2>1, Idle
<1>15. HistoryStored'
  BY <1>3, <1>14 DEF HistoryStored
<1>16. StoredFirst'
  <2>1. c \notin failed => <<c, v>> \in stored
    <3>1. n - 1 \in DOMAIN history'[c] /\ history'[c][n - 1] = v
      BY <1>1, <1>2, <1>5, <1>6
    <3> QED
      BY <1>14, <3>1
  <2> QED
    BY <1>3, <1>9, <1>10, <2>1 DEF StoredFirst
<1>17. Differing'
  <2>1. \A i \in 1..(n - 1) - 1 : f[i] # f[i + 1]
    <3>1. \A i \in 1..n - 1 : h[i] # h[i + 1]
      BY DEF Inv, Differing
    <3> QED
      BY <1>1, <1>2, <3>1
  <2> QED
    BY <1>2, <1>5, <2>1 DEF Inv, Differing
<1>18. Marked'
  <2>1. Settled(todo', 1)
    BY DEF Settled
  <2>2. \A d \in Channel \ failed : active[d] # None => activeFile[d] = active[d]
    BY <1>3, Idle
  <2> QED
    BY <1>3, <1>7, <1>9, <1>10, <2>1, <2>2 DEF Marked
<1>19. Announced'
  <2>1. \A d \in Channel \ failed : staged[d] # None => stagedFile[d] = staged[d]
    BY <1>3, Idle
  <2> QED
    BY <1>3, <1>9, <1>10, <2>1 DEF Announced
<1>20. Fits' /\ OneChannel'
  BY <1>9, <1>10 DEF Fits, OneChannel
<1> QED
  BY <1>11, <1>12, <1>13, <1>15, <1>16, <1>17, <1>18, <1>19, <1>20 DEF Inv

-----------------------------------------------------------------------------
(* The theorems *)

LEMMA InitKeeps ==
  ASSUME UpdaterAssumption, Init
  PROVE  Inv
<1>1. /\ todo = <<>> /\ DOMAIN todo = {} /\ stored = {} /\ failed = {} /\ faults = 0
      /\ selected = Stable /\ loaded = None
      /\ history = NoHistory /\ active = Empty /\ staged = Empty
      /\ activeFile = Empty /\ rollbackFile = Empty /\ stagedFile = Empty
  BY DEF Init
<1>2. /\ \A c \in Channel : /\ history[c] = <<>> /\ active[c] = None /\ staged[c] = None
                            /\ activeFile[c] = None /\ rollbackFile[c] = None /\ stagedFile[c] = None
                            /\ Len(history[c]) = 0 /\ DOMAIN history[c] = {}
  BY <1>1 DEF NoHistory, Empty
<1>3. TypeOK
  <2>1. <<>> \in BoundedSeq(Version, MaxHistory)
    <3>1. <<>> \in Seq(Version) /\ Len(<<>>) <= MaxHistory /\ MaxHistory \in Nat
      BY DEF UpdaterAssumption
    <3> QED
      BY <3>1, Bounded
  <2>2. /\ history \in [Channel -> BoundedSeq(Version, MaxHistory)]
        /\ active \in [Channel -> Maybe] /\ staged \in [Channel -> Maybe]
    BY <1>1, <2>1 DEF NoHistory, Empty, Maybe
  <2>3. \A f \in {activeFile, rollbackFile, stagedFile} : f \in [Channel -> Maybe \cup {Torn}]
    BY <1>1 DEF Empty, Maybe
  <2>4. faults \in 0..MaxFaults /\ selected \in Channel /\ loaded \in Maybe
    BY <1>1 DEF UpdaterAssumption, Maybe
  <2> QED
    BY <1>1, <2>2, <2>3, <2>4 DEF TypeOK
<1>4. ActiveIsLast /\ LoadedIsStored /\ Differing /\ HistoryStored
  BY <1>1, <1>2 DEF ActiveIsLast, LoadedIsStored, Differing, HistoryStored
<1>5. PointersResolve
  BY <1>1, <1>2 DEF PointersResolve, UpdaterAssumption, None
<1>6. StoredFirst /\ Fits /\ OneChannel
  BY <1>1 DEF StoredFirst, Fits, OneChannel
<1>7. Marked /\ Announced
  BY <1>1, <1>2 DEF Marked, Announced
<1> QED
  BY <1>3, <1>4, <1>5, <1>6, <1>7 DEF Inv

LEMMA NextKeeps ==
  ASSUME UpdaterAssumption, Inv, [Next]_vars
  PROVE  Inv'
<1>1. CASE WriteFile
  BY <1>1, WriteKeeps
<1>2. CASE Proceed
  <2>1. todo # <<>> /\ Head(todo) = todo[1]
    BY <1>2, Popped DEF Proceed, Inv
  <2>2. CASE todo[1].do = "register" /\ Register(todo[1].channel, todo[1].version)
    BY <2>1, <2>2, RegisterKeeps
  <2>3. CASE todo[1].do = "forget" /\ Forget(todo[1].channel)
    BY <2>1, <2>3, ForgetKeeps
  <2>4. CASE todo[1].do = "resolve" /\ Resolve(todo[1].version)
    BY <2>1, <2>4, ResolveKeeps
  <2> QED
    BY <1>2, <2>1, <2>2, <2>3, <2>4 DEF Proceed
<1>3. CASE WriteRaises
  BY <1>3, WriteRaisesKeeps
<1>4. CASE Restart
  BY <1>4, RestartKeeps
<1>5. ASSUME NEW v \in Version, Load(v) PROVE Inv'
  BY <1>5, LoadKeeps
<1>6. ASSUME NEW c \in Channel, SetChannel(c) PROVE Inv'
  BY <1>6, SetChannelKeeps
<1>7. ASSUME NEW c \in Channel, Promote(c) PROVE Inv'
  BY <1>7, PromoteKeeps
<1>8. ASSUME NEW c \in Channel, Rollback(c) PROVE Inv'
  BY <1>8, RollbackKeeps
<1>9. ASSUME NEW c \in Channel, NEW v \in Version, Stage(c, v) PROVE Inv'
  BY <1>9, StageKeeps
<1>10. CASE UNCHANGED vars
  <2>1. /\ UNCHANGED <<selected, history, active, staged, loaded, todo, failed, faults>>
        /\ UNCHANGED <<stored, activeFile, rollbackFile, stagedFile>>
    BY <1>10 DEF vars, memory, disk
  <2>2. TypeOK' /\ ActiveIsLast' /\ PointersResolve' /\ LoadedIsStored'
    BY <2>1 DEF Inv, TypeOK, ActiveIsLast, PointersResolve, LoadedIsStored
  <2>3. StoredFirst' /\ HistoryStored' /\ Differing' /\ OneChannel'
    BY <2>1 DEF Inv, StoredFirst, HistoryStored, Differing, OneChannel
  <2>4. Marked' /\ Announced' /\ Fits'
    BY <2>1 DEF Inv, Marked, Announced, Fits
  <2> QED
    BY <2>2, <2>3, <2>4 DEF Inv
<1> QED
  BY <1>1, <1>2, <1>3, <1>4, <1>5, <1>6, <1>7, <1>8, <1>9, <1>10 DEF Next

\* Memory and disk name the same releases, and what they name exists, for any
\* channels and versions, wherever a write raises or the process ends
\* (PluginChannelUpdater, PluginUpdateCache).
THEOREM UpdaterHolds == ASSUME UpdaterAssumption PROVE Spec => []UpdaterInv
<1>1. Init => Inv
  BY InitKeeps
<1>2. Inv /\ [Next]_vars => Inv'
  BY NextKeeps
<1>3. Inv => UpdaterInv
  <2>1. SUFFICES ASSUME Inv, todo = <<>>, NEW c \in Channel \ failed
                 PROVE  /\ active[c] # None => activeFile[c] = active[c]
                        /\ staged[c] # None => stagedFile[c] = staged[c]
    BY DEF Inv, UpdaterInv, DiskFollows
  <2> QED
    BY <2>1, Idle
<1> QED
  BY <1>1, <1>2, <1>3, PTL DEF Spec

\* rollback() reverts to another release (PluginChannelUpdater.rollback).
THEOREM RollbacksRevert == ASSUME UpdaterAssumption PROVE Spec => RollbackReverts
<1>1. Init => Inv
  BY InitKeeps
<1>2. Inv /\ [Next]_vars => Inv'
  BY NextKeeps
<1>3. ASSUME Inv, [Next]_vars PROVE [Reverts]_vars
  <2>1. Inv'
    BY <1>2, <1>3
  <2>2. SUFFICES ASSUME NEW c \in Channel, Len(history'[c]) < Len(history[c]), history'[c] # <<>>
                 PROVE  active'[c] # active[c]
    BY DEF Reverts
  <2> DEFINE n == Len(history[c])
             m == Len(history'[c])
  <2>3. /\ history[c] \in Seq(Version) /\ n \in Nat /\ history'[c] \in Seq(Version) /\ m \in Nat \ {0}
    <3>1. history[c] \in Seq(Version) /\ n \in Nat
      BY <1>3, Histories DEF Inv
    <3>2. history'[c] \in Seq(Version)
      BY <2>1, Bounded DEF Inv, TypeOK, UpdaterAssumption
    <3> QED
      BY <2>2, <3>1, <3>2
  <2>4. active[c] = history[c][n] /\ active'[c] = history'[c][m]
    <3>1. history[c] # <<>>
      BY <2>2, <2>3
    <3> QED
      BY <1>3, <2>1, <2>2, <2>3, <3>1 DEF Inv, ActiveIsLast, Last
  <2>5. CASE \E d \in Channel : Rollback(d)
    <3>1. PICK d \in Channel : Rollback(d)
      BY <2>5
    <3>2. d = c /\ history'[c] = Front(history[c]) /\ n > 1
      BY <1>3, <2>2, <3>1 DEF Rollback, Inv, TypeOK
    <3>3. m = n - 1 /\ history'[c][m] = history[c][n - 1] /\ n > 1
      BY <2>3, <3>2 DEF Front
    <3>4. \A i \in 1..n - 1 : history[c][i] # history[c][i + 1]
      BY <1>3 DEF Inv, Differing
    <3>5. history[c][n - 1] # history[c][(n - 1) + 1]
      BY <2>3, <3>3, <3>4
    <3> QED
      BY <2>3, <2>4, <3>3, <3>5
  <2>6. CASE history' = history
    BY <2>2, <2>3, <2>6
  <2>7. CASE Restart
    BY <2>2, <2>7 DEF Restart, NoHistory
  <2>8. CASE Proceed /\ history' # history
    <3>1. todo # <<>> /\ Head(todo) = todo[1] /\ todo[1] \in Pending
      BY <1>3, <2>8, Popped DEF Proceed, Inv
    <3>2. Register(todo[1].channel, todo[1].version)
      BY <2>8, <3>1 DEF Proceed, Forget, Resolve
    <3>3. todo[1].channel \in Channel /\ todo[1].version \in Version
      BY <3>1 DEF Pending
    <3>4. history[todo[1].channel] \in Seq(Version)
      BY <1>3, <3>3, Histories DEF Inv
    <3>5. history' = [history EXCEPT ![todo[1].channel] = Recorded(history[todo[1].channel], todo[1].version)]
      BY <3>2 DEF Register
    <3>6. Len(Recorded(history[todo[1].channel], todo[1].version)) \in
            {Len(history[todo[1].channel]), Len(history[todo[1].channel]) + 1}
      BY <3>3, <3>4, RecordedIs
    <3>7. history'[c] = history[c] \/ (c = todo[1].channel
             /\ history'[c] = Recorded(history[todo[1].channel], todo[1].version))
      BY <1>3, <3>3, <3>5 DEF Inv, TypeOK
    <3> QED
      BY <2>2, <2>3, <3>6, <3>7
  <2>9. (\E d \in Channel : Rollback(d)) \/ history' = history \/ Restart \/ (Proceed /\ history' # history)
    BY <1>3 DEF Next, WriteFile, WriteRaises, Load, SetChannel, Promote, Stage, vars, memory
  <2> QED
    BY <2>5, <2>6, <2>7, <2>8, <2>9
<1>4. Inv /\ [Next]_vars => [Reverts]_vars
  BY <1>3
<1>5. Spec => [][Reverts]_vars
  BY <1>1, <1>2, <1>4, PTL DEF Spec
<1> QED
  BY <1>5 DEF RollbackReverts
=============================================================================
