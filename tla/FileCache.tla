------------------------------ MODULE FileCache ------------------------------
(* The disk-backed cache of utils/files/cache.py (CacheManager), as the network
   tools use it: processes that each keep the file's entries in memory, and
   threads that share a process's copy and its lock.

   A process first reads the file and then its modification time.  Every
   operation begins with _check_reload, which takes the lock, looks at
   the file's modification time, reads the file when it is newer than the one
   seen last, and lets the lock go; the operation proper takes the lock anew.
   A save replaces the file in one step, so an operation proper is one step;
   between the look at the time and the reading another process may write.
   File times do not repeat here (every write is a new time).  An entry is its
   value and whether its time to live has run out. *)
EXTENDS Naturals, FiniteSets

CONSTANTS
  Process,      \* programs that use the file
  Thread,       \* their threads
  ProcessOf,    \* the process of each thread
  Key, Value,
  Blank,         \* in place of a value or a key
  MaxWrites,    \* times the file is written or removed
  MaxCalls,     \* calls of all threads
  MaxSaveFails  \* saves that fail, unnoticed

Absent == [value |-> Blank, fresh |-> FALSE]
NoLock == "unlocked"
Nothing == [k \in Key |-> Absent]

CacheAssumption ==
  /\ ProcessOf \in [Thread -> Process]
  /\ Blank \notin Value \union Key /\ NoLock \notin Thread
  /\ MaxWrites \in Nat /\ MaxCalls \in Nat /\ MaxSaveFails \in Nat

VARIABLES
  disk,      \* what the file holds; without a file, Nothing
  mtime,     \* its modification time; without a file, 0
  clock,     \* the time of the last write
  mem,       \* _cache: each process's copy
  seen,      \* _mtime: the modification time each process has seen
  lock,      \* _lock: the thread that is inside _check_reload
  call,      \* what each thread is at
  calls,     \* calls made
  stat,      \* the time the thread inside _check_reload has read
  up,        \* each process: "new", "loaded" when it has read the file, "up"
  behind,    \* processes whose last save failed, or whose file changed as they came up
  writers,   \* processes that have written or removed the file
  failed     \* saves that failed

vars == <<disk, mtime, clock, mem, seen, lock, call, calls, stat, up, behind, writers, failed>>

Idle == [op |-> "idle"]
Op == {"get", "set", "delete", "pop", "prune", "clear"}
Calls == [op : Op, key : Key \union {Blank}, value : Value \union {Blank},
          at : {"check", "load", "body", "remove"}]
Entry == [value : Value, fresh : BOOLEAN]
Contents == [Key -> Entry \union {Absent}]

TypeOK ==
  /\ disk \in Contents /\ mtime \in 0..MaxWrites /\ clock \in 0..MaxWrites
  /\ mem \in [Process -> Contents] /\ seen \in [Process -> 0..MaxWrites]
  /\ lock \in [Process -> Thread \union {NoLock}]
  /\ call \in [Thread -> Calls \union {Idle}] /\ calls \in 0..MaxCalls
  /\ stat \in [Process -> 0..MaxWrites]
  /\ up \in [Process -> {"new", "loaded", "up"}]
  /\ behind \subseteq Process /\ writers \subseteq Process /\ failed \in 0..MaxSaveFails

Init ==
  /\ disk = Nothing /\ mtime = 0 /\ clock = 0
  /\ mem = [p \in Process |-> Nothing] /\ seen = [p \in Process |-> 0]
  /\ lock = [p \in Process |-> NoLock]
  /\ call = [t \in Thread |-> Idle] /\ calls = 0
  /\ stat = [p \in Process |-> 0]
  /\ up = [p \in Process |-> "new"]
  /\ behind = {} /\ writers = {} /\ failed = 0

At(t, op, at) == call[t] # Idle /\ call[t].op = op /\ call[t].at = at
Free(t) == lock[ProcessOf[t]] = NoLock
Fresh(entry) == entry.fresh
Step(t, at) == call' = [call EXCEPT ![t].at = at]
Return(t) == call' = [call EXCEPT ![t] = Idle]

\* A process comes up: it reads the file, and then looks at its time.  What
\* another one wrote in between it takes for known.
ReadFirst(p) ==
  /\ up[p] = "new" /\ up' = [up EXCEPT ![p] = "loaded"]
  /\ mem' = [mem EXCEPT ![p] = disk]
  /\ UNCHANGED <<disk, mtime, clock, seen, lock, call, calls, stat, behind, writers, failed>>

LookFirst(p) ==
  /\ up[p] = "loaded" /\ up' = [up EXCEPT ![p] = "up"]
  /\ seen' = [seen EXCEPT ![p] = mtime]
  /\ behind' = IF mem[p] = disk THEN behind ELSE behind \union {p}
  /\ UNCHANGED <<disk, mtime, clock, mem, lock, call, calls, stat, writers, failed>>

Begin(t) ==
  /\ up[ProcessOf[t]] = "up" /\ call[t] = Idle /\ calls < MaxCalls
  /\ \E op \in Op, k \in Key \union {Blank}, v \in Value \union {Blank} :
       /\ k = Blank <=> op \in {"prune", "clear"}
       /\ v = Blank <=> op # "set"
       /\ call' = [call EXCEPT ![t] = [op |-> op, key |-> k, value |-> v, at |-> "check"]]
  /\ calls' = calls + 1
  /\ UNCHANGED <<disk, mtime, clock, mem, seen, lock, stat, up, behind, writers, failed>>

-----------------------------------------------------------------------------
(* _check_reload *)

\* There is no file: the copy is emptied.
FileMissing(t) ==
  /\ call[t] # Idle /\ call[t].at = "check" /\ Free(t) /\ mtime = 0
  /\ mem' = [mem EXCEPT ![ProcessOf[t]] = Nothing]
  /\ seen' = [seen EXCEPT ![ProcessOf[t]] = 0]
  /\ behind' = behind \ {ProcessOf[t]}
  /\ Step(t, "body")
  /\ UNCHANGED <<disk, mtime, clock, lock, calls, stat, up, writers, failed>>

Stat(t) ==
  /\ call[t] # Idle /\ call[t].at = "check" /\ Free(t) /\ mtime > 0
  /\ IF mtime > seen[ProcessOf[t]]
     THEN /\ lock' = [lock EXCEPT ![ProcessOf[t]] = t]
          /\ stat' = [stat EXCEPT ![ProcessOf[t]] = mtime]
          /\ Step(t, "load")
     ELSE Step(t, "body") /\ UNCHANGED <<lock, stat>>
  /\ UNCHANGED <<disk, mtime, clock, mem, seen, calls, up, behind, writers, failed>>

\* mutant of Load: the time is taken after the contents
TimeAfterLoad(t) ==
  LET p == ProcessOf[t] IN
  /\ lock[p] = t
  /\ \/ /\ mem[p] # disk /\ mem' = [mem EXCEPT ![p] = disk]
        /\ UNCHANGED <<seen, lock, behind, call>>
     \/ /\ seen' = [seen EXCEPT ![p] = mtime] /\ behind' = behind \ {p}
        /\ lock' = [lock EXCEPT ![p] = NoLock] /\ Step(t, "body") /\ UNCHANGED mem
  /\ UNCHANGED <<disk, mtime, clock, calls, stat, up, writers, failed>>

\* The file as it is now is read, under the time that was looked up before; one
\* that has gone meanwhile reads as no entries.
Load(t) ==
  LET p == ProcessOf[t] IN
  /\ lock[p] = t
  /\ mem' = [mem EXCEPT ![p] = disk]
  /\ seen' = [seen EXCEPT ![p] = stat[p]]
  /\ stat' = [stat EXCEPT ![p] = 0]
  /\ behind' = behind \ {p}
  /\ lock' = [lock EXCEPT ![p] = NoLock]
  /\ Step(t, "body")
  /\ UNCHANGED <<disk, mtime, clock, calls, up, writers, failed>>

-----------------------------------------------------------------------------
(* The operations proper *)

\* _save: the copy replaces the file, or, unnoticed, does not.  The process does
\* not take note of the time of its own write.
Save(p, copy) ==
  /\ mem' = [mem EXCEPT ![p] = copy]
  /\ \/ /\ clock < MaxWrites
        /\ disk' = copy /\ mtime' = clock + 1 /\ clock' = clock + 1
        /\ behind' = behind \ {p} /\ writers' = writers \union {p} /\ UNCHANGED failed
     \/ /\ failed < MaxSaveFails /\ failed' = failed + 1
        /\ behind' = behind \union {p} /\ UNCHANGED <<disk, mtime, clock, writers>>

Keep == UNCHANGED <<disk, mtime, clock, mem, behind, writers, failed>>

\* get(): an entry that has run out is dropped.
Get(t) ==
  LET p == ProcessOf[t] k == call[t].key IN
  /\ At(t, "get", "body") /\ Free(t)
  /\ IF mem[p][k] = Absent \/ Fresh(mem[p][k])
     THEN Keep
     ELSE Save(p, [mem[p] EXCEPT ![k] = Absent])
  /\ Return(t) /\ UNCHANGED <<seen, lock, calls, stat, up>>

Set(t) ==
  LET p == ProcessOf[t] IN
  /\ At(t, "set", "body") /\ Free(t)
  /\ Save(p, [mem[p] EXCEPT ![call[t].key] = [value |-> call[t].value, fresh |-> TRUE]])
  /\ Return(t) /\ UNCHANGED <<seen, lock, calls, stat, up>>

Delete(t) ==
  LET p == ProcessOf[t] k == call[t].key IN
  /\ At(t, "delete", "body") /\ Free(t)
  /\ IF mem[p][k] = Absent THEN Keep ELSE Save(p, [mem[p] EXCEPT ![k] = Absent])
  /\ Return(t) /\ UNCHANGED <<seen, lock, calls, stat, up>>

\* pop() is a get() and, when that found something, a removal under the lock
\* taken anew, without another look at the file.
PopGet(t) ==
  LET p == ProcessOf[t] k == call[t].key IN
  /\ At(t, "pop", "body") /\ Free(t)
  /\ IF mem[p][k] = Absent THEN Keep /\ Return(t)
     ELSE IF Fresh(mem[p][k]) THEN Keep /\ Step(t, "remove")
     ELSE Save(p, [mem[p] EXCEPT ![k] = Absent]) /\ Return(t)
  /\ UNCHANGED <<seen, lock, calls, stat, up>>

PopRemove(t) ==
  LET p == ProcessOf[t] IN
  /\ At(t, "pop", "remove") /\ Free(t)
  /\ Save(p, [mem[p] EXCEPT ![call[t].key] = Absent])
  /\ Return(t) /\ UNCHANGED <<seen, lock, calls, stat, up>>

\* prune(), and get_many() of every key, drop all that has run out.
Prune(t) ==
  LET p == ProcessOf[t] IN
  /\ At(t, "prune", "body") /\ Free(t)
  /\ LET left == [k \in Key |-> IF Fresh(mem[p][k]) THEN mem[p][k] ELSE Absent]
     IN IF left = mem[p] THEN Keep ELSE Save(p, left)
  /\ Return(t) /\ UNCHANGED <<seen, lock, calls, stat, up>>

\* clear() removes the file and forgets its time.
Clear(t) ==
  LET p == ProcessOf[t] IN
  /\ At(t, "clear", "body") /\ Free(t) /\ clock < MaxWrites
  /\ mem' = [mem EXCEPT ![p] = Nothing] /\ seen' = [seen EXCEPT ![p] = 0]
  /\ disk' = Nothing /\ mtime' = 0
  /\ behind' = behind \ {p} /\ writers' = writers \union {p}
  /\ Return(t) /\ UNCHANGED <<clock, lock, calls, stat, up, failed>>

\* Time passes: what is stored for a key runs out, wherever it is held.
Expire(k) ==
  LET Old(copy) == IF copy[k] = Absent THEN copy ELSE [copy EXCEPT ![k].fresh = FALSE] IN
  /\ Fresh(disk[k]) \/ \E p \in Process : Fresh(mem[p][k])
  /\ mem' = [p \in Process |-> Old(mem[p])] /\ disk' = Old(disk)
  /\ UNCHANGED <<mtime, clock, seen, lock, call, calls, stat, up, behind, writers, failed>>

Next ==
  \/ \E t \in Thread :
       \/ Begin(t) \/ FileMissing(t) \/ Stat(t) \/ Load(t)
       \/ Get(t) \/ Set(t) \/ Delete(t) \/ PopGet(t) \/ PopRemove(t) \/ Prune(t) \/ Clear(t)
  \/ \E k \in Key : Expire(k)
  \/ \E p \in Process : ReadFirst(p) \/ LookFirst(p)

Spec == Init /\ [][Next]_vars

-----------------------------------------------------------------------------
(* Properties *)

\* A process whose last look at the file is not older than the file has what the
\* file has, unless a save of its own failed or another process wrote while it
\* came up: no other write escapes the comparison of the times.
SeenIsSame ==
  \A p \in Process :
    seen[p] = mtime /\ mtime > 0 /\ p \notin behind => mem[p] = disk

\* A process that has the file to itself never differs from it while its saves
\* succeed, whatever its threads do between their two locks.
AloneInStep ==
  \A p \in Process :
    p \notin behind /\ writers \subseteq {p} => mem[p] = disk

CacheInv == TypeOK /\ SeenIsSame /\ AloneInStep
=============================================================================
