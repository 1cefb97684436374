----------------------------- MODULE KillSweeps -----------------------------
(* The kill actions of the force quit dialog: a handler reads its field, a sweep
   looks the running processes over for what the field says, and
   force_kill_multiple() kills what it found on a pool of threads.  A thread tries
   the three ways of kill_process() under a raised priority of the whole program,
   and the tree of a process that survives them.  Processes end on their own, and
   their numbers may be given to others, at any time. *)
EXTENDS Integers, SequencesExt

CONSTANTS
  Pid,        \* process numbers
  Self,       \* the program's own
  Shell,      \* its parent's
  Kids,       \* for each number, the numbers of its descendants
  Slot,       \* the threads of the pool
  Natures,    \* for each number, what may end who has it (see nature)
  MaxSweeps,  \* bound: sweeps
  MaxExits    \* bound: processes that end or are replaced by themselves

VARIABLES
  proc,      \* for each number: "runs", "zombie" or "gone"
  nature,    \* what ends it: "soft" terminate(), "hard" a kill, "denied" nothing
  reaped,    \* who is killed is reaped by its parent, and no zombie
  sweep,     \* the criterion of the sweep under way, "none" between sweeps
  matched,   \* what the sweep found
  queue,     \* what no thread has taken yet
  slot,      \* for each thread what it is at
  nice,      \* the priority of the program: "normal" or "raised"
  gone,      \* the sweep's successes
  sweeps, exits,
  raised,    \* (history) two threads have had the priority raised at a time
  byTree,    \* (history) the numbers whose tree was killed
  killed,    \* (history) the numbers killed in this sweep
  reused     \* (history) the numbers that have changed hands since the sweep looked

sweepVars == <<proc, nature, reaped, sweep, matched, queue, slot, nice, gone, sweeps, exits, raised,
               byTree, killed, reused>>
table == <<proc, nature, reaped, exits, reused>>
job == <<sweep, matched, sweeps>>

\* force_kill_by_executable() leaves out the program and its parent; by_user(),
\* older_than() and above_conns() the program; the other fifteen leave out nobody.
Criteria == {"executable", "user", "any"}
Spared(c) == CASE c = "executable" -> {Self, Shell} [] c = "user" -> {Self} [] OTHER -> {}

Idle == [at |-> "idle"]
SweepAssumption == {Self, Shell} \subseteq Pid /\ Self \in Kids[Shell] /\ Kids \in [Pid -> SUBSET Pid]

SweepInit ==
  /\ proc = [p \in Pid |-> "runs"] /\ nature \in {f \in [Pid -> UNION Range(Natures)] : \A p \in Pid : f[p] \in Natures[p]}
  /\ reaped \in BOOLEAN
  /\ sweep = "none" /\ matched = {} /\ queue = <<>> /\ slot = [t \in Slot |-> Idle]
  /\ nice = "normal" /\ gone = {} /\ sweeps = 0 /\ exits = 0
  /\ raised = FALSE /\ byTree = {} /\ killed = {} /\ reused = {}

Exists(p) == proc[p] # "gone"
Running == proc[Self] = "runs"

\* The handler's field is good and the sweep has looked at every process.
Sweep(c, found) ==
  /\ Running /\ sweep = "none" /\ sweeps < MaxSweeps
  /\ \A p \in found : Exists(p)
  /\ sweep' = c /\ sweeps' = sweeps + 1
  /\ matched' = found \ Spared(c) /\ queue' = SetToSeq(matched')
  /\ gone' = {} /\ byTree' = {} /\ killed' = {} /\ reused' = {}
  /\ UNCHANGED <<proc, nature, reaped, slot, nice, exits, raised>>

\* What a thread is at: the number it is to kill, the list of kill_process(), of the
\* process alone or of its tree, and whether all before it on the list are dead.
Job(p, list, tree, ok) == [at |-> "boost", pid |-> p, list |-> list, tree |-> tree, ok |-> ok]
\* force_kill(): a number nobody has counts as killed.
TakePid(t) ==
  /\ Running /\ slot[t] = Idle /\ queue # <<>> /\ queue' = Tail(queue)
  /\ LET p == Head(queue) IN
       IF Exists(p)
       THEN slot' = [slot EXCEPT ![t] = Job(p, <<p>>, FALSE, TRUE)] /\ UNCHANGED gone
       ELSE gone' = gone \cup {p} /\ UNCHANGED slot
  /\ UNCHANGED <<table, job, nice, raised, byTree, killed>>

Current(t) == Head(slot[t].list)
Raised(t, back) ==
  slot' = [slot EXCEPT ![t] = [Job(@.pid, @.list, @.tree, @.ok) EXCEPT !.at = "try"] @@ [prev |-> back]]
\* mutant of Boost: the priority to return to is the one it raises to
BoostForGood(t) ==
  /\ Running /\ slot[t].at = "boost" /\ Exists(Current(t)) /\ Raised(t, "raised")
  /\ nice' = "raised" /\ raised' = (raised \/ nice = "raised")
  /\ UNCHANGED <<table, job, queue, gone, byTree, killed>>
\* _priority_boost(): the priority there is is remembered, then raised.
Boost(t) ==
  /\ Running /\ slot[t].at = "boost" /\ Exists(Current(t)) /\ Raised(t, nice)
  /\ nice' = "raised" /\ raised' = (raised \/ nice = "raised")
  /\ UNCHANGED <<table, job, queue, gone, byTree, killed>>

\* The three ways, one after the other; a busy machine stops after the first, which
\* only what a terminate() ends has not survived.
Ends(p, first) == nature[p] = "soft" \/ (nature[p] = "hard" /\ ~first)
Try(t, first) ==
  /\ Running /\ slot[t].at = "try" /\ slot' = [slot EXCEPT ![t].at = "judge"]
  /\ LET p == Current(t) IN
       IF proc[p] = "runs" /\ Ends(p, first)
       THEN /\ proc' = [proc EXCEPT ![p] = IF reaped THEN "gone" ELSE "zombie"]
            /\ killed' = killed \cup {p}
       ELSE UNCHANGED <<proc, killed>>
  /\ UNCHANGED <<nature, reaped, exits, reused, job, queue, nice, gone, raised, byTree>>

(* What comes of a process of the list: one that survives has its tree killed,
   descendants first; a tree has to be dead as a whole, but for a process that is
   gone at the end. *)
Next1(t, dead) ==
  LET s == slot[t]
      rest == Tail(s.list)
      ok == s.ok /\ dead
      over == ok \/ s.tree \/ ~Exists(s.pid)
  IN \/ /\ rest # <<>>
        /\ slot' = [slot EXCEPT ![t] = Job(s.pid, rest, TRUE, ok)] /\ UNCHANGED <<gone, byTree>>
     \/ /\ rest = <<>> /\ over
        /\ slot' = [slot EXCEPT ![t] = Idle] /\ UNCHANGED byTree
        /\ gone' = IF ok \/ ~Exists(s.pid) THEN gone \cup {s.pid} ELSE gone
     \/ /\ rest = <<>> /\ ~over /\ byTree' = byTree \cup {s.pid}
        /\ slot' = [slot EXCEPT ![t] =
             Job(s.pid, Append(SetToSeq({p \in Kids[s.pid] : Exists(p)}), s.pid), TRUE, TRUE)]
        /\ UNCHANGED gone
\* kill_process() of a number that nobody has any more: it was not killed.
Miss(t) ==
  /\ Running /\ slot[t].at = "boost" /\ ~Exists(Current(t)) /\ Next1(t, FALSE)
  /\ UNCHANGED <<table, job, queue, nice, raised, killed>>
\* The priority goes back, and a process is dead when it is gone or a zombie.
Judge(t) ==
  /\ Running /\ slot[t].at = "judge" /\ nice' = slot[t].prev
  /\ Next1(t, proc[Current(t)] # "runs")
  /\ UNCHANGED <<table, job, queue, raised, killed>>

\* The pool is done and the dialog says how many.
SweepDone ==
  /\ Running /\ sweep # "none" /\ queue = <<>> /\ \A t \in Slot : slot[t] = Idle
  /\ sweep' = "none"
  /\ UNCHANGED <<table, matched, queue, slot, nice, gone, sweeps, raised, byTree, killed>>

\* A process ends by itself; a number that is free is given to another one.
Leave(p) ==
  /\ exits < MaxExits /\ exits' = exits + 1 /\ p # Self
  /\ \/ proc[p] = "runs" /\ proc' = [proc EXCEPT ![p] = "gone"] /\ UNCHANGED <<nature, reused>>
     \/ /\ proc[p] = "gone" /\ proc' = [proc EXCEPT ![p] = "runs"]
        /\ \E n \in Natures[p] : nature' = [nature EXCEPT ![p] = n]
        /\ reused' = reused \cup {p}
  /\ UNCHANGED <<reaped, job, queue, slot, nice, gone, raised, byTree, killed>>

SweepNext ==
  \/ SweepDone
  \/ \E c \in Criteria, found \in SUBSET Pid : Sweep(c, found)
  \/ \E t \in Slot : TakePid(t) \/ Boost(t) \/ Miss(t) \/ Judge(t)
                     \/ \E first \in BOOLEAN : Try(t, first)
  \/ \E p \in Pid : Leave(p)

----------------------------------------------------------------------------
(* A sweep that leaves the program out ends it only with the tree of another process
   that it could not end by itself; nothing else dies but what the sweep found, such
   a tree, and who has taken over a number. *)
OnlyMatchedDie ==
  \A p \in killed : p \in matched \/ \E q \in byTree : p \in Kids[q]
SparesItself ==
  (sweep = "user" /\ Self \in killed) => \E q \in byTree : Self \in Kids[q]
(* The number that is shown counts only processes the sweep found, each once and
   none that was running when its thread was done with it; who is not counted has
   had its tree killed, and that was not enough. *)
CountIsHonest ==
  /\ gone \subseteq matched
  /\ \A p \in gone : proc[p] # "runs" \/ p \in reused
  /\ (Running /\ sweep = "none") => matched \ gone \subseteq byTree
\* The program has its own priority back when no thread is killing, unless two
\* threads had it raised at a time: the one that came second may be the last to go
\* back, and goes back to what it found.
BoostIsTemporary ==
  (\A t \in Slot : slot[t].at \notin {"try", "judge"}) /\ ~raised => nice = "normal"
SweepInv == OnlyMatchedDie /\ SparesItself /\ CountIsHonest /\ BoostIsTemporary
=============================================================================
