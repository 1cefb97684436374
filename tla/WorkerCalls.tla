----------------------------- MODULE WorkerCalls -----------------------------
(* A call of a plugin's method from the supervisor to its budget and back
   (WorkerSupervisor, _WorkerProcess, BudgetController and the metrics of
   plugins/worker.py, _handle_call of plugins/runtime/toold_runner.py), for one
   plugin.  It runs in the program itself or, sandboxed, in a daemon of its own
   that serves one call after another; its budget is measured around the method,
   on the clock, the processor time and the peak of memory of the whole process.

   A method needs a unit of memory beyond its limit or none.  Calls are told
   apart by their thread. *)
EXTENDS Integers, Sequences, FiniteSets

CONSTANTS
  Thread,
  Limited,    \* the budgets a manifest may set: sets of "wall", "cpu", "memory"
  MaxTraces,  \* traces kept
  MaxWorkers, MaxCalls   \* bounds

VARIABLES
  workers,  \* the workers built so far, a sequence of records
  current,  \* _workers: the plugin's worker, or 0
  peak,     \* ru_maxrss of the program, 0, and of the daemons, 1..MaxWorkers
  call,     \* per thread: the call under way, or Idle
  metrics,  \* _metrics of the plugin
  ended     \* history: calls that ended, and those that raised

callVars == <<workers, current, peak, call, metrics, ended>>

Idle == [at |-> "idle"]
Demand == [memory : 0..1, slow : BOOLEAN, busy : BOOLEAN, fault : {"none", "startup", "raises"}]
Bigger(m, n) == IF m > n THEN m ELSE n

CallsInit ==
  /\ workers = <<>> /\ current = 0
  /\ peak = [p \in 0..MaxWorkers |-> 0]
  /\ call = [t \in Thread |-> Idle]
  /\ metrics = [invocations |-> 0, errors |-> 0, denials |-> 0, traces |-> <<>>]
  /\ ended = [all |-> 0, raised |-> 0]

Running(t) == call[t].at = "running"
\* where a worker's methods run
Process(w) == IF workers[w].boxed THEN w ELSE 0
Inside(p) == {t \in Thread : Running(t) /\ Process(call[t].worker) = p}
Begun == ended.all + Cardinality({t \in Thread : call[t] # Idle})

\* The last MaxTraces of them
Trace(status) ==
  LET traces == Append(metrics.traces, status)
  IN IF Len(traces) > MaxTraces THEN Tail(traces) ELSE traces

----------------------------------------------------------------------------
(* WorkerSupervisor *)

\* register() refuses an unsafe scope.
Refuse ==
  /\ metrics.denials = 0
  /\ metrics' = [metrics EXCEPT !.denials = @ + 1, !.traces = Trace("capability_denied")]
  /\ UNCHANGED <<workers, current, peak, call, ended>>

\* register(): a worker there was is forgotten, not shut down.
Register ==
  /\ Len(workers) < MaxWorkers
  /\ \E boxed \in BOOLEAN, limits \in Limited :
       workers' = Append(workers, [boxed |-> boxed, limits |-> limits, up |-> TRUE])
  /\ current' = Len(workers')
  /\ UNCHANGED <<peak, call, metrics, ended>>

\* A daemon is shut down with its calls still out.
Unregister ==
  /\ current # 0 /\ current' = 0
  /\ workers' = [workers EXCEPT ![current].up = ~@ \/ ~workers[current].boxed]
  /\ UNCHANGED <<peak, call, metrics, ended>>

Begin(t) ==
  /\ call[t] = Idle /\ current # 0 /\ Begun < MaxCalls
  /\ call' = [call EXCEPT ![t] = [at |-> "asked", worker |-> current]]
  /\ UNCHANGED <<workers, current, peak, metrics, ended>>

\* The method begins, measured from here on; a daemon serves one at a time.
Start(t) ==
  /\ call[t].at = "asked"
  /\ LET w == call[t].worker
         others == Inside(Process(w))
     IN /\ workers[w].boxed => workers[w].up /\ others = {}
        /\ call' = [o \in Thread |->
             CASE o = t -> [at |-> "running", worker |-> w, base |-> peak[Process(w)], did |-> {},
                            shared |-> others # {}, othersBusy |-> FALSE]
               [] o \in others -> [call[o] EXCEPT !.shared = TRUE]
               [] OTHER -> call[o]]
  /\ UNCHANGED <<workers, current, peak, metrics, ended>>

\* The method does its work: memory it touches, time it takes; what runs in its
\* process meanwhile is measured with it.
Work(t) ==
  /\ Running(t) /\ call[t].did = {}
  /\ LET p == Process(call[t].worker)
     IN \E d \in Demand :
          /\ peak' = [peak EXCEPT ![p] = Bigger(@, d.memory)]
          /\ call' = [o \in Thread |->
               CASE o = t -> [call[t] EXCEPT !.did = {d}]
                 [] o \in Inside(p) \ {t} -> [call[o] EXCEPT !.othersBusy = @ \/ d.busy]
                 [] OTHER -> call[o]]
  /\ UNCHANGED <<workers, current, metrics, ended>>

\* mutant of Breaches: the memory of the process counts, not what it grew by
BreachesOfPeak(c, d) ==
  {b \in workers[c.worker].limits :
     \/ b = "wall" /\ d.slow
     \/ b = "cpu" /\ (d.busy \/ c.othersBusy)
     \/ b = "memory" /\ peak[Process(c.worker)] > 0}

\* BudgetController.run, once the method has returned or raised
Breaches(c, d) ==
  {b \in workers[c.worker].limits :
     \/ b = "wall" /\ d.slow
     \/ b = "cpu" /\ (d.busy \/ c.othersBusy)
     \/ b = "memory" /\ peak[Process(c.worker)] > c.base}

Outcome(c, d) ==
  IF Breaches(c, d) # {} THEN "budget_violation"
  ELSE CASE d.fault = "startup" -> "startup_error"
    [] d.fault = "raises" -> "runtime_error"
    [] OTHER -> "ok"

\* mutant of Recorded: an error that aborts the startup is not one of the plugin's
RecordedMildly(status) ==
  [metrics EXCEPT !.invocations = @ + 1, !.traces = Trace(status),
                  !.errors = IF status \in {"ok", "startup_error"} THEN @ ELSE @ + 1]

\* record_invocation
Recorded(status) ==
  [metrics EXCEPT !.invocations = @ + 1, !.traces = Trace(status),
                  !.errors = IF status = "ok" THEN @ ELSE @ + 1]

End(t, status) ==
  /\ metrics' = Recorded(status)
  /\ ended' = [all |-> ended.all + 1,
               raised |-> IF status = "ok" THEN ended.raised ELSE ended.raised + 1]
  /\ call' = [call EXCEPT ![t] = Idle]
  /\ UNCHANGED <<workers, current, peak>>

Finish(t) ==
  /\ Running(t) /\ workers[call[t].worker].up
  /\ \E d \in call[t].did : End(t, Outcome(call[t], d))

\* The daemon is gone: TooldProcessError
Lost(t) ==
  /\ call[t] # Idle /\ ~workers[call[t].worker].up
  /\ End(t, "runtime_error")

\* A daemon dies by itself.
Die ==
  /\ \E w \in DOMAIN workers :
       /\ workers[w].boxed /\ workers[w].up /\ \E t \in Thread : call[t] # Idle /\ call[t].worker = w
       /\ workers' = [workers EXCEPT ![w].up = FALSE]
  /\ UNCHANGED <<current, peak, call, metrics, ended>>

CallsNext ==
  \/ Refuse \/ Register \/ Unregister \/ Die
  \/ \E t \in Thread : Begin(t) \/ Start(t) \/ Work(t) \/ Finish(t) \/ Lost(t)

CallsSpec == CallsInit /\ [][CallsNext]_callVars

----------------------------------------------------------------------------
(* Properties *)

\* Every call that has ended is counted once, as an error if its caller was given
\* one, whatever became of the worker meanwhile, and the traces kept are the last
\* ones (worker.py:700, 305).
Accounted ==
  /\ metrics.invocations = ended.all /\ metrics.errors = ended.raised
  /\ Len(metrics.traces) = (LET n == ended.all + metrics.denials
                            IN IF n > MaxTraces THEN MaxTraces ELSE n)

Over(d) == {b \in {"wall", "cpu", "memory"} : \/ b = "wall" /\ d.slow
                                              \/ b = "cpu" /\ d.busy
                                              \/ b = "memory" /\ d.memory > 0}

\* The step that ends a call t with an answer: a call blamed for exceeding its
\* budget did so, unless it shared its process with another; and one that
\* exceeded it is blamed, even if it raised as well, unless the process had used
\* as much memory before: the peak does not fall (BudgetController.run,
\* worker.py:469, "Raised when a worker exceeds its declared budget", 445).
BlamedRightly(t) ==
  \A d \in call[t].did :
    LET status == metrics'.traces[Len(metrics'.traces)]
        exceeded == Over(d) \cap workers[call[t].worker].limits
    IN IF status = "budget_violation" THEN exceeded # {} \/ call[t].shared
       ELSE exceeded \subseteq (IF call[t].base > 0 \/ call[t].shared THEN {"memory"} ELSE {})

CallSteps ==
  \A t \in Thread :
    Running(t) /\ workers[call[t].worker].up /\ call'[t] = Idle => BlamedRightly(t)

=============================================================================
