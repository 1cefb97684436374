------------------------------ MODULE SetupRun ------------------------------
(***************************************************************************)
(* SetupOrchestrator (src/coolbox/setup/orchestrator.py): one process runs *)
(* the planned tasks stage by stage, retries a failed task when a          *)
(* continuous validator asks for it, appends each executed result to a     *)
(* journal file and can later resume that journal, in the same process or  *)
(* after a crash.                                                          *)
(*                                                                         *)
(* Memory (lost by a crash): pc .. aborted.   Disk: header, log, tail.     *)
(* A task name stands for its registered SetupTask, a result for its       *)
(* status, the journal for the readable result lines of the newest file.   *)
(***************************************************************************)
EXTENDS Naturals, Sequences

CONSTANTS
  Task,               \* names of the registered tasks
  NStages,            \* length of STAGE_ORDER
  StageOf,            \* SetupTask.stage, as an index into STAGE_ORDER
  Rank,               \* registration order of the tasks
  Deps,               \* SetupTask.dependencies
  AllowFail,          \* tasks registered with allow_fail
  MaxRetries,         \* SetupTask.max_retries
  Recipe,             \* the recipes a run may be given
  Disabled,           \* per recipe, the tasks its stage configuration skips
  ContinueOnFailure,  \* the recipes whose config says continue_on_failure
  NoTask,             \* no task is being attempted
  Tails,              \* what a crash inside a write may leave at the file's end
  MaxRuns,            \* bound on runs
  MaxCrashes          \* bound on crashes and restarts

Stage    == 1..NStages
Status   == {"none", "success", "skipped", "failed"}
Executed == {"success", "skipped", "failed"}
Entry    == [task : Task, status : Executed]

ASSUME TaskAssumption ==
  /\ NStages \in Nat
  /\ NoTask \notin Task
  /\ StageOf \in [Task -> Stage]
  /\ Rank \in [Task -> Nat]
  /\ \A t, u \in Task : Rank[t] = Rank[u] => t = u
  /\ Deps \in [Task -> SUBSET Task]
  /\ AllowFail \subseteq Task
  /\ MaxRetries \in [Task -> Nat]
  /\ Recipe \cap {"none", "empty"} = {}
  /\ Disabled \in [Recipe -> SUBSET Task]
  /\ ContinueOnFailure \subseteq Recipe
  /\ Tails \subseteq {"clean", "torn", "bare"}
  /\ MaxRuns \in Nat
  /\ MaxCrashes \in Nat

VARIABLES
  recipe,      \* the run's recipe
  pc,          \* idle, stage (between stages), tasks, attempt, judge
  stages,      \* the run's stage filter; {} selects every stage
  tasks,       \* the run's task filter; {} selects every task
  stage,       \* position in STAGE_ORDER
  done,        \* tasks of this stage the loop has left behind
  cur,         \* the task being attempted
  results,     \* context.results
  attempts,    \* _attempts
  primed,      \* _resume_journal is not None
  saved,       \* _resume_successes
  pending,     \* _resume_success_pending
  stageFailed, \* stage_failed
  failedHere,  \* tasks with a FAILED entry in stage_results
  ran,         \* _last_recipe is not None
  aborted,     \* the last run left the stage loop by its break
  header,      \* "none": no journal; "empty": no readable run line; else the
               \* recipe that line names
  log,         \* the readable result lines of the newest journal file
  tail,        \* clean, torn (unreadable last line), bare (no final newline)
  credited,    \* history: tasks reused from this journal file so far
  runs, crashes

plan   == <<recipe, stages, tasks>>
loop   == <<stage, done, cur, attempts, pending, stageFailed, failedHere>>
memory == <<results, primed, saved, ran, aborted>>
disk   == <<header, log, tail, credited>>
bounds == <<runs, crashes>>
vars   == <<pc, plan, loop, memory, disk, bounds>>

-----------------------------------------------------------------------------
(* The plan (_build_execution_plan) *)

Selected(f, g) == {t \in Task : /\ f # {} => StageOf[t] \in f
                                /\ g # {} => t \in g}

StageTasks(s, f, g) == {t \in Selected(f, g) : StageOf[t] = s}

NoCycleCheck(S) == FALSE                              \* mutant of Cyclic

(* Kahn's algorithm stops short of S exactly when some non-empty part of S *)
(* has no member free of dependencies on that part.                        *)
Cyclic(S) == \E C \in SUBSET S : C # {} /\ \A t \in C : Deps[t] \cap C # {}

FilterUnchecked(t, d, f, g) ==                        \* mutant of BadDependency
  \/ StageOf[d] > StageOf[t]
  \/ StageOf[d] = StageOf[t] /\ d \notin Selected(f, g)
  \/ StageOf[d] < StageOf[t] /\ f # {} /\ StageOf[d] \notin f

BadDependency(t, d, f, g) ==
  \/ StageOf[d] > StageOf[t]
  \/ StageOf[d] = StageOf[t] /\ d \notin Selected(f, g)
  \/ StageOf[d] < StageOf[t] /\ f # {} /\ StageOf[d] \notin f
  \/ StageOf[d] < StageOf[t] /\ g # {} /\ d \notin g

PlanError(f, g) ==
  \/ \E t \in Selected(f, g) : \E d \in Deps[t] : BadDependency(t, d, f, g)
  \/ \E s \in Stage : Cyclic(StageTasks(s, f, g))

Planned(s) == StageTasks(s, stages, tasks)

(* The heap yields, among the tasks whose same-stage dependencies have     *)
(* been emitted, the one registered first.                                 *)
Ready(s) == {t \in Planned(s) \ done : Deps[t] \cap Planned(s) \subseteq done}
Turn(t)  == t \in Ready(stage) /\ \A u \in Ready(stage) : Rank[t] <= Rank[u]

-----------------------------------------------------------------------------
(* The journal *)

Lines(j, t) == {i \in 1..Len(j) : j[i].task = t}

FirstLine(j, t) == {i \in Lines(j, t) : \A k \in Lines(j, t) : i <= k}  \* mutant of LastLine

(* latest_results: the last line about a task wins *)
LastLine(j, t) == {i \in Lines(j, t) : \A k \in Lines(j, t) : k <= i}

NotFailed(j) ==                                       \* mutant of Successes
  {t \in Task : \E i \in LastLine(j, t) : j[i].status # "failed"}

Successes(j) == {t \in Task : \E i \in LastLine(j, t) : j[i].status = "success"}

(* Opened with mode "a": text after an unterminated line joins that line,  *)
(* and the joined line no longer parses.                                   *)
LoseBareLine ==
  IF tail = "bare"
  THEN IF log = <<>> THEN header' = "empty" /\ log' = log
       ELSE header' = header /\ log' = SubSeq(log, 1, Len(log) - 1)
  ELSE UNCHANGED <<header, log>>

-----------------------------------------------------------------------------
Init ==
  /\ recipe \in Recipe
  /\ pc = "idle" /\ stages = {} /\ tasks = {} /\ stage = 1
  /\ done = {} /\ cur = NoTask
  /\ results = [t \in Task |-> "none"]
  /\ attempts = [t \in Task |-> 0]
  /\ primed = FALSE /\ saved = {} /\ pending = {}
  /\ stageFailed = FALSE /\ failedHere = {}
  /\ ran = FALSE /\ aborted = FALSE
  /\ header = "none" /\ log = <<>> /\ tail = "clean" /\ credited = {}
  /\ runs = 0 /\ crashes = 0

(* run() up to the stage loop, resuming sv from the journal when pr holds. *)
(* A plan that raises leaves the journal closed and the resume state set.  *)
StartRun(r, f, g, pr, sv) ==
  /\ pc = "idle" /\ runs < MaxRuns
  /\ runs' = runs + 1 /\ crashes' = crashes
  /\ recipe' = r /\ stages' = f /\ tasks' = g
  /\ stage' = 1 /\ done' = {} /\ cur' = NoTask
  /\ results' = [t \in Task |-> IF t \in sv THEN "success" ELSE "none"]
  /\ attempts' = [t \in Task |-> 0]
  /\ primed' = pr /\ saved' = sv /\ pending' = sv
  /\ stageFailed' = FALSE /\ failedHere' = {}
  /\ ran' = TRUE /\ aborted' = FALSE
  /\ \/ /\ PlanError(f, g)
        /\ pc' = "idle" /\ UNCHANGED disk
     \/ /\ ~PlanError(f, g)
        /\ pc' = "stage" /\ tail' = "clean"
        /\ IF pr /\ header # "none"
           THEN LoseBareLine /\ credited' = credited \cup sv
           ELSE header' = r /\ log' = <<>> /\ credited' = {}

(* run() called directly, with whatever resume state is set *)
Run(r, f, g) == StartRun(r, f, g, primed, saved)

(* BootManager._execute_setup: a profile that lists stages resumes the     *)
(* newest journal if its run line names the same recipe or is unreadable.  *)
BootRun(r, f) ==
  IF f # {} /\ header \in {r, "empty"}
  THEN StartRun(r, f, {}, TRUE, Successes(log))
  ELSE StartRun(r, f, {}, primed, saved)

(* retry(): a process that has not run yet resumes the newest journal and  *)
(* its recipe, and gives up when that journal has no readable run line.    *)
Retry(f, g) ==
  \/ ran /\ StartRun(recipe, f, g, primed, saved)
  \/ /\ ~ran /\ header \in Recipe
     /\ StartRun(header, f, g, TRUE, Successes(log))

RetryRejected ==
  /\ pc = "idle" /\ ~ran /\ header = "empty"
  /\ primed' = TRUE /\ saved' = Successes(log)
  /\ UNCHANGED <<pc, plan, loop, results, ran, aborted, disk, bounds>>

(* the finally clause of run() *)
Finish ==
  /\ pc' = "idle"
  /\ primed' = FALSE /\ saved' = {} /\ pending' = {}
  /\ UNCHANGED <<plan, stage, done, cur, results, attempts, stageFailed,
                 failedHere, ran, disk, bounds>>

-----------------------------------------------------------------------------
(* The stage loop *)

NextInStage == stages = {} \/ stage + 1 \in stages     \* mutant of InStage
InStage == stages = {} \/ stage \in stages

SkipStage ==
  /\ pc = "stage" /\ stage \in Stage
  /\ ~InStage \/ Planned(stage) = {}
  /\ stage' = stage + 1
  /\ UNCHANGED <<pc, plan, done, cur, attempts, pending, stageFailed,
                 failedHere, memory, disk, bounds>>

EnterStage ==
  /\ pc = "stage" /\ stage \in Stage
  /\ InStage /\ Planned(stage) # {}
  /\ pc' = "tasks" /\ done' = {} /\ stageFailed' = FALSE /\ failedHere' = {}
  /\ UNCHANGED <<plan, stage, cur, attempts, pending, memory, disk, bounds>>

(* dispatch_before_stage raises PluginStartupError; run() re-raises it *)
StageRaises ==
  /\ pc = "stage" /\ stage \in Stage
  /\ InStage /\ Planned(stage) # {}
  /\ aborted' = FALSE /\ Finish

Blocking == failedHere \ AllowFail

LeaveOpen ==                                          \* mutant of LeaveStage
  /\ pc = "tasks" /\ Planned(stage) \subseteq done
  /\ recipe \in ContinueOnFailure \/ Blocking = {}
  /\ stage' = stage + 1
  /\ UNCHANGED <<pc, plan, done, cur, attempts, pending, stageFailed, failedHere,
                 memory, disk, bounds>>

LeaveStage ==
  /\ pc = "tasks" /\ Planned(stage) \subseteq done
  /\ recipe \in ContinueOnFailure \/ Blocking = {}
  /\ pc' = "stage" /\ stage' = stage + 1
  /\ UNCHANGED <<plan, done, cur, attempts, pending, stageFailed, failedHere,
                 memory, disk, bounds>>

Break ==
  /\ pc = "tasks" /\ Planned(stage) \subseteq done
  /\ recipe \notin ContinueOnFailure /\ Blocking # {}
  /\ aborted' = TRUE /\ Finish

Return ==
  /\ pc = "stage" /\ stage \notin Stage
  /\ aborted' = FALSE /\ Finish

-----------------------------------------------------------------------------
(* The task loop of _run_stage *)

Missing(t) == \E d \in Deps[t] : results[d] = "none"
BlockedBySkip(t) == \E d \in Deps[t] : results[d] = "skipped"  \* mutant of Blocked
Blocked(t) == \E d \in Deps[t] : results[d] \notin {"none", "success"}

ReuseOnce(t) ==                                       \* mutant of Reuse
  /\ pc = "tasks" /\ Turn(t) /\ t \in pending
  /\ pending' = {} /\ done' = done \cup {t}
  /\ UNCHANGED <<pc, plan, stage, cur, attempts, stageFailed, failedHere,
                 memory, disk, bounds>>

Reuse(t) ==
  /\ pc = "tasks" /\ Turn(t) /\ t \in pending
  /\ pending' = pending \ {t} /\ done' = done \cup {t}
  /\ UNCHANGED <<pc, plan, stage, cur, attempts, stageFailed, failedHere,
                 memory, disk, bounds>>

Off(t) == t \in Disabled[recipe] \/ Missing(t)

SkipForever(t) ==                                     \* mutant of Skip
  /\ pc = "tasks" /\ Turn(t) /\ t \notin pending
  /\ Off(t) \/ Blocked(t) \/ stageFailed
  /\ stageFailed' = (stageFailed \/ (~Off(t) /\ Blocked(t)))
  /\ results' = [results EXCEPT ![t] = "skipped"]
  /\ UNCHANGED <<pc, plan, stage, done, cur, attempts, pending, failedHere,
                 primed, saved, ran, aborted, disk, bounds>>

(* Not asked for, or unable to run: only a failed or skipped dependency    *)
(* marks the stage as failed.                                              *)
Skip(t) ==
  /\ pc = "tasks" /\ Turn(t) /\ t \notin pending
  /\ Off(t) \/ Blocked(t) \/ stageFailed
  /\ stageFailed' = (stageFailed \/ (~Off(t) /\ Blocked(t)))
  /\ results' = [results EXCEPT ![t] = "skipped"]
  /\ done' = done \cup {t}
  /\ UNCHANGED <<pc, plan, stage, cur, attempts, pending, failedHere,
                 primed, saved, ran, aborted, disk, bounds>>

Begin(t) ==
  /\ pc = "tasks" /\ Turn(t) /\ t \notin pending
  /\ ~Off(t) /\ ~Blocked(t) /\ ~stageFailed
  /\ pc' = "attempt" /\ cur' = t
  /\ attempts' = [attempts EXCEPT ![t] = @ + 1]
  /\ UNCHANGED <<plan, stage, done, pending, stageFailed, failedHere,
                 memory, disk, bounds>>

(* The action returns or raises; the result is stored and journaled. *)
Act(s) ==
  /\ pc = "attempt" /\ pc' = "judge"
  /\ results' = [results EXCEPT ![cur] = s]
  /\ log' = Append(log, [task |-> cur, status |-> s])
  /\ failedHere' = IF s = "failed" THEN failedHere \cup {cur} ELSE failedHere
  /\ UNCHANGED <<plan, stage, done, cur, attempts, pending, stageFailed,
                 primed, saved, ran, aborted, header, tail, credited, bounds>>

(* Continuous validators ran; asked: one of them wants the task retried. *)
MayRetry == /\ results[cur] = "failed" /\ cur \notin AllowFail
            /\ attempts[cur] < MaxRetries[cur]

RetryTask ==
  /\ pc = "judge" /\ MayRetry
  /\ pc' = "attempt"
  /\ attempts' = [attempts EXCEPT ![cur] = @ + 1]
  /\ UNCHANGED <<plan, stage, done, cur, pending, stageFailed, failedHere,
                 memory, disk, bounds>>

SettleKeepingOn ==                                    \* mutant of Settle
  /\ pc = "judge" /\ pc' = "tasks"
  /\ done' = done \cup {cur}
  /\ stageFailed' = (stageFailed \/ (results[cur] = "failed" /\ cur \in AllowFail))
  /\ UNCHANGED <<plan, stage, cur, attempts, pending, failedHere, memory, disk,
                 bounds>>

Settle ==
  /\ pc = "judge" /\ pc' = "tasks"
  /\ done' = done \cup {cur}
  /\ stageFailed' = (stageFailed \/ (results[cur] = "failed" /\ cur \notin AllowFail))
  /\ UNCHANGED <<plan, stage, cur, attempts, pending, failedHere, memory, disk,
                 bounds>>

-----------------------------------------------------------------------------
(* The process ends, at any point, and a new one starts with empty memory. *)
Restart ==
  /\ crashes < MaxCrashes
  /\ crashes' = crashes + 1 /\ runs' = runs
  /\ pc' = "idle" /\ recipe' = recipe /\ stages' = {} /\ tasks' = {} /\ stage' = 1
  /\ done' = {} /\ cur' = NoTask
  /\ results' = [t \in Task |-> "none"]
  /\ attempts' = [t \in Task |-> 0]
  /\ primed' = FALSE /\ saved' = {} /\ pending' = {}
  /\ stageFailed' = FALSE /\ failedHere' = {}
  /\ ran' = FALSE /\ aborted' = FALSE

Crash == Restart /\ UNCHANGED disk

(* ... inside _record_journal_result: the line is incomplete (torn) or     *)
(* complete but for its newline (bare).                                    *)
CrashRecording(s, k) ==
  /\ pc = "attempt" /\ tail' = k /\ k \in Tails
  /\ \/ k = "torn" /\ log' = log
     \/ k = "bare" /\ log' = Append(log, [task |-> cur, status |-> s])
  /\ UNCHANGED <<header, credited>> /\ Restart

(* ... inside _start_journal of a fresh run: the new file is empty, or its *)
(* run line is torn or bare.                                               *)
CrashOpening(r, k) ==
  /\ pc = "idle" /\ ~primed /\ runs < MaxRuns
  /\ log' = <<>> /\ credited' = {} /\ tail' = k /\ k \in Tails
  /\ header' = IF k = "bare" THEN r ELSE "empty"
  /\ Restart

-----------------------------------------------------------------------------
Step == \/ SkipStage \/ EnterStage \/ StageRaises \/ LeaveStage \/ Break \/ Return
        \/ \E t \in Task : Reuse(t) \/ Skip(t) \/ Begin(t)
        \/ \E s \in Executed : Act(s)
        \/ RetryTask \/ Settle

Call == \/ \E r \in Recipe, f \in SUBSET Stage, g \in SUBSET Task : Run(r, f, g)
        \/ \E r \in Recipe, f \in SUBSET Stage : BootRun(r, f)
        \/ \E f \in SUBSET Stage, g \in SUBSET Task : Retry(f, g)
        \/ RetryRejected

Die == \/ Crash
       \/ \E s \in Executed, k \in Tails : CrashRecording(s, k)
       \/ \E r \in Recipe, k \in Tails : CrashOpening(r, k)

Next == Step \/ Call \/ Die

Spec == Init /\ [][Next]_vars

(* The orchestrator is one thread that never waits for anyone: a run in    *)
(* progress keeps taking steps, provided the task actions return.          *)
FairSpec == Spec /\ WF_vars(Step)
-----------------------------------------------------------------------------
(* Properties *)

TypeOK ==
  /\ recipe \in Recipe
  /\ pc \in {"idle", "stage", "tasks", "attempt", "judge"}
  /\ stages \subseteq Stage /\ tasks \subseteq Task
  /\ stage \in 1..(NStages + 1)
  /\ pc \in {"tasks", "attempt", "judge"} => stage \in Stage
  /\ done \subseteq Task /\ cur \in Task \cup {NoTask}
  /\ pc \in {"attempt", "judge"} => cur \in Task
  /\ results \in [Task -> Status]
  /\ attempts \in [Task -> Nat]
  /\ primed \in BOOLEAN /\ saved \subseteq Task /\ pending \subseteq Task
  /\ stageFailed \in BOOLEAN /\ failedHere \subseteq Task
  /\ ran \in BOOLEAN /\ aborted \in BOOLEAN
  /\ header \in Recipe \cup {"none", "empty"}
  /\ log \in Seq(Entry)
  /\ tail \in {"clean", "torn", "bare"}
  /\ credited \subseteq Task
  /\ runs \in Nat /\ crashes \in Nat

(* The plan check is sound: once a plan was accepted, no task is ever      *)
(* reached whose dependency has no result, whatever the stage and task     *)
(* filters, the resumed results and the recipe's skips, so the             *)
(* "dependency-missing" branch of _run_stage (751-757) is dead code.       *)
NoMissingDependency ==
  pc = "tasks" => \A t \in Task : Turn(t) /\ t \notin pending => ~Missing(t)

(* A stage is never stuck: while planned tasks remain, one has its turn.   *)
SomeTaskHasItsTurn ==
  pc = "tasks" /\ ~(Planned(stage) \subseteq done) => \E t \in Task : Turn(t)

(* Write-ahead accuracy: at every instant of a run the successes a crash   *)
(* would let the next process resume are exactly those in memory.          *)
ResumeIsExact == pc # "idle" => Successes(log) = {t \in Task : results[t] = "success"}

(* Whatever a crash leaves at the end of the file, an unterminated line    *)
(* included, the journal never claims a success the running process lacks. *)
ResumeNeverOverclaims ==
  pc # "idle" => Successes(log) \subseteq {t \in Task : results[t] = "success"}

(* A journal is closed under dependencies, across retries, resumes, torn   *)
(* lines and restarts: a recorded success never outlives the success of a  *)
(* task it was built on, so resuming it cannot skip past a failed one.     *)
JournalClosed == \A t \in Successes(log) : Deps[t] \subseteq Successes(log)

(* Fail fast: no task starts after one that must not fail has failed for   *)
(* good in this stage, nor in an earlier stage unless the recipe says      *)
(* continue_on_failure.                                                    *)
NoWorkAfterFailure ==
  [][\A u \in Task :
       (/\ pc = "tasks" /\ pc' = "attempt"
        /\ results[u] = "failed" /\ u \notin AllowFail)
       => StageOf[u] < stage /\ recipe \in ContinueOnFailure]_vars

(* A task that a resumed run has taken from the journal is not executed    *)
(* again by that run or by any later resume of the same journal.           *)
CompletedNeverRerun ==
  [][pc' = "attempt" => cur' \notin credited]_vars

(* A run that leaves the loop at its end has a result for every task it    *)
(* planned, in whatever mix of reuse, skip, retry and failure.             *)
ReturnAccountsForAll ==
  [][pc = "stage" /\ stage \notin Stage
       => \A t \in Selected(stages, tasks) : results[t] # "none"]_vars

(* The journal, read back by latest_results, is a ledger of completed      *)
(* tasks: TaskLedger is what resume_from_journal may rely on.              *)
Ledger == INSTANCE TaskLedger WITH completed <- Successes(log)
ImplementsLedger == Ledger!Spec

(* Every run that starts ends, by return, break, exception or crash.       *)
RunEnds == pc # "idle" ~> pc = "idle"

-----------------------------------------------------------------------------
(* Why a resume is safe: the parts of an inductive invariant.              *)

(* resume state read by resume_from_journal still describes the journal *)
ResumeStateFresh ==
  pc = "idle" => IF primed THEN header # "none" /\ saved = Successes(log)
                           ELSE saved = {}

(* in a run, a success is either still to be reused, or behind the loop *)
SuccessesBehind ==
  pc # "idle" => \A t \in Task : results[t] = "success" /\ t \notin pending =>
    \/ StageOf[t] < stage
    \/ pc # "stage" /\ t \in done
    \/ pc = "judge" /\ t = cur

DoneInStage == pc \in {"tasks", "attempt", "judge"} => \A t \in done : StageOf[t] = stage

(* the task being attempted stands on successes and is not one itself *)
AttemptGrounded ==
  /\ pc \in {"attempt", "judge"} =>
       /\ StageOf[cur] = stage
       /\ \A d \in Deps[cur] : d # cur /\ results[d] = "success"
  /\ pc = "attempt" => results[cur] # "success"

(* All of it, for a journal that no crash leaves unterminated: what is     *)
(* resumed is what was recorded, and no recorded success is executed again.*)
ResumeInv ==
  /\ TypeOK /\ tail # "bare"
  /\ ResumeStateFresh /\ SuccessesBehind /\ DoneInStage /\ AttemptGrounded
  /\ ResumeIsExact /\ JournalClosed /\ credited \subseteq Successes(log)
=============================================================================
