--------------------------- MODULE WorkbenchProofs --------------------------
(***************************************************************************)
(* Proofs about the setup run, for every set of tasks, dependency          *)
(* relation, recipe and number of runs and crashes, and about the two that *)
(* run beside it: the thread that follows the foreground window, and the   *)
(* recent windows, for all overlays, windows, callers and bounds.          *)
(*                                                                         *)
(* The results about resuming a journal exactly assume that a crash never  *)
(* leaves a complete line without its newline; those about the plan and    *)
(* about what a resume may claim hold without that.                        *)
(***************************************************************************)
EXTENDS MCWorkbench, TLAPS, WellFoundedInduction

(* What one more line does to the tasks a journal says succeeded.          *)
LEMMA SuccessesAppend ==
  ASSUME NEW j \in Seq(Entry), NEW e \in Entry
  PROVE  Successes(Append(j, e)) =
           IF e.status = "success" THEN Successes(j) \cup {e.task}
                                   ELSE Successes(j) \ {e.task}
<1> DEFINE a == Append(j, e)
<1>1. /\ Len(a) = Len(j) + 1 /\ Len(j) \in Nat
      /\ a[Len(j) + 1] = e
      /\ \A i \in 1..Len(j) : a[i] = j[i]
  OBVIOUS
<1>2. ASSUME NEW t \in Task, t # e.task
      PROVE  t \in Successes(a) <=> t \in Successes(j)
  <2>1. Lines(a, t) = Lines(j, t)
    BY <1>1, <1>2 DEF Lines
  <2>2. \A i \in Lines(j, t) : a[i] = j[i]
    BY <1>1 DEF Lines
  <2> QED
    BY <2>1, <2>2 DEF Successes, LastLine
<1>3. e.task \in Successes(a) <=> e.status = "success"
  <2>1. Lines(a, e.task) = Lines(j, e.task) \cup {Len(j) + 1}
    BY <1>1 DEF Lines
  <2>2. LastLine(a, e.task) = {Len(j) + 1}
    BY <1>1, <2>1 DEF LastLine, Lines
  <2>3. e.task \in Task
    BY DEF Entry
  <2> QED
    BY <1>1, <2>2, <2>3 DEF Successes
<1>4. Successes(a) \subseteq Task /\ Successes(j) \subseteq Task /\ e.task \in Task
  BY DEF Successes, Entry
<1> QED
  BY <1>2, <1>3, <1>4

LEMMA SuccessesEmpty == Successes(<<>>) = {}
  BY DEF Successes, LastLine, Lines

LEMMA SuccessesType == \A j : Successes(j) \subseteq Task
  BY DEF Successes

-----------------------------------------------------------------------------
(* Types *)

LEMMA TypeInit == Init => TypeOK
<1> SUFFICES ASSUME Init PROVE TypeOK
  OBVIOUS
<1>1. results \in [Task -> Status] /\ attempts \in [Task -> Nat]
  BY DEF Init, Status
<1>2. log \in Seq(Entry)
  BY DEF Init
<1>3. /\ primed \in BOOLEAN /\ stageFailed \in BOOLEAN
      /\ ran \in BOOLEAN /\ aborted \in BOOLEAN
  BY Zenon DEF Init
<1>4. stage \in 1..(NStages + 1) /\ runs \in Nat /\ crashes \in Nat
  BY TaskAssumption DEF Init
<1> QED
  BY <1>1, <1>2, <1>3, <1>4 DEF Init, TypeOK

LEMMA TypeStartRun ==
  ASSUME TypeOK, NEW r \in Recipe, NEW f \in SUBSET Stage, NEW g \in SUBSET Task,
         NEW pr \in BOOLEAN, NEW sv \in SUBSET Task, StartRun(r, f, g, pr, sv)
  PROVE  TypeOK'
<1> USE TaskAssumption DEF Stage, Status
<1>1. /\ recipe' \in Recipe /\ pc' \in {"idle", "stage"}
      /\ stages' \subseteq Stage /\ tasks' \subseteq Task
      /\ stage' \in 1..(NStages + 1) /\ done' \subseteq Task
      /\ cur' \in Task \cup {NoTask}
  BY DEF StartRun
<1>4. /\ primed' \in BOOLEAN /\ saved' \subseteq Task /\ pending' \subseteq Task
      /\ stageFailed' \in BOOLEAN /\ failedHere' \subseteq Task
      /\ ran' \in BOOLEAN /\ aborted' \in BOOLEAN
  BY Zenon DEF StartRun
<1>5. runs' \in Nat /\ crashes' \in Nat
  BY DEF TypeOK, StartRun
<1>2. results' \in [Task -> Status] /\ attempts' \in [Task -> Nat]
  BY DEF StartRun
<1>3. /\ header' \in Recipe \cup {"none", "empty"} /\ log' \in Seq(Entry)
      /\ tail' \in {"clean", "torn", "bare"} /\ credited' \subseteq Task
  <2>1. CASE UNCHANGED disk
    BY <2>1 DEF disk, TypeOK
  <2>2. CASE tail' = "clean" /\ LoseBareLine /\ credited' = credited \cup sv
    <3>1. CASE UNCHANGED <<header, log>>
      BY <2>2, <3>1 DEF TypeOK
    <3>2. CASE log = <<>> /\ header' = "empty" /\ log' = log
      BY <2>2, <3>2 DEF TypeOK
    <3>3. CASE log # <<>> /\ header' = header /\ log' = SubSeq(log, 1, Len(log) - 1)
      <4>1. log \in Seq(Entry) /\ Len(log) \in Nat /\ Len(log) # 0
        BY <3>3 DEF TypeOK
      <4>2. log' \in Seq(Entry)
        BY <3>3, <4>1
      <4> QED
        BY <2>2, <3>3, <4>2 DEF TypeOK
    <3> QED
      BY <2>2, <3>1, <3>2, <3>3 DEF LoseBareLine
  <2>3. CASE tail' = "clean" /\ header' = r /\ log' = <<>> /\ credited' = {}
    BY <2>3 DEF TypeOK
  <2> QED
    BY <2>1, <2>2, <2>3 DEF StartRun
<1> QED
  BY <1>1, <1>2, <1>3, <1>4, <1>5 DEF TypeOK

LEMMA TypeRestart ==
  ASSUME TypeOK, Restart,
         header' \in Recipe \cup {"none", "empty"}, log' \in Seq(Entry),
         tail' \in {"clean", "torn", "bare"}, credited' \subseteq Task
  PROVE  TypeOK'
<1>1. /\ recipe' \in Recipe /\ pc' = "idle" /\ stages' \subseteq Stage
      /\ tasks' \subseteq Task /\ stage' \in 1..(NStages + 1)
      /\ done' \subseteq Task /\ cur' \in Task \cup {NoTask}
  BY TaskAssumption DEF TypeOK, Restart, Stage
<1>2. results' \in [Task -> Status] /\ attempts' \in [Task -> Nat]
  BY DEF Restart, Status
<1>3. /\ primed' \in BOOLEAN /\ saved' \subseteq Task /\ pending' \subseteq Task
      /\ stageFailed' \in BOOLEAN /\ failedHere' \subseteq Task
      /\ ran' \in BOOLEAN /\ aborted' \in BOOLEAN
  BY DEF Restart
<1>4. runs' \in Nat /\ crashes' \in Nat
  BY DEF Restart, TypeOK
<1> QED
  BY <1>1, <1>2, <1>3, <1>4 DEF TypeOK

LEMMA TypeNext == TypeOK /\ [Next]_vars => TypeOK'
<1> SUFFICES ASSUME TypeOK, [Next]_vars PROVE TypeOK'
  OBVIOUS
<1> USE TaskAssumption DEF Stage, Status, Executed
<1>1. CASE SkipStage
  BY <1>1 DEF SkipStage, TypeOK, plan, memory, disk, bounds
<1>2. CASE EnterStage
  BY <1>2 DEF EnterStage, TypeOK, plan, memory, disk, bounds
<1>3. CASE StageRaises \/ Break \/ Return
  BY <1>3 DEF StageRaises, Break, Return, Finish, TypeOK, plan, disk, bounds
<1>4. CASE LeaveStage
  BY <1>4 DEF LeaveStage, TypeOK, plan, memory, disk, bounds
<1>5. ASSUME NEW t \in Task, Reuse(t) PROVE TypeOK'
  BY <1>5 DEF Reuse, TypeOK, plan, memory, disk, bounds
<1>6. ASSUME NEW t \in Task, Skip(t) PROVE TypeOK'
  BY <1>6 DEF Skip, TypeOK, plan, disk, bounds
<1>7. ASSUME NEW t \in Task, Begin(t) PROVE TypeOK'
  BY <1>7 DEF Begin, TypeOK, plan, memory, disk, bounds
<1>8. ASSUME NEW s \in Executed, Act(s) PROVE TypeOK'
  <2>1. cur \in Task /\ [task |-> cur, status |-> s] \in Entry
    BY <1>8 DEF Act, TypeOK, Entry
  <2>2. log' \in Seq(Entry) /\ results' \in [Task -> Status]
    BY <1>8, <2>1 DEF Act, TypeOK
  <2>3. failedHere' \subseteq Task
    BY <1>8, <2>1 DEF Act, TypeOK
  <2> QED
    BY <1>8, <2>1, <2>2, <2>3 DEF Act, TypeOK, plan, bounds
<1>9. CASE RetryTask
  BY <1>9 DEF RetryTask, TypeOK, plan, memory, disk, bounds
<1>10. CASE Settle
  BY <1>10 DEF Settle, TypeOK, plan, memory, disk, bounds
<1>11. ASSUME NEW r \in Recipe, NEW f \in SUBSET Stage, NEW g \in SUBSET Task, Run(r, f, g)
       PROVE  TypeOK'
  <2>1. primed \in BOOLEAN /\ saved \in SUBSET Task
    BY DEF TypeOK
  <2> QED
    BY <1>11, <2>1, TypeStartRun DEF Run
<1>12. ASSUME NEW r \in Recipe, NEW f \in SUBSET Stage, BootRun(r, f)
       PROVE  TypeOK'
  <2>1. /\ Successes(log) \in SUBSET Task /\ {} \in SUBSET Task
        /\ primed \in BOOLEAN /\ saved \in SUBSET Task
    BY SuccessesType DEF TypeOK
  <2>2. TRUE \in BOOLEAN
    OBVIOUS
  <2>3. CASE StartRun(r, f, {}, primed, saved)
    BY <2>1, <2>3, TypeStartRun
  <2>4. CASE StartRun(r, f, {}, TRUE, Successes(log))
    BY <2>1, <2>2, <2>4, TypeStartRun
  <2> QED
    BY <1>12, <2>3, <2>4 DEF BootRun
<1>13. ASSUME NEW f \in SUBSET Stage, NEW g \in SUBSET Task, Retry(f, g)
       PROVE  TypeOK'
  <2>1. /\ Successes(log) \in SUBSET Task
        /\ recipe \in Recipe /\ primed \in BOOLEAN /\ saved \in SUBSET Task
    BY SuccessesType DEF TypeOK
  <2>2. TRUE \in BOOLEAN
    OBVIOUS
  <2>3. CASE StartRun(recipe, f, g, primed, saved)
    BY <2>1, <2>3, TypeStartRun
  <2>4. CASE header \in Recipe /\ StartRun(header, f, g, TRUE, Successes(log))
    BY <2>1, <2>2, <2>4, TypeStartRun
  <2> QED
    BY <1>13, <2>3, <2>4 DEF Retry
<1>14. CASE RetryRejected
  BY <1>14, SuccessesType DEF RetryRejected, TypeOK, plan, loop, disk, bounds
<1>15. CASE Crash
  BY <1>15, TypeRestart DEF Crash, disk, TypeOK
<1>16. ASSUME NEW s \in Executed, NEW k \in Tails, CrashRecording(s, k)
       PROVE  TypeOK'
  <2>1. [task |-> cur, status |-> s] \in Entry /\ log \in Seq(Entry)
    BY <1>16 DEF CrashRecording, TypeOK, Entry
  <2>2. log' \in Seq(Entry)
    <3>1. CASE log' = log
      BY <2>1, <3>1
    <3>2. CASE log' = Append(log, [task |-> cur, status |-> s])
      BY <2>1, <3>2
    <3> QED
      BY <1>16, <3>1, <3>2 DEF CrashRecording
  <2>3. /\ header' \in Recipe \cup {"none", "empty"}
        /\ tail' \in {"clean", "torn", "bare"} /\ credited' \subseteq Task
    BY <1>16 DEF CrashRecording, TypeOK
  <2>4. Restart
    BY <1>16 DEF CrashRecording
  <2> QED
    BY <2>2, <2>3, <2>4, TypeRestart
<1>17. ASSUME NEW r \in Recipe, NEW k \in Tails, CrashOpening(r, k)
       PROVE  TypeOK'
  BY <1>17, TypeRestart DEF CrashOpening, TypeOK
<1>18. CASE UNCHANGED vars
  BY <1>18 DEF vars, plan, loop, memory, disk, bounds, TypeOK
<1> QED
  BY <1>1, <1>2, <1>3, <1>4, <1>5, <1>6, <1>7, <1>8, <1>9, <1>10, <1>11, <1>12,
     <1>13, <1>14, <1>15, <1>16, <1>17, <1>18 DEF Next, Step, Call, Die

(* Every variable of the orchestrator keeps its type.                      *)
THEOREM Typing == Spec => []TypeOK
  BY TypeInit, TypeNext, PTL DEF Spec

-----------------------------------------------------------------------------
(* The resume invariant *)

(* the part of ResumeInv that only the disk can disturb *)
DiskPart == /\ tail # "bare" /\ JournalClosed
            /\ credited \subseteq Successes(log)

(* the part a step of a run in progress can disturb *)
RunPart == /\ SuccessesBehind /\ DoneInStage /\ AttemptGrounded /\ ResumeIsExact

LEMMA ResumeInvParts ==
  ResumeInv <=> TypeOK /\ DiskPart /\ RunPart /\ ResumeStateFresh
  BY DEF ResumeInv, DiskPart, RunPart

LEMMA DiskUnchanged == ASSUME DiskPart, UNCHANGED disk PROVE DiskPart'
  BY DEF DiskPart, disk, JournalClosed

LEMMA IdleRunPart == ASSUME pc' = "idle" PROVE RunPart'
  BY DEF RunPart, SuccessesBehind, DoneInStage, AttemptGrounded, ResumeIsExact

LEMMA TurnMeans ==
  ASSUME NEW t \in Task, Turn(t)
  PROVE  t \notin done /\ StageOf[t] = stage
  BY DEF Turn, Ready, Planned, StageTasks

LEMMA ResumeInit == Init => ResumeInv
<1> SUFFICES ASSUME Init PROVE ResumeInv
  OBVIOUS
<1>1. log = <<>> /\ Successes(log) = {}
  BY SuccessesEmpty DEF Init
<1>2. DiskPart
  BY <1>1 DEF Init, DiskPart, JournalClosed
<1>3. RunPart
  BY DEF Init, RunPart, SuccessesBehind, DoneInStage, AttemptGrounded, ResumeIsExact
<1>4. ResumeStateFresh
  BY DEF Init, ResumeStateFresh
<1> QED
  BY <1>2, <1>3, <1>4, TypeInit, ResumeInvParts

(* Actions of a run in progress leave the resume state to its next idle.   *)
LEMMA BusyResumeState == ASSUME pc' # "idle" PROVE ResumeStateFresh'
  BY DEF ResumeStateFresh

LEMMA FinishPreserves ==
  ASSUME DiskPart, Finish
  PROVE  DiskPart' /\ RunPart' /\ ResumeStateFresh'
<1>1. pc' = "idle" /\ primed' = FALSE /\ saved' = {} /\ UNCHANGED disk
  BY DEF Finish
<1>2. ResumeStateFresh'
  BY <1>1 DEF ResumeStateFresh
<1> QED
  BY <1>1, <1>2, DiskUnchanged, IdleRunPart

LEMMA StagePreserves ==
  ASSUME TypeOK, RunPart, SkipStage \/ EnterStage \/ LeaveStage
  PROVE  RunPart'
<1> USE TaskAssumption DEF Stage
<1>1. /\ UNCHANGED <<cur, pending, results, log>> /\ stage \in Nat /\ stage' \in Nat
      /\ \A t \in Task : StageOf[t] \in Nat
      /\ pc' \in {"stage", "tasks"}
  BY DEF SkipStage, EnterStage, LeaveStage, disk, memory, TypeOK
<1>2. ResumeIsExact' /\ AttemptGrounded'
  BY <1>1 DEF SkipStage, EnterStage, LeaveStage, RunPart, ResumeIsExact, AttemptGrounded
<1>3. DoneInStage'
  BY DEF SkipStage, EnterStage, LeaveStage, RunPart, DoneInStage
<1>4. SuccessesBehind'
  BY <1>1 DEF SkipStage, EnterStage, LeaveStage, RunPart, SuccessesBehind, DoneInStage
<1> QED
  BY <1>2, <1>3, <1>4 DEF RunPart

LEMMA ReusePreserves ==
  ASSUME TypeOK, RunPart, NEW t \in Task, Reuse(t)
  PROVE  RunPart'
<1>1. /\ UNCHANGED <<pc, cur, stage, results, log>> /\ pc = "tasks"
      /\ t \notin done /\ StageOf[t] = stage
      /\ pending' = pending \ {t} /\ done' = done \cup {t}
  BY TurnMeans DEF Reuse, memory, disk
<1> QED
  BY <1>1 DEF RunPart, SuccessesBehind, DoneInStage, AttemptGrounded, ResumeIsExact

LEMMA SkipPreserves ==
  ASSUME TypeOK, RunPart, NEW t \in Task, Skip(t)
  PROVE  RunPart'
<1>1. /\ UNCHANGED <<pc, cur, stage, pending, log>> /\ pc = "tasks"
      /\ t \notin done /\ StageOf[t] = stage /\ t \notin pending
      /\ results' = [results EXCEPT ![t] = "skipped"] /\ done' = done \cup {t}
  BY TurnMeans DEF Skip, disk
<1>2. results[t] # "success"
  BY <1>1, TaskAssumption DEF RunPart, SuccessesBehind, TypeOK, Stage
<1>3. \A u \in Task : results'[u] = "success" <=> results[u] = "success"
  BY <1>1, <1>2 DEF TypeOK
<1> QED
  BY <1>1, <1>3 DEF RunPart, SuccessesBehind, DoneInStage, AttemptGrounded, ResumeIsExact

LEMMA BeginPreserves ==
  ASSUME TypeOK, RunPart, NEW t \in Task, Begin(t)
  PROVE  RunPart' /\ results[t] # "success"
<1>1. /\ UNCHANGED <<stage, done, pending, results, log>> /\ pc = "tasks"
      /\ pc' = "attempt" /\ cur' = t
      /\ t \notin done /\ StageOf[t] = stage /\ t \notin pending
      /\ ~Missing(t) /\ ~Blocked(t)
  BY TurnMeans DEF Begin, Off, memory, disk
<1>2. results[t] # "success"
  BY <1>1, TaskAssumption DEF RunPart, SuccessesBehind, TypeOK, Stage
<1>3. \A d \in Deps[t] : d # t /\ results[d] = "success"
  BY <1>1, <1>2 DEF Missing, Blocked
<1>4. AttemptGrounded'
  BY <1>1, <1>2, <1>3 DEF AttemptGrounded
<1> QED
  BY <1>1, <1>2, <1>4 DEF RunPart, SuccessesBehind, DoneInStage, ResumeIsExact

LEMMA JudgePreserves ==
  ASSUME TypeOK, RunPart, RetryTask \/ Settle
  PROVE  RunPart'
<1>1. CASE RetryTask
  <2>1. /\ UNCHANGED <<stage, done, pending, results, log, cur>> /\ pc = "judge"
        /\ pc' = "attempt" /\ results[cur] = "failed"
    BY <1>1 DEF RetryTask, MayRetry, memory, disk
  <2> QED
    BY <2>1 DEF RunPart, SuccessesBehind, DoneInStage, AttemptGrounded, ResumeIsExact
<1>2. CASE Settle
  <2>1. /\ UNCHANGED <<stage, pending, results, log, cur>> /\ pc = "judge"
        /\ pc' = "tasks" /\ done' = done \cup {cur}
    BY <1>2 DEF Settle, memory, disk
  <2> QED
    BY <2>1 DEF RunPart, SuccessesBehind, DoneInStage, AttemptGrounded, ResumeIsExact
<1> QED
  BY <1>1, <1>2

(* A recorded result moves memory and journal together: the task was no    *)
(* success before, and everything it depends on was one.                   *)
LEMMA ActPreserves ==
  ASSUME TypeOK, DiskPart, RunPart, NEW s \in Executed, Act(s)
  PROVE  DiskPart' /\ RunPart' /\ (Successes(log)' = Successes(log)
            \/ /\ cur \notin Successes(log) /\ Deps[cur] \subseteq Successes(log)
               /\ Successes(log)' = Successes(log) \cup {cur})
<1> DEFINE e == [task |-> cur, status |-> s]
<1>1. /\ pc = "attempt" /\ pc' = "judge" /\ cur \in Task
      /\ UNCHANGED <<stage, done, pending, cur, tail, credited>>
      /\ results' = [results EXCEPT ![cur] = s] /\ log' = Append(log, e)
  BY DEF Act, TypeOK
<1>2. e \in Entry /\ log \in Seq(Entry) /\ e.task = cur /\ e.status = s
  BY <1>1 DEF Entry, TypeOK
<1>3. Successes(log)' = IF s = "success" THEN Successes(log) \cup {cur}
                                         ELSE Successes(log) \ {cur}
  BY <1>1, <1>2, SuccessesAppend
<1>4. Successes(log) = {t \in Task : results[t] = "success"}
  BY <1>1 DEF RunPart, ResumeIsExact
<1>5. /\ results[cur] # "success" /\ StageOf[cur] = stage
      /\ \A d \in Deps[cur] : d # cur /\ results[d] = "success"
  BY <1>1 DEF RunPart, AttemptGrounded
<1>6. cur \notin Successes(log) /\ Deps[cur] \subseteq Successes(log)
  BY <1>1, <1>4, <1>5, TaskAssumption
<1>7. \A t \in Task : results'[t] = IF t = cur THEN s ELSE results[t]
  BY <1>1 DEF TypeOK
<1>8. ResumeIsExact'
  BY <1>1, <1>3, <1>4, <1>7 DEF ResumeIsExact
<1>9. DiskPart'
  <2>1. JournalClosed'
    BY <1>3, <1>6 DEF DiskPart, JournalClosed
  <2> QED
    BY <1>1, <1>3, <1>6, <2>1 DEF DiskPart
<1>10. SuccessesBehind'
  BY <1>1, <1>7 DEF RunPart, SuccessesBehind
<1>11. DoneInStage' /\ AttemptGrounded'
  BY <1>1, <1>5, <1>7, TaskAssumption DEF RunPart, DoneInStage, AttemptGrounded
<1> QED
  BY <1>3, <1>6, <1>8, <1>9, <1>10, <1>11 DEF RunPart

(* A run starts from the journal's successes, or from none and a new file. *)
LEMMA StartPreserves ==
  ASSUME DiskPart, NEW r, NEW f, NEW g, NEW pr \in BOOLEAN, NEW sv \in SUBSET Task,
         StartRun(r, f, g, pr, sv),
         IF pr THEN header # "none" /\ sv = Successes(log) ELSE sv = {}
  PROVE  /\ DiskPart' /\ RunPart' /\ ResumeStateFresh'
         /\ Successes(log)' = Successes(log) \/ Successes(log)' = {}
<1>1. CASE pc' = "idle" /\ UNCHANGED disk
  <2>1. ResumeStateFresh'
    BY <1>1 DEF StartRun, ResumeStateFresh, disk
  <2> QED
    BY <1>1, <2>1, DiskUnchanged, IdleRunPart DEF disk
<1>2. CASE /\ pc' = "stage" /\ tail' = "clean"
           /\ IF pr /\ header # "none"
              THEN LoseBareLine /\ credited' = credited \cup sv
              ELSE header' = r /\ log' = <<>> /\ credited' = {}
  <2>1. Successes(log') = sv
    BY <1>2, SuccessesEmpty DEF LoseBareLine, DiskPart
  <2>2. RunPart'
    <3>1. /\ done' = {} /\ pending' = sv
          /\ results' = [t \in Task |-> IF t \in sv THEN "success" ELSE "none"]
      BY DEF StartRun
    <3>2. ResumeIsExact'
      BY <2>1, <3>1 DEF ResumeIsExact
    <3>3. SuccessesBehind'
      BY <3>1 DEF SuccessesBehind
    <3> QED
      BY <1>2, <3>1, <3>2, <3>3 DEF RunPart, DoneInStage, AttemptGrounded
  <2>3. DiskPart'
    <3>1. CASE pr
      BY <1>2, <2>1, <3>1 DEF DiskPart, JournalClosed
    <3>2. CASE ~pr
      BY <1>2, <2>1, <3>2 DEF DiskPart, JournalClosed
    <3> QED
      BY <3>1, <3>2
  <2>4. ResumeStateFresh'
    BY <1>2, BusyResumeState
  <2> QED
    BY <2>1, <2>2, <2>3, <2>4
<1> QED
  BY <1>1, <1>2 DEF StartRun

LEMMA CallPreserves ==
  ASSUME ResumeInv, Call
  PROVE  /\ DiskPart' /\ RunPart' /\ ResumeStateFresh'
         /\ Successes(log)' = Successes(log) \/ Successes(log)' = {}
<1> DEFINE Goal == /\ DiskPart' /\ RunPart' /\ ResumeStateFresh'
                   /\ Successes(log)' = Successes(log) \/ Successes(log)' = {}
<1>1. /\ DiskPart /\ ResumeStateFresh /\ primed \in BOOLEAN /\ saved \in SUBSET Task
      /\ Successes(log) \in SUBSET Task /\ TRUE \in BOOLEAN
  BY ResumeInvParts, SuccessesType DEF TypeOK
<1>2. ASSUME NEW r, NEW f, NEW g, StartRun(r, f, g, primed, saved)
      PROVE  Goal
  <2>1. IF primed THEN header # "none" /\ saved = Successes(log) ELSE saved = {}
    BY <1>1, <1>2 DEF StartRun, ResumeStateFresh
  <2> QED
    BY <1>1, <1>2, <2>1, StartPreserves
<1>3. ASSUME NEW r, NEW f, NEW g, StartRun(r, f, g, TRUE, Successes(log)), header # "none"
      PROVE  Goal
  BY <1>1, <1>3, StartPreserves
<1>4. "none" \notin Recipe
  BY TaskAssumption
<1>5. ASSUME NEW r \in Recipe, NEW f \in SUBSET Stage, NEW g \in SUBSET Task, Run(r, f, g)
      PROVE  Goal
  BY <1>2, <1>5 DEF Run
<1>6. ASSUME NEW r \in Recipe, NEW f \in SUBSET Stage, BootRun(r, f)
      PROVE  Goal
  <2>1. CASE StartRun(r, f, {}, primed, saved)
    BY <1>2, <2>1
  <2>2. CASE header \in {r, "empty"} /\ StartRun(r, f, {}, TRUE, Successes(log))
    BY <1>3, <1>4, <2>2
  <2> QED
    BY <1>6, <2>1, <2>2 DEF BootRun
<1>7. ASSUME NEW f \in SUBSET Stage, NEW g \in SUBSET Task, Retry(f, g)
      PROVE  Goal
  <2>1. CASE StartRun(recipe, f, g, primed, saved)
    BY <1>2, <2>1
  <2>2. CASE header \in Recipe /\ StartRun(header, f, g, TRUE, Successes(log))
    BY <1>3, <1>4, <2>2
  <2> QED
    BY <1>7, <2>1, <2>2 DEF Retry
<1>8. CASE RetryRejected
  <2>1. /\ pc' = "idle" /\ UNCHANGED <<disk, header, log>> /\ header = "empty"
        /\ primed' = TRUE /\ saved' = Successes(log)
    BY <1>8 DEF RetryRejected, disk
  <2>2. ResumeStateFresh'
    BY <2>1 DEF ResumeStateFresh
  <2> QED
    BY <1>1, <2>1, <2>2, DiskUnchanged, IdleRunPart
<1> QED
  BY <1>5, <1>6, <1>7, <1>8 DEF Call

LEMMA DiePreserves ==
  ASSUME DiskPart, "bare" \notin Tails, Die
  PROVE  /\ DiskPart' /\ RunPart' /\ ResumeStateFresh'
         /\ Successes(log)' = Successes(log) \/ Successes(log)' = {}
<1>1. Restart
  BY DEF Die, Crash, CrashRecording, CrashOpening
<1>2. ResumeStateFresh' /\ RunPart'
  BY <1>1, IdleRunPart DEF Restart, ResumeStateFresh
<1>3. CASE Crash
  BY <1>2, <1>3, DiskUnchanged DEF Crash, disk
<1>4. ASSUME NEW s \in Executed, NEW k \in Tails, CrashRecording(s, k)
      PROVE  DiskPart' /\ Successes(log)' = Successes(log)
  BY <1>4 DEF CrashRecording, DiskPart, JournalClosed
<1>5. ASSUME NEW r \in Recipe, NEW k \in Tails, CrashOpening(r, k)
      PROVE  DiskPart' /\ Successes(log)' = {}
  BY <1>5, SuccessesEmpty DEF CrashOpening, DiskPart, JournalClosed
<1> QED
  BY <1>2, <1>3, <1>4, <1>5 DEF Die

(* One step: the invariant is kept, and the ledger of completed tasks makes *)
(* a step of TaskLedger or none.                                           *)
LEMMA ResumeStep ==
  ASSUME ResumeInv, [Next]_vars, "bare" \notin Tails
  PROVE  ResumeInv' /\ [Ledger!Next]_(Successes(log))
<1>1. TypeOK /\ DiskPart /\ RunPart /\ TypeOK'
  BY ResumeInvParts, TypeNext
<1>0. DiskPart' /\ RunPart' /\ ResumeStateFresh' => ResumeInv'
  BY <1>1 DEF ResumeInv, DiskPart, RunPart
<1>2. CASE SkipStage \/ EnterStage \/ LeaveStage
  <2>1. UNCHANGED <<disk, log>> /\ pc' # "idle"
    BY <1>2 DEF SkipStage, EnterStage, LeaveStage, disk
  <2> QED
    BY <1>1, <1>2, <2>1, StagePreserves, DiskUnchanged, BusyResumeState, <1>0
<1>3. CASE StageRaises \/ Break \/ Return
  <2>1. Finish /\ UNCHANGED log
    BY <1>3 DEF StageRaises, Break, Return, Finish, disk
  <2> QED
    BY <1>1, <2>1, FinishPreserves, <1>0
<1>4. ASSUME NEW t \in Task, Reuse(t) \/ Skip(t) \/ Begin(t)
      PROVE  ResumeInv' /\ UNCHANGED log
  <2>1. UNCHANGED <<disk, log>> /\ pc' # "idle"
    BY <1>4 DEF Reuse, Skip, Begin, disk
  <2>2. RunPart'
    BY <1>1, <1>4, ReusePreserves, SkipPreserves, BeginPreserves
  <2> QED
    BY <1>1, <2>1, <2>2, DiskUnchanged, BusyResumeState, <1>0
<1>5. CASE RetryTask \/ Settle
  <2>1. UNCHANGED <<disk, log>> /\ pc' # "idle"
    BY <1>5 DEF RetryTask, Settle, disk
  <2> QED
    BY <1>1, <1>5, <2>1, JudgePreserves, DiskUnchanged, BusyResumeState, <1>0
<1>6. ASSUME NEW s \in Executed, Act(s)
      PROVE  ResumeInv' /\ [Ledger!Next]_(Successes(log))
  <2>1. pc' # "idle" /\ cur \in Task
    BY <1>1, <1>6 DEF Act, TypeOK
  <2>2. ResumeInv'
    BY <1>1, <1>6, <2>1, ActPreserves, BusyResumeState, <1>0
  <2>3. [Ledger!Next]_(Successes(log))
    BY <1>1, <1>6, <2>1, ActPreserves DEF Ledger!Next, Ledger!Complete
  <2> QED
    BY <2>2, <2>3
<1>7. CASE Call
  BY <1>1, <1>7, CallPreserves, <1>0 DEF Ledger!Next, Ledger!StartOver
<1>8. CASE Die
  BY <1>1, <1>8, DiePreserves, <1>0 DEF Ledger!Next, Ledger!StartOver
<1>9. CASE UNCHANGED vars
  <2>1. UNCHANGED <<pc, stage, done, cur, results, pending, primed, saved,
                    header, log, tail, credited>>
    BY <1>9 DEF vars, loop, memory, disk
  <2> QED
    BY <1>1, <2>1, <1>0
       DEF ResumeInv, ResumeStateFresh, SuccessesBehind, DoneInStage, AttemptGrounded,
           ResumeIsExact, JournalClosed
<1> QED
  BY <1>2, <1>3, <1>4, <1>5, <1>6, <1>7, <1>8, <1>9 DEF Next, Step

(* The successes resumed after a crash or a failed run are exactly the ones *)
(* the running process had, and they are closed under dependencies.        *)
THEOREM ResumeInvariant ==
  ASSUME "bare" \notin Tails
  PROVE  Spec => []ResumeInv
<1>1. ResumeInv /\ [Next]_vars => ResumeInv'
  BY ResumeStep
<1> QED
  BY <1>1, ResumeInit, PTL DEF Spec

(* ResumeIsExact, for every plan and every sequence of runs and crashes.   *)
THEOREM ResumeExact ==
  ASSUME "bare" \notin Tails
  PROVE  Spec => []ResumeIsExact
<1>1. ResumeInv => ResumeIsExact
  BY DEF ResumeInv
<1> QED
  BY <1>1, ResumeInvariant, PTL

(* JournalClosed: a recorded success stands on recorded successes.         *)
THEOREM ClosedJournal ==
  ASSUME "bare" \notin Tails
  PROVE  Spec => []JournalClosed
<1>1. ResumeInv => JournalClosed
  BY DEF ResumeInv
<1> QED
  BY <1>1, ResumeInvariant, PTL

(* A task credited to a resumed run is executed by no later resume of the  *)
(* same journal.                                                           *)
THEOREM CompletedOnce ==
  ASSUME "bare" \notin Tails
  PROVE  Spec => CompletedNeverRerun
<1> DEFINE Quiet == pc' = "attempt" => cur' \notin credited
<1>1. ResumeInv /\ [Next]_vars => [Quiet]_vars
  <2> SUFFICES ASSUME ResumeInv, Next, pc' = "attempt", pc # "attempt" \/ cur' # cur
               PROVE  cur' \notin credited
    <3>1. ASSUME ResumeInv, pc = "attempt"
          PROVE  cur \notin credited
      BY <3>1 DEF ResumeInv, ResumeIsExact, AttemptGrounded
    <3> QED
      BY <3>1
  <2>1. /\ TypeOK /\ RunPart /\ credited \subseteq Successes(log)
        /\ pc # "idle" => Successes(log) = {t \in Task : results[t] = "success"}
    BY DEF ResumeInv, RunPart, ResumeIsExact
  <2>2. ASSUME NEW t \in Task, Begin(t)
        PROVE  cur' \notin credited
    <3>1. pc = "tasks" /\ cur' = t
      BY <2>2 DEF Begin
    <3> QED
      BY <2>1, <2>2, <3>1, BeginPreserves
  <2>3. CASE RetryTask
    BY <2>1, <2>3 DEF RetryTask, MayRetry
  <2>4. ~(Act("success") \/ Act("failed") \/ Act("skipped") \/ Settle)
    BY DEF Act, Settle
  <2>5. ~(SkipStage \/ EnterStage \/ LeaveStage \/ StageRaises \/ Break \/ Return)
    BY DEF SkipStage, EnterStage, LeaveStage, StageRaises, Break, Return, Finish
  <2>6. ~Call
    BY DEF Call, Run, BootRun, Retry, RetryRejected, StartRun
  <2>7. ~Die
    BY DEF Die, Crash, CrashRecording, CrashOpening, Restart
  <2>8. ASSUME NEW t \in Task, Reuse(t) \/ Skip(t)
        PROVE  FALSE
    BY <2>8 DEF Reuse, Skip
  <2> QED
    BY <2>2, <2>3, <2>4, <2>5, <2>6, <2>7, <2>8 DEF Next, Step, Executed
<1> QED
  BY <1>1, ResumeInvariant, PTL DEF Spec, CompletedNeverRerun

(* The orchestrator implements the ledger of completed tasks.              *)
THEOREM LedgerImplemented ==
  ASSUME "bare" \notin Tails
  PROVE  Spec => ImplementsLedger
<1>1. Init => Ledger!Init
  BY SuccessesEmpty DEF Init, Ledger!Init
<1>2. ResumeInv /\ [Next]_vars => [Ledger!Next]_(Successes(log))
  BY ResumeStep
<1> QED
  BY <1>1, <1>2, ResumeInvariant, PTL DEF Spec, ImplementsLedger, Ledger!Spec

-----------------------------------------------------------------------------
(***************************************************************************)
(* What a run promises of its plan, for every plan: no dependency without  *)
(* a result, a task whose turn it is, no work after a failure and a result *)
(* for all that was planned.                                               *)
(***************************************************************************)

(* A plan that was accepted has no bad dependency; every task of it that   *)
(* the loop has passed has a result, and so has the task being judged.     *)
Accounted ==
  pc # "idle" =>
    /\ ~PlanError(stages, tasks)
    /\ \A t \in pending : results[t] = "success"
    /\ \A t \in Selected(stages, tasks) :
         StageOf[t] < stage \/ (pc # "stage" /\ t \in done) => results[t] # "none"
    /\ pc \in {"attempt", "judge"} => cur \notin pending
    /\ pc = "judge" => results[cur] # "none"

(* A failure that counts is of an earlier stage of a recipe that goes on,  *)
(* or of this stage, which then is marked or about to be.                  *)
FailureMarked ==
  pc # "idle" =>
    /\ pc \in {"attempt", "judge"} => StageOf[cur] = stage
    /\ \A u \in Task \ AllowFail : results[u] = "failed" =>
         \/ StageOf[u] < stage /\ recipe \in ContinueOnFailure
         \/ /\ pc # "stage" /\ StageOf[u] = stage /\ u \in failedHere
            /\ stageFailed \/ (pc # "tasks" /\ u = cur)

PlanInv == TypeOK /\ Accounted /\ FailureMarked

LEMMA SelectedType == \A f, g : Selected(f, g) \subseteq Task
  BY DEF Selected

(* A selected task lies in a stage the run does not skip.                  *)
LEMMA SelectedStage ==
  ASSUME NEW t \in Selected(stages, tasks), StageOf[t] = stage
  PROVE  t \in Planned(stage) /\ InStage
  BY DEF Selected, Planned, StageTasks, InStage

LEMMA AccountedStart ==
  ASSUME NEW r \in Recipe, NEW f \in SUBSET Stage, NEW g \in SUBSET Task,
         NEW pr \in BOOLEAN, NEW sv \in SUBSET Task, StartRun(r, f, g, pr, sv)
  PROVE  Accounted' /\ FailureMarked'
<1>1. CASE pc' = "idle"
  BY <1>1 DEF Accounted, FailureMarked
<1>2. CASE pc' = "stage" /\ ~PlanError(f, g)
  <2>1. /\ stages' = f /\ tasks' = g /\ stage' = 1 /\ pending' = sv
        /\ results' = [t \in Task |-> IF t \in sv THEN "success" ELSE "none"]
    BY DEF StartRun
  <2>2. ~PlanError(stages, tasks)'
    BY <1>2, <2>1 DEF PlanError, BadDependency, Cyclic, StageTasks, Selected
  <2>3. \A t \in pending' : results'[t] = "success"
    BY <2>1
  <2>4. \A t \in Task : ~(StageOf[t] < stage')
    BY <2>1, TaskAssumption DEF Stage
  <2>5. \A t \in Task : results'[t] # "failed"
    BY <2>1
  <2> QED
    BY <1>2, <2>2, <2>3, <2>4, <2>5, SelectedType DEF Accounted, FailureMarked
<1> QED
  BY <1>1, <1>2 DEF StartRun

LEMMA StagePlan ==
  ASSUME PlanInv, SkipStage \/ EnterStage \/ LeaveStage
  PROVE  Accounted' /\ FailureMarked'
<1> USE TaskAssumption DEF Stage
<1>1. /\ UNCHANGED <<plan, recipe, stages, tasks, cur, pending, results>>
      /\ stage \in Nat /\ \A t \in Task : StageOf[t] \in Nat
      /\ pc # "idle" /\ pc' \in {"stage", "tasks"}
  BY DEF SkipStage, EnterStage, LeaveStage, memory, plan, PlanInv, TypeOK
<1>2. ~PlanError(stages, tasks)'
  BY <1>1 DEF PlanInv, Accounted, PlanError, BadDependency, Cyclic, StageTasks, Selected
<1>3. Selected(stages, tasks)' = Selected(stages, tasks)
  BY <1>1 DEF Selected
<1>4. ASSUME NEW t \in Selected(stages, tasks),
             StageOf[t] < stage' \/ (pc' # "stage" /\ t \in done')
      PROVE  results[t] # "none"
  <2>1. t \in Task /\ StageOf[t] \in Nat
    BY <1>1, SelectedType
  <2>2. CASE EnterStage
    BY <1>1, <1>4, <2>2 DEF EnterStage, PlanInv, Accounted
  <2>3. CASE SkipStage
    <3>1. StageOf[t] < stage \/ StageOf[t] = stage
      BY <1>1, <1>4, <2>1, <2>3 DEF SkipStage
    <3>2. StageOf[t] # stage
      BY <2>3, SelectedStage DEF SkipStage
    <3> QED
      BY <1>1, <3>1, <3>2 DEF PlanInv, Accounted
  <2>4. CASE LeaveStage
    <3>1. StageOf[t] < stage \/ StageOf[t] = stage
      BY <1>1, <1>4, <2>1, <2>4 DEF LeaveStage
    <3>2. StageOf[t] = stage => pc # "stage" /\ t \in done
      BY <2>4, SelectedStage DEF LeaveStage
    <3> QED
      BY <1>1, <3>1, <3>2 DEF PlanInv, Accounted
  <2> QED
    BY <2>2, <2>3, <2>4
<1>5. Accounted'
  BY <1>1, <1>2, <1>3, <1>4 DEF PlanInv, Accounted
<1>6. ASSUME NEW u \in Task \ AllowFail, results[u] = "failed"
      PROVE  StageOf[u] < stage' /\ recipe \in ContinueOnFailure
  <2>1. CASE SkipStage \/ EnterStage
    BY <1>1, <1>6, <2>1 DEF SkipStage, EnterStage, PlanInv, FailureMarked
  <2>2. CASE LeaveStage
    BY <1>1, <1>6, <2>2 DEF LeaveStage, Blocking, PlanInv, FailureMarked
  <2> QED
    BY <2>1, <2>2
<1>7. FailureMarked'
  BY <1>1, <1>6 DEF FailureMarked
<1> QED
  BY <1>5, <1>7

LEMMA TaskPlan ==
  ASSUME PlanInv, NEW t \in Task, Reuse(t) \/ Skip(t) \/ Begin(t)
  PROVE  Accounted' /\ FailureMarked'
<1> USE TaskAssumption DEF Stage
<1>1. /\ UNCHANGED <<recipe, stages, tasks, stage, failedHere>>
      /\ pc = "tasks" /\ pc' \in {"tasks", "attempt"} /\ results \in [Task -> Status]
      /\ StageOf[t] = stage /\ stage \in Nat
  BY TurnMeans DEF Reuse, Skip, Begin, memory, plan, PlanInv, TypeOK
<1>2. ~PlanError(stages, tasks)'
  BY <1>1 DEF PlanInv, Accounted, PlanError, BadDependency, Cyclic, StageTasks, Selected
<1>3. Selected(stages, tasks)' = Selected(stages, tasks)
  BY <1>1 DEF Selected
<1>4. CASE Reuse(t)
  <2>1. /\ UNCHANGED <<pc, results, stageFailed>> /\ done' = done \cup {t}
        /\ pending' = pending \ {t} /\ results[t] = "success"
    BY <1>1, <1>4 DEF Reuse, memory, PlanInv, Accounted
  <2> QED
    BY <1>1, <1>2, <1>3, <2>1 DEF PlanInv, Accounted, FailureMarked
<1>5. CASE Skip(t)
  <2>1. /\ UNCHANGED <<pc, pending>> /\ done' = done \cup {t} /\ t \notin pending
        /\ results' = [results EXCEPT ![t] = "skipped"]
        /\ stageFailed => stageFailed'
    BY <1>5, Zenon DEF Skip
  <2>2. \A u \in Task : results'[u] = IF u = t THEN "skipped" ELSE results[u]
    BY <1>1, <2>1
  <2>3. pending \subseteq Task
    BY DEF PlanInv, TypeOK
  <2>4. Accounted'
    BY <1>1, <1>2, <1>3, <2>1, <2>2, <2>3, SelectedType DEF PlanInv, Accounted
  <2>5. FailureMarked'
    BY <1>1, <2>1, <2>2 DEF PlanInv, FailureMarked
  <2> QED
    BY <2>4, <2>5
<1>6. CASE Begin(t)
  <2>1. /\ UNCHANGED <<pending, results, done, stageFailed>> /\ pc' = "attempt" /\ cur' = t
        /\ t \notin pending /\ ~stageFailed
    BY <1>6 DEF Begin, memory
  <2> QED
    BY <1>1, <1>2, <1>3, <2>1 DEF PlanInv, Accounted, FailureMarked
<1> QED
  BY <1>4, <1>5, <1>6

LEMMA AttemptPlan ==
  ASSUME PlanInv, (\E s \in Executed : Act(s)) \/ RetryTask \/ Settle
  PROVE  Accounted' /\ FailureMarked'
<1> USE TaskAssumption DEF Stage
<1>1. /\ UNCHANGED <<recipe, stages, tasks, stage, cur, pending>>
      /\ pc \in {"attempt", "judge"} /\ pc' \in {"tasks", "attempt", "judge"}
      /\ results \in [Task -> Status] /\ cur \in Task /\ pending \subseteq Task
      /\ cur \notin pending /\ StageOf[cur] = stage
  BY DEF Act, RetryTask, Settle, memory, plan, PlanInv, TypeOK, Accounted, FailureMarked
<1>2. ~PlanError(stages, tasks)'
  BY <1>1 DEF PlanInv, Accounted, PlanError, BadDependency, Cyclic, StageTasks, Selected
<1>3. Selected(stages, tasks)' = Selected(stages, tasks)
  BY <1>1 DEF Selected
<1>4. ASSUME NEW s \in Executed, Act(s)
      PROVE  Accounted' /\ FailureMarked'
  <2>1. /\ pc' = "judge" /\ UNCHANGED <<done, stageFailed>>
        /\ results' = [results EXCEPT ![cur] = s] /\ s # "none"
        /\ failedHere' = IF s = "failed" THEN failedHere \cup {cur} ELSE failedHere
    BY <1>4 DEF Act, Executed
  <2>2. \A u \in Task : results'[u] = IF u = cur THEN s ELSE results[u]
    BY <1>1, <2>1
  <2>3. Accounted'
    BY <1>1, <1>2, <1>3, <2>1, <2>2, SelectedType DEF PlanInv, Accounted
  <2>4. FailureMarked'
    BY <1>1, <2>1, <2>2 DEF PlanInv, FailureMarked
  <2> QED
    BY <2>3, <2>4
<1>5. CASE RetryTask
  <2>1. pc' = "attempt" /\ UNCHANGED <<done, stageFailed, results, failedHere>>
    BY <1>5 DEF RetryTask, memory
  <2> QED
    BY <1>1, <1>2, <1>3, <2>1 DEF PlanInv, Accounted, FailureMarked
<1>6. CASE Settle
  <2>1. /\ pc = "judge" /\ pc' = "tasks" /\ UNCHANGED <<results, failedHere>>
        /\ done' = done \cup {cur}
        /\ stageFailed \/ (results[cur] = "failed" /\ cur \notin AllowFail) => stageFailed'
    BY <1>6, Zenon DEF Settle, memory
  <2>2. Accounted'
    BY <1>1, <1>2, <1>3, <2>1 DEF PlanInv, Accounted
  <2>3. FailureMarked'
    BY <1>1, <2>1 DEF PlanInv, FailureMarked
  <2> QED
    BY <2>2, <2>3
<1> QED
  BY <1>4, <1>5, <1>6

LEMMA PlanCall ==
  ASSUME PlanInv, Call
  PROVE  Accounted' /\ FailureMarked'
<1>1. /\ primed \in BOOLEAN /\ saved \in SUBSET Task /\ recipe \in Recipe
      /\ Successes(log) \in SUBSET Task /\ TRUE \in BOOLEAN /\ {} \in SUBSET Task
  BY SuccessesType DEF PlanInv, TypeOK
<1>2. ASSUME NEW r \in Recipe, NEW f \in SUBSET Stage, NEW g \in SUBSET Task,
             StartRun(r, f, g, primed, saved) \/ StartRun(r, f, g, TRUE, Successes(log))
      PROVE  Accounted' /\ FailureMarked'
  BY <1>1, <1>2, AccountedStart
<1>3. CASE RetryRejected
  BY <1>3 DEF RetryRejected, Accounted, FailureMarked
<1>4. ASSUME NEW r \in Recipe, NEW f \in SUBSET Stage, BootRun(r, f)
      PROVE  Accounted' /\ FailureMarked'
  BY <1>1, <1>2, <1>4 DEF BootRun
<1>5. ASSUME NEW f \in SUBSET Stage, NEW g \in SUBSET Task, Retry(f, g)
      PROVE  Accounted' /\ FailureMarked'
  BY <1>1, <1>2, <1>5 DEF Retry
<1>6. ASSUME NEW r \in Recipe, NEW f \in SUBSET Stage, NEW g \in SUBSET Task, Run(r, f, g)
      PROVE  Accounted' /\ FailureMarked'
  BY <1>2, <1>6 DEF Run
<1> QED
  BY <1>3, <1>4, <1>5, <1>6 DEF Call

LEMMA PlanStep == PlanInv /\ [Next]_vars => PlanInv'
<1> SUFFICES ASSUME PlanInv, [Next]_vars PROVE Accounted' /\ FailureMarked'
  BY TypeNext DEF PlanInv
<1>1. CASE SkipStage \/ EnterStage \/ LeaveStage
  BY <1>1, StagePlan
<1>2. CASE StageRaises \/ Break \/ Return
  BY <1>2 DEF StageRaises, Break, Return, Finish, Accounted, FailureMarked
<1>3. ASSUME NEW t \in Task, Reuse(t) \/ Skip(t) \/ Begin(t)
      PROVE  Accounted' /\ FailureMarked'
  BY <1>3, TaskPlan
<1>4. CASE (\E s \in Executed : Act(s)) \/ RetryTask \/ Settle
  BY <1>4, AttemptPlan
<1>5. CASE Call
  BY <1>5, PlanCall
<1>6. CASE Die
  BY <1>6 DEF Die, Crash, CrashRecording, CrashOpening, Restart, Accounted, FailureMarked
<1>7. CASE UNCHANGED vars
  <2>1. UNCHANGED <<recipe, pc, stages, tasks, stage, done, cur, results, pending,
                    stageFailed, failedHere>>
    BY <1>7 DEF vars, plan, loop, memory
  <2>2. PlanError(stages, tasks)' <=> PlanError(stages, tasks)
    BY <2>1 DEF PlanError, BadDependency, Cyclic, StageTasks, Selected
  <2>3. Selected(stages, tasks)' = Selected(stages, tasks)
    BY <2>1 DEF Selected
  <2> QED
    BY <2>1, <2>2, <2>3 DEF PlanInv, Accounted, FailureMarked
<1> QED
  BY <1>1, <1>2, <1>3, <1>4, <1>5, <1>6, <1>7 DEF Next, Step

LEMMA PlanInit == Init => PlanInv
  BY TypeInit DEF Init, PlanInv, Accounted, FailureMarked

LEMMA PlanKept == Spec => []PlanInv
  BY PlanInit, PlanStep, PTL DEF Spec

-----------------------------------------------------------------------------
(* What follows from it *)

LEMMA AccountedMeans == PlanInv => NoMissingDependency
<1> SUFFICES ASSUME PlanInv, pc = "tasks", NEW t \in Task, Turn(t), NEW d \in Deps[t]
             PROVE  results[d] # "none"
  BY DEF NoMissingDependency, Missing
<1> USE TaskAssumption DEF Stage
<1>1. /\ t \in Selected(stages, tasks) /\ StageOf[t] = stage /\ d \in Task
      /\ Deps[t] \cap Planned(stage) \subseteq done
      /\ StageOf[d] \in Nat /\ stage \in Nat
  BY DEF Turn, Ready, Planned, StageTasks, PlanInv, TypeOK
<1>2. ~BadDependency(t, d, stages, tasks)
  BY <1>1 DEF PlanInv, Accounted, PlanError
<1>3. CASE StageOf[d] = stage
  BY <1>1, <1>2, <1>3 DEF BadDependency, PlanInv, Accounted, Planned, StageTasks
<1>4. CASE StageOf[d] < stage
  <2>1. d \in Selected(stages, tasks)
    BY <1>1, <1>2, <1>4 DEF BadDependency, Selected
  <2> QED
    BY <1>4, <2>1 DEF PlanInv, Accounted
<1> QED
  BY <1>1, <1>2, <1>3, <1>4 DEF BadDependency

(* The dependency-missing branch of _run_stage is dead code: an accepted   *)
(* plan never reaches a task with a dependency that has no result.         *)
THEOREM NoneMissing == Spec => []NoMissingDependency
  BY PlanKept, AccountedMeans, PTL

(* Numbers have a least one.                                               *)
LEMMA LeastRank ==
  ASSUME NEW S \in SUBSET Task, S # {}
  PROVE  \E t \in S : \A u \in S : Rank[t] <= Rank[u]
<1> DEFINE Ranks == {Rank[t] : t \in S}
<1>1. Ranks \subseteq Nat /\ Ranks # {}
  BY TaskAssumption
<1>2. \E x \in Ranks : \A y \in Ranks : ~(<<y, x>> \in OpToRel(<, Nat))
  BY <1>1, NatLessThanWellFounded, WFMin
<1>3. PICK t \in S : \A u \in S : ~(<<Rank[u], Rank[t]>> \in OpToRel(<, Nat))
  BY <1>2
<1>4. \A u \in S : Rank[u] \in Nat /\ Rank[t] \in Nat /\ ~(Rank[u] < Rank[t])
  BY <1>1, <1>3 DEF OpToRel
<1> QED
  BY <1>4

LEMMA AcyclicMeans == PlanInv => SomeTaskHasItsTurn
<1> SUFFICES ASSUME PlanInv, pc = "tasks", ~(Planned(stage) \subseteq done)
             PROVE  \E t \in Task : Turn(t)
  BY DEF SomeTaskHasItsTurn
<1> DEFINE C == Planned(stage) \ done
<1>1. C # {} /\ C \in SUBSET StageTasks(stage, stages, tasks) /\ stage \in Stage
  BY DEF Planned, PlanInv, TypeOK
<1>2. PICK t \in C : Deps[t] \cap C = {}
  BY <1>1 DEF PlanInv, Accounted, PlanError, Cyclic
<1>3. t \in Ready(stage) /\ Ready(stage) \in SUBSET Task
  BY <1>2, SelectedType DEF Ready, Planned, StageTasks
<1> QED
  BY <1>3, LeastRank DEF Turn

(* The task loop of a stage is never stuck: the plan has no cycle.         *)
THEOREM AlwaysATurn == Spec => []SomeTaskHasItsTurn
  BY PlanKept, AcyclicMeans, PTL

(* A run that leaves the loop at its end has a result for every task.      *)
THEOREM AllAccounted == Spec => ReturnAccountsForAll
<1> DEFINE Whole == pc = "stage" /\ stage \notin Stage
                      => \A t \in Selected(stages, tasks) : results[t] # "none"
<1>1. PlanInv => Whole
  <2> SUFFICES ASSUME PlanInv, pc = "stage", stage \notin Stage,
                      NEW t \in Selected(stages, tasks)
               PROVE  results[t] # "none"
    OBVIOUS
  <2>1. stage = NStages + 1 /\ StageOf[t] \in 1..NStages
    BY TaskAssumption, SelectedType DEF PlanInv, TypeOK, Stage
  <2> QED
    BY <2>1, TaskAssumption DEF PlanInv, Accounted
<1> QED
  BY <1>1, PlanKept, PTL DEF ReturnAccountsForAll

(* No task starts after one that must not fail has failed in its stage, or *)
(* in an earlier one unless the recipe goes on after failures.             *)
THEOREM FailFast == Spec => NoWorkAfterFailure
<1> DEFINE Fast == \A u \in Task :
                     (/\ pc = "tasks" /\ pc' = "attempt"
                      /\ results[u] = "failed" /\ u \notin AllowFail)
                     => StageOf[u] < stage /\ recipe \in ContinueOnFailure
<1>1. PlanInv /\ [Next]_vars => [Fast]_vars
  <2> SUFFICES ASSUME PlanInv, Next, pc = "tasks", pc' = "attempt", NEW u \in Task,
                      results[u] = "failed", u \notin AllowFail
               PROVE  StageOf[u] < stage /\ recipe \in ContinueOnFailure
    OBVIOUS
  <2>1. PICK t \in Task : Begin(t)
    BY DEF Next, Step, Call, Die, SkipStage, EnterStage, StageRaises, LeaveStage, Break, Return,
           Finish, Reuse, Skip, Act, RetryTask, Settle, Run, BootRun, Retry, RetryRejected,
           StartRun, Crash, CrashRecording, CrashOpening, Restart
  <2>2. ~stageFailed
    BY <2>1 DEF Begin
  <2> QED
    BY <2>2 DEF PlanInv, FailureMarked
<1> QED
  BY <1>1, PlanKept, PTL DEF Spec, NoWorkAfterFailure

-----------------------------------------------------------------------------
(***************************************************************************)
(* Whatever a crash leaves at the end of the journal, a bare last line     *)
(* included, a resume claims no success the journal does not have.         *)
(***************************************************************************)
(* What a torn or an unterminated last line may cost: successes, never a   *)
(* success too many.  A line that says success is the last of its task.    *)
SuccessIsLast ==
  \A i, k \in 1..Len(log) : i < k /\ log[i].task = log[k].task => log[i].status # "success"

ClaimInv ==
  /\ TypeOK
  /\ ResumeStateFresh /\ SuccessesBehind /\ DoneInStage /\ AttemptGrounded
  /\ ResumeNeverOverclaims /\ SuccessIsLast

(* the part a step of a run in progress can disturb *)
ClaimPart == /\ SuccessesBehind /\ DoneInStage /\ AttemptGrounded
             /\ ResumeNeverOverclaims /\ SuccessIsLast

LEMMA IdleClaimPart ==
  ASSUME pc' = "idle", SuccessIsLast'
  PROVE  ClaimPart'
  BY DEF ClaimPart, SuccessesBehind, DoneInStage, AttemptGrounded, ResumeNeverOverclaims

LEMMA SameLog == ASSUME SuccessIsLast, UNCHANGED log PROVE SuccessIsLast'
  BY DEF SuccessIsLast

LEMMA NoLog == ASSUME log' = <<>> PROVE SuccessIsLast'
  BY DEF SuccessIsLast

(* A task without a success has no line that says success. *)
LEMMA NoLineOfSuccess ==
  ASSUME TypeOK, SuccessIsLast, NEW t \in Task, t \notin Successes(log)
  PROVE  \A i \in 1..Len(log) : log[i].task = t => log[i].status # "success"
<1> SUFFICES ASSUME NEW i \in 1..Len(log), log[i].task = t, log[i].status = "success"
             PROVE  FALSE
  OBVIOUS
<1>1. log \in Seq(Entry) /\ Len(log) \in Nat
  BY DEF TypeOK
<1>2. \A k \in Lines(log, t) : k <= i
  BY <1>1 DEF SuccessIsLast, Lines
<1>3. LastLine(log, t) = {i}
  BY <1>1, <1>2 DEF LastLine, Lines
<1> QED
  BY <1>3 DEF Successes

LEMMA LineKeeps ==
  ASSUME TypeOK, SuccessIsLast, NEW t \in Task, t \notin Successes(log), NEW s \in Executed,
         log' = Append(log, [task |-> t, status |-> s])
  PROVE  SuccessIsLast'
<1> DEFINE e == [task |-> t, status |-> s]
<1>1. /\ log \in Seq(Entry) /\ Len(log) \in Nat /\ log' = Append(log, e) /\ e.task = t
  BY DEF TypeOK
<1>2. /\ Len(log') = Len(log) + 1 /\ log'[Len(log) + 1] = e
      /\ \A i \in 1..Len(log) : log'[i] = log[i]
  BY <1>1
<1> HIDE DEF e
<1>3. \A i \in 1..Len(log) : log[i].task = t => log[i].status # "success"
  BY NoLineOfSuccess
<1>4. SUFFICES ASSUME NEW i \in 1..Len(log'), NEW k \in 1..Len(log'), i < k,
                     log'[i].task = log'[k].task
              PROVE  log'[i].status # "success"
  BY DEF SuccessIsLast
<1>5. i \in 1..Len(log) /\ log'[i] = log[i]
  BY <1>1, <1>2, <1>4
<1>6. CASE k \in 1..Len(log)
  BY <1>2, <1>4, <1>5, <1>6 DEF SuccessIsLast
<1>7. CASE k = Len(log) + 1
  BY <1>1, <1>2, <1>3, <1>4, <1>5, <1>7
<1> QED
  BY <1>1, <1>2, <1>6, <1>7

(* Losing the last line loses no more than successes. *)
LEMMA LosingClaimsLess ==
  ASSUME TypeOK, SuccessIsLast, LoseBareLine
  PROVE  Successes(log') \subseteq Successes(log) /\ SuccessIsLast'
<1>1. log \in Seq(Entry) /\ Len(log) \in Nat
  BY DEF TypeOK
<1>2. CASE log' = log
  BY <1>2 DEF SuccessIsLast
<1>3. CASE log # <<>> /\ log' = SubSeq(log, 1, Len(log) - 1)
  <2>1. Len(log) # 0
    BY <1>1, <1>3
  <2>2. Len(log') = Len(log) - 1 /\ \A i \in 1..Len(log') : log'[i] = log[i]
    <3> DEFINE n == Len(log) - 1
    <3>1. n \in Nat /\ 1 \in Nat /\ n <= Len(log) /\ log' = SubSeq(log, 1, n)
      BY <1>1, <1>3, <2>1
    <3>2. Len(log') = n /\ \A i \in 1..n : log'[i] = log[i]
      <4> HIDE DEF n
      <4> QED
        BY <1>1, <3>1
    <3> QED
      BY <3>2
  <2>3. SuccessIsLast'
    BY <1>1, <2>1, <2>2 DEF SuccessIsLast
  <2>4. ASSUME NEW t \in Successes(log'), t \notin Successes(log)
        PROVE  FALSE
    <3>1. t \in Task /\ \E i \in LastLine(log', t) : log'[i].status = "success"
      BY <2>4 DEF Successes
    <3>2. PICK i \in 1..Len(log') : log'[i].task = t /\ log'[i].status = "success"
      BY <3>1 DEF LastLine, Lines
    <3>3. i \in 1..Len(log) /\ log[i].task = t /\ log[i].status = "success"
      BY <1>1, <2>1, <2>2, <3>2
    <3> QED
      BY <2>4, <3>1, <3>3, NoLineOfSuccess
  <2> QED
    BY <2>3, <2>4
<1> QED
  BY <1>2, <1>3 DEF LoseBareLine

LEMMA StageClaims ==
  ASSUME TypeOK, ClaimPart, SkipStage \/ EnterStage \/ LeaveStage
  PROVE  ClaimPart'
<1> USE TaskAssumption DEF Stage
<1>1. /\ UNCHANGED <<cur, pending, results, log>> /\ stage \in Nat /\ stage' \in Nat
      /\ \A t \in Task : StageOf[t] \in Nat
      /\ pc # "idle" /\ pc' \in {"stage", "tasks"}
  BY DEF SkipStage, EnterStage, LeaveStage, disk, memory, TypeOK
<1>2. ResumeNeverOverclaims' /\ AttemptGrounded' /\ SuccessIsLast'
  BY <1>1, SameLog DEF ClaimPart, ResumeNeverOverclaims, AttemptGrounded
<1>3. DoneInStage'
  BY DEF SkipStage, EnterStage, LeaveStage, ClaimPart, DoneInStage
<1>4. SuccessesBehind'
  BY <1>1 DEF SkipStage, EnterStage, LeaveStage, ClaimPart, SuccessesBehind, DoneInStage
<1> QED
  BY <1>2, <1>3, <1>4 DEF ClaimPart

LEMMA TaskClaims ==
  ASSUME TypeOK, ClaimPart, NEW t \in Task, Reuse(t) \/ Skip(t) \/ Begin(t)
  PROVE  ClaimPart'
<1>1. /\ UNCHANGED <<stage, log>> /\ pc = "tasks" /\ t \notin done /\ StageOf[t] = stage
      /\ SuccessIsLast'
  BY TurnMeans, SameLog DEF Reuse, Skip, Begin, memory, disk, ClaimPart
<1>2. CASE Reuse(t)
  <2>1. /\ UNCHANGED <<pc, cur, results>>
        /\ pending' = pending \ {t} /\ done' = done \cup {t}
    BY <1>2 DEF Reuse, memory
  <2> QED
    BY <1>1, <2>1
       DEF ClaimPart, SuccessesBehind, DoneInStage, AttemptGrounded, ResumeNeverOverclaims
<1>3. results[t] # "success" \/ t \in pending
  BY <1>1, TaskAssumption DEF ClaimPart, SuccessesBehind, TypeOK, Stage
<1>4. CASE Skip(t)
  <2>1. /\ UNCHANGED <<pc, cur, pending>> /\ t \notin pending
        /\ results' = [results EXCEPT ![t] = "skipped"] /\ done' = done \cup {t}
    BY <1>4 DEF Skip
  <2>2. \A u \in Task : results'[u] = "success" <=> results[u] = "success"
    BY <1>3, <2>1 DEF TypeOK
  <2> QED
    BY <1>1, <2>1, <2>2
       DEF ClaimPart, SuccessesBehind, DoneInStage, AttemptGrounded, ResumeNeverOverclaims
<1>5. CASE Begin(t)
  <2>1. /\ UNCHANGED <<done, pending, results>> /\ pc' = "attempt" /\ cur' = t
        /\ t \notin pending /\ ~Missing(t) /\ ~Blocked(t)
    BY <1>5 DEF Begin, Off, memory
  <2>2. \A d \in Deps[t] : d # t /\ results[d] = "success"
    BY <1>3, <2>1 DEF Missing, Blocked
  <2>3. AttemptGrounded'
    BY <1>1, <1>3, <2>1, <2>2 DEF AttemptGrounded
  <2> QED
    BY <1>1, <2>1, <2>3
       DEF ClaimPart, SuccessesBehind, DoneInStage, ResumeNeverOverclaims
<1> QED
  BY <1>2, <1>4, <1>5

LEMMA JudgeClaims ==
  ASSUME TypeOK, ClaimPart, RetryTask \/ Settle
  PROVE  ClaimPart'
<1>1. UNCHANGED <<stage, pending, results, log, cur>> /\ pc = "judge" /\ SuccessIsLast'
  BY SameLog DEF RetryTask, Settle, memory, disk, ClaimPart
<1>2. CASE RetryTask
  <2>1. UNCHANGED done /\ pc' = "attempt" /\ results[cur] = "failed"
    BY <1>2 DEF RetryTask, MayRetry
  <2> QED
    BY <1>1, <2>1
       DEF ClaimPart, SuccessesBehind, DoneInStage, AttemptGrounded, ResumeNeverOverclaims
<1>3. CASE Settle
  <2>1. pc' = "tasks" /\ done' = done \cup {cur}
    BY <1>3 DEF Settle
  <2> QED
    BY <1>1, <2>1
       DEF ClaimPart, SuccessesBehind, DoneInStage, AttemptGrounded, ResumeNeverOverclaims
<1> QED
  BY <1>2, <1>3

LEMMA ActClaims ==
  ASSUME TypeOK, ClaimPart, NEW s \in Executed, Act(s)
  PROVE  ClaimPart'
<1> DEFINE e == [task |-> cur, status |-> s]
<1>1. /\ pc = "attempt" /\ pc' = "judge" /\ cur \in Task
      /\ UNCHANGED <<stage, done, pending, cur>>
      /\ results' = [results EXCEPT ![cur] = s] /\ log' = Append(log, e)
  BY DEF Act, TypeOK
<1>2. e \in Entry /\ log \in Seq(Entry) /\ e.task = cur /\ e.status = s
  BY <1>1 DEF Entry, TypeOK
<1>3. Successes(log)' = IF s = "success" THEN Successes(log) \cup {cur}
                                         ELSE Successes(log) \ {cur}
  BY <1>1, <1>2, SuccessesAppend
<1>4. \A t \in Task : results'[t] = IF t = cur THEN s ELSE results[t]
  BY <1>1 DEF TypeOK
<1>5. /\ results[cur] # "success" /\ StageOf[cur] = stage
      /\ \A d \in Deps[cur] : d # cur /\ results[d] = "success"
  BY <1>1 DEF ClaimPart, AttemptGrounded
<1>6. ResumeNeverOverclaims'
  BY <1>1, <1>3, <1>4, SuccessesType DEF ClaimPart, ResumeNeverOverclaims
<1>7. SuccessIsLast'
  <2>1. cur \notin Successes(log)
    BY <1>1, <1>5 DEF ClaimPart, ResumeNeverOverclaims
  <2> QED
    BY <1>1, <2>1, LineKeeps DEF ClaimPart
<1>8. SuccessesBehind' /\ DoneInStage' /\ AttemptGrounded'
  BY <1>1, <1>4, <1>5, TaskAssumption
     DEF ClaimPart, SuccessesBehind, DoneInStage, AttemptGrounded
<1> QED
  BY <1>6, <1>7, <1>8 DEF ClaimPart

LEMMA StartClaims ==
  ASSUME TypeOK, SuccessIsLast, NEW r, NEW f, NEW g, NEW pr \in BOOLEAN,
         NEW sv \in SUBSET Task, StartRun(r, f, g, pr, sv),
         IF pr THEN header # "none" /\ sv = Successes(log) ELSE sv = {}
  PROVE  ClaimPart' /\ ResumeStateFresh'
<1>1. CASE pc' = "idle" /\ UNCHANGED disk
  <2>1. ResumeStateFresh'
    BY <1>1 DEF StartRun, ResumeStateFresh, disk
  <2> QED
    BY <1>1, <2>1, SameLog, IdleClaimPart DEF disk
<1>2. CASE /\ pc' = "stage"
           /\ IF pr /\ header # "none" THEN LoseBareLine ELSE log' = <<>>
  <2>1. Successes(log)' \subseteq sv /\ SuccessIsLast'
    BY <1>2, SuccessesEmpty, NoLog, LosingClaimsLess
  <2>2. /\ done' = {} /\ pending' = sv
        /\ results' = [t \in Task |-> IF t \in sv THEN "success" ELSE "none"]
    BY DEF StartRun
  <2>3. ResumeNeverOverclaims'
    BY <2>1, <2>2 DEF ResumeNeverOverclaims
  <2>4. SuccessesBehind'
    BY <2>2 DEF SuccessesBehind
  <2> QED
    BY <1>2, <2>1, <2>2, <2>3, <2>4, BusyResumeState
       DEF ClaimPart, DoneInStage, AttemptGrounded
<1> QED
  BY <1>1, <1>2 DEF StartRun

LEMMA CallClaims ==
  ASSUME ClaimInv, Call
  PROVE  ClaimPart' /\ ResumeStateFresh'
<1>1. /\ TypeOK /\ SuccessIsLast /\ primed \in BOOLEAN /\ saved \in SUBSET Task
      /\ Successes(log) \in SUBSET Task /\ TRUE \in BOOLEAN
  BY SuccessesType DEF ClaimInv, TypeOK
<1>2. ASSUME NEW r, NEW f, NEW g, StartRun(r, f, g, primed, saved)
      PROVE  ClaimPart' /\ ResumeStateFresh'
  <2>1. IF primed THEN header # "none" /\ saved = Successes(log) ELSE saved = {}
    BY <1>2 DEF StartRun, ClaimInv, ResumeStateFresh
  <2> QED
    BY <1>1, <1>2, <2>1, StartClaims
<1>3. ASSUME NEW r, NEW f, NEW g, StartRun(r, f, g, TRUE, Successes(log)), header # "none"
      PROVE  ClaimPart' /\ ResumeStateFresh'
  BY <1>1, <1>3, StartClaims
<1>4. "none" \notin Recipe
  BY TaskAssumption
<1>5. ASSUME NEW r \in Recipe, NEW f \in SUBSET Stage, NEW g \in SUBSET Task, Run(r, f, g)
      PROVE  ClaimPart' /\ ResumeStateFresh'
  BY <1>2, <1>5 DEF Run
<1>6. ASSUME NEW r \in Recipe, NEW f \in SUBSET Stage, BootRun(r, f)
      PROVE  ClaimPart' /\ ResumeStateFresh'
  <2>1. CASE StartRun(r, f, {}, primed, saved)
    BY <1>2, <2>1
  <2>2. CASE header \in {r, "empty"} /\ StartRun(r, f, {}, TRUE, Successes(log))
    BY <1>3, <1>4, <2>2
  <2> QED
    BY <1>6, <2>1, <2>2 DEF BootRun
<1>7. ASSUME NEW f \in SUBSET Stage, NEW g \in SUBSET Task, Retry(f, g)
      PROVE  ClaimPart' /\ ResumeStateFresh'
  <2>1. CASE StartRun(recipe, f, g, primed, saved)
    BY <1>2, <2>1
  <2>2. CASE header \in Recipe /\ StartRun(header, f, g, TRUE, Successes(log))
    BY <1>3, <1>4, <2>2
  <2> QED
    BY <1>7, <2>1, <2>2 DEF Retry
<1>8. CASE RetryRejected
  <2>1. /\ pc' = "idle" /\ UNCHANGED <<header, log>> /\ header = "empty"
        /\ primed' = TRUE /\ saved' = Successes(log)
    BY <1>8 DEF RetryRejected, disk
  <2>2. ResumeStateFresh'
    BY <2>1 DEF ResumeStateFresh
  <2> QED
    BY <1>1, <2>1, <2>2, SameLog, IdleClaimPart
<1> QED
  BY <1>5, <1>6, <1>7, <1>8 DEF Call

(* A crash leaves a file a new process reads no false success from. *)
LEMMA DieClaims ==
  ASSUME ClaimInv, Die
  PROVE  ClaimPart' /\ ResumeStateFresh'
<1>1. Restart /\ pc' = "idle" /\ TypeOK /\ SuccessIsLast
  BY DEF Die, Crash, CrashRecording, CrashOpening, Restart, ClaimInv
<1>2. ResumeStateFresh'
  BY <1>1 DEF Restart, ResumeStateFresh
<1>3. SuccessIsLast'
  <2>1. CASE Crash
    BY <1>1, <2>1, SameLog DEF Crash, disk
  <2>2. ASSUME NEW s \in Executed, NEW k \in Tails, CrashRecording(s, k)
        PROVE  SuccessIsLast'
    <3>1. CASE log' = log
      BY <1>1, <3>1, SameLog
    <3>2. CASE log' = Append(log, [task |-> cur, status |-> s])
      <4>1. cur \in Task /\ cur \notin Successes(log)
        BY <2>2 DEF CrashRecording, ClaimInv, TypeOK, AttemptGrounded, ResumeNeverOverclaims
      <4> QED
        BY <1>1, <3>2, <4>1, LineKeeps
    <3> QED
      BY <2>2, <3>1, <3>2 DEF CrashRecording
  <2>3. ASSUME NEW r \in Recipe, NEW k \in Tails, CrashOpening(r, k)
        PROVE  SuccessIsLast'
    BY <2>3, NoLog DEF CrashOpening
  <2> QED
    BY <2>1, <2>2, <2>3 DEF Die
<1> QED
  BY <1>1, <1>2, <1>3, IdleClaimPart

LEMMA ClaimStep == ClaimInv /\ [Next]_vars => ClaimInv'
<1> SUFFICES ASSUME ClaimInv, [Next]_vars PROVE ClaimPart' /\ ResumeStateFresh'
  BY TypeNext DEF ClaimInv, ClaimPart
<1>1. TypeOK /\ ClaimPart
  BY DEF ClaimInv, ClaimPart
<1>2. CASE SkipStage \/ EnterStage \/ LeaveStage
  <2>1. pc' # "idle"
    BY <1>2 DEF SkipStage, EnterStage, LeaveStage
  <2> QED
    BY <1>1, <1>2, <2>1, StageClaims, BusyResumeState
<1>3. CASE StageRaises \/ Break \/ Return
  <2>1. /\ pc' = "idle" /\ primed' = FALSE /\ saved' = {} /\ UNCHANGED log
        /\ SuccessIsLast
    BY <1>1, <1>3 DEF StageRaises, Break, Return, Finish, disk, ClaimPart
  <2>2. ResumeStateFresh'
    BY <2>1 DEF ResumeStateFresh
  <2> QED
    BY <2>1, <2>2, SameLog, IdleClaimPart
<1>4. ASSUME NEW t \in Task, Reuse(t) \/ Skip(t) \/ Begin(t)
      PROVE  ClaimPart' /\ ResumeStateFresh'
  <2>1. pc' # "idle"
    BY <1>4 DEF Reuse, Skip, Begin
  <2> QED
    BY <1>1, <1>4, <2>1, TaskClaims, BusyResumeState
<1>5. CASE RetryTask \/ Settle
  <2>1. pc' # "idle"
    BY <1>5 DEF RetryTask, Settle
  <2> QED
    BY <1>1, <1>5, <2>1, JudgeClaims, BusyResumeState
<1>6. ASSUME NEW s \in Executed, Act(s)
      PROVE  ClaimPart' /\ ResumeStateFresh'
  <2>1. pc' # "idle"
    BY <1>6 DEF Act
  <2> QED
    BY <1>1, <1>6, <2>1, ActClaims, BusyResumeState
<1>7. CASE Call
  BY <1>7, CallClaims
<1>8. CASE Die
  BY <1>8, DieClaims
<1>9. CASE UNCHANGED vars
  <2>1. UNCHANGED <<pc, stage, done, cur, results, pending, primed, saved, header, log>>
    BY <1>9 DEF vars, loop, memory, disk
  <2> QED
    BY <2>1
       DEF ClaimInv, ClaimPart, ResumeStateFresh, SuccessesBehind, DoneInStage,
           AttemptGrounded, ResumeNeverOverclaims, SuccessIsLast
<1> QED
  BY <1>2, <1>3, <1>4, <1>5, <1>6, <1>7, <1>8, <1>9 DEF Next, Step

LEMMA ClaimInit == Init => ClaimInv
<1> SUFFICES ASSUME Init PROVE ClaimInv
  OBVIOUS
<1>1. log = <<>> /\ pc = "idle" /\ ~primed /\ saved = {}
  BY DEF Init
<1> QED
  BY <1>1, TypeInit
     DEF ClaimInv, ResumeStateFresh, SuccessesBehind, DoneInStage, AttemptGrounded,
         ResumeNeverOverclaims, SuccessIsLast

(* Whatever a crash leaves at the end of the journal, no process resumes   *)
(* or records a success that it does not have.                             *)
THEOREM NeverOverclaims == Spec => []ResumeNeverOverclaims
<1>1. ClaimInv => ResumeNeverOverclaims
  BY DEF ClaimInv
<1> QED
  BY <1>1, ClaimInit, ClaimStep, PTL DEF Spec

(***************************************************************************)
(* The thread that follows the foreground window                           *)
(***************************************************************************)

\* There is a thread as long as somebody is subscribed or waits for its end, and it
\* has ended only where it was told to.
FollowBooks ==
  /\ main \in {"loop", "locking", "joining"}
  /\ stop <=> main = "joining"
  /\ lock = IF main = "joining" THEN "main" ELSE "free"
  /\ main = "locking" => subscribers # {}
  /\ main = "joining" => subscribers = {}
  /\ thread = "none" <=> subscribers = {} /\ main # "joining"
  /\ thread = "ended" => main = "joining"
  /\ quit => main = "joining"

LEMMA FollowBegins == Active!Init => FollowBooks
  BY DEF Active!Init, FollowBooks

LEMMA ThreadFollows ==
  ASSUME FollowBooks, Active!Thread
  PROVE  FollowBooks'
<1>1. UNCHANGED <<main, stop, lock, subscribers>>
  BY DEF Active!Thread
<1>2. thread # "none" /\ thread' # "none"
  BY DEF Active!Thread, Active!Told, Active!Call, Active!HookUp, Active!Top, Active!Sample, Active!Dispatch,
         Active!Posted, Active!Dispatched, Active!ThreadStep
<1>3. (quit' => quit) /\ (thread' = "ended" => stop \/ quit)
  BY DEF Active!Thread, Active!Told, Active!Call, Active!HookUp, Active!Top, Active!Sample, Active!Dispatch,
         Active!Posted, Active!Dispatched, Active!ThreadStep
<1> QED
  BY <1>1, <1>2, <1>3 DEF FollowBooks

LEMMA FollowGoes ==
  ASSUME FollowBooks, Active!Next
  PROVE  FollowBooks'
<1>1. ASSUME NEW o \in Overlay, Active!Subscribe(o) PROVE FollowBooks'
  BY <1>1 DEF FollowBooks, Active!Subscribe
<1>2. ASSUME NEW o \in Overlay, Active!Destroy(o) PROVE FollowBooks'
  BY <1>2 DEF FollowBooks, Active!Destroy, Active!threadVars
<1>3. CASE Active!Unsubscribe
  BY <1>3 DEF FollowBooks, Active!Unsubscribe, Active!threadVars
<1>4. CASE Active!Joined
  BY <1>4 DEF FollowBooks, Active!Joined
<1>5. CASE Active!Focus
  BY <1>5 DEF FollowBooks, Active!Focus, Active!threadVars
<1> QED
  BY <1>1, <1>2, <1>3, <1>4, <1>5, ThreadFollows DEF Active!Next

(***************************************************************************)
(* The recent windows                                                      *)
(***************************************************************************)

\* One more place of a list is looked at.
KeepOne(list, S, kept, n) ==
  IF n = 0 THEN <<>> ELSE IF list[n] \in S THEN Append(kept[n - 1], list[n]) ELSE kept[n - 1]
Keeps(list, S, kept, n) == kept = [i \in 0..n |-> KeepOne(list, S, kept, i)]

\* Numbers have a least one.
LEMMA LeastNumber ==
  ASSUME NEW T \in SUBSET Nat, T # {}
  PROVE  \E n \in T : \A m \in T : n <= m
<1>1. \E n \in T : \A m \in T : ~(<<m, n>> \in OpToRel(<, Nat))
  BY NatLessThanWellFounded, WFMin
<1>2. PICK n \in T : \A m \in T : ~(<<m, n>> \in OpToRel(<, Nat))
  BY <1>1
<1>3. \A m \in T : m \in Nat /\ n \in Nat /\ ~(m < n)
  BY <1>2 DEF OpToRel
<1> QED
  BY <1>3

\* The function by which Kept is defined exists.
LEMMA KeptExists ==
  ASSUME NEW list, NEW S, NEW n \in Nat
  PROVE  \E kept : Keeps(list, S, kept, n)
<1> DEFINE T == {m \in Nat : ~\E kept : Keeps(list, S, kept, m)}
<1> SUFFICES ASSUME T # {} PROVE FALSE
  OBVIOUS
<1>1. PICK m \in T : \A k \in T : m <= k
  BY LeastNumber
<1>2. CASE m = 0
  <2> DEFINE one == [i \in 0..0 |-> <<>>]
  <2>1. Keeps(list, S, one, 0)
    BY DEF Keeps, KeepOne
  <2> QED
    BY <1>1, <1>2, <2>1
<1>3. CASE m # 0
  <2>1. m - 1 \in Nat /\ m - 1 \notin T
    BY <1>1, <1>3
  <2>2. PICK short : Keeps(list, S, short, m - 1)
    BY <2>1
  <2>3. \A i \in 0..(m - 1) : short[i] = KeepOne(list, S, short, i)
    BY <2>2 DEF Keeps
  <2> DEFINE whole == [i \in 0..m |-> IF i < m THEN short[i] ELSE KeepOne(list, S, short, m)]
  <2>4. \A i \in 0..m : whole[i] = IF i < m THEN short[i] ELSE KeepOne(list, S, short, m)
    OBVIOUS
  <2>5. whole = [i \in 0..m |-> whole[i]]
    OBVIOUS
  <2> HIDE DEF whole
  <2>6. ASSUME NEW i \in 0..m PROVE whole[i] = KeepOne(list, S, whole, i)
    <3>1. CASE i = 0
      <4>1. 0 \in 0..(m - 1) /\ 0 < m
        BY <2>1
      <4>2. whole[0] = short[0] /\ short[0] = KeepOne(list, S, short, 0)
        BY <2>3, <2>4, <4>1, <3>1
      <4> QED
        BY <3>1, <4>2 DEF KeepOne
    <3>2. CASE i # 0
      <4>1. i - 1 \in 0..m /\ i - 1 < m
        BY <1>1, <3>2
      <4>2. whole[i - 1] = short[i - 1]
        BY <2>4, <4>1
      <4>3. KeepOne(list, S, whole, i) = KeepOne(list, S, short, i)
        BY <3>2, <4>2 DEF KeepOne
      <4>4. whole[i] = KeepOne(list, S, short, i)
        <5>1. CASE i < m
          <6>1. i \in 0..(m - 1)
            BY <1>1, <5>1
          <6> QED
            BY <2>3, <2>4, <5>1, <6>1
        <5>2. CASE i = m
          BY <2>4, <5>2
        <5> QED
          BY <1>1, <5>1, <5>2
      <4> QED
        BY <4>3, <4>4
    <3> QED
      BY <3>1, <3>2
  <2>7. Keeps(list, S, whole, m)
    BY <2>5, <2>6 DEF Keeps
  <2> QED
    BY <1>1, <2>7
<1> QED
  BY <1>2, <1>3

(* What a list keeps, up to one of its places: windows that are in S and nothing
   else, each once if it was there once. *)
KeptUpTo(list, S, q, n) ==
  /\ q \in Seq(Window) /\ Len(q) <= n
  /\ \A k \in 1..Len(q) : q[k] \in S /\ \E j \in 1..n : q[k] = list[j]
  /\ Cache!IsInjective(list) => \A j, k \in 1..Len(q) : q[j] = q[k] => j = k

LEMMA KeptGoes ==
  ASSUME NEW list \in Seq(Window), NEW S, NEW n \in 1..Len(list), NEW q, KeptUpTo(list, S, q, n - 1)
  PROVE  KeptUpTo(list, S, IF list[n] \in S THEN Append(q, list[n]) ELSE q, n)
<1>1. n \in Nat /\ n - 1 \in Nat /\ list[n] \in Window /\ Len(list) \in Nat /\ DOMAIN list = 1..Len(list)
  OBVIOUS
<1>2. /\ q \in Seq(Window) /\ Len(q) \in Nat /\ Len(q) <= n - 1
      /\ \A k \in 1..Len(q) : q[k] \in S /\ \E j \in 1..(n - 1) : q[k] = list[j]
      /\ Cache!IsInjective(list) => \A j, k \in 1..Len(q) : q[j] = q[k] => j = k
  BY DEF KeptUpTo
<1>3. CASE list[n] \notin S
  <2>1. Len(q) <= n /\ \A k \in 1..Len(q) : q[k] \in S /\ \E j \in 1..n : q[k] = list[j]
    BY <1>1, <1>2
  <2> QED
    BY <1>2, <1>3, <2>1 DEF KeptUpTo
<1>4. CASE list[n] \in S
  <2>1. PICK p : p = Append(q, list[n])
    OBVIOUS
  <2>2. /\ p \in Seq(Window) /\ Len(p) = Len(q) + 1 /\ p[Len(q) + 1] = list[n]
        /\ \A k \in 1..Len(q) : p[k] = q[k]
    BY <1>1, <1>2, <2>1
  <2>3. \A k \in 1..Len(p) : k \in 1..Len(q) \/ k = Len(q) + 1
    BY <1>2, <2>2
  <2>4. Len(p) <= n
    BY <1>1, <1>2, <2>2
  <2>5. ASSUME NEW k \in 1..Len(p) PROVE p[k] \in S /\ \E j \in 1..n : p[k] = list[j]
    <3>1. CASE k \in 1..Len(q)
      BY <1>1, <1>2, <2>2, <3>1
    <3>2. CASE k = Len(q) + 1
      BY <1>1, <1>4, <2>2, <3>2
    <3> QED
      BY <2>3, <3>1, <3>2
  <2>6. ASSUME Cache!IsInjective(list), NEW j \in 1..Len(p), NEW k \in 1..Len(p), p[j] = p[k] PROVE j = k
    <3>1. \A a1, a2 \in 1..Len(list) : list[a1] = list[a2] => a1 = a2
      BY <1>1, <2>6 DEF Cache!IsInjective
    <3>2. \A m \in 1..Len(q) : q[m] # list[n]
      BY <1>1, <1>2, <3>1
    <3> QED
      BY <1>2, <2>2, <2>3, <2>6, <3>2
  <2> QED
    BY <1>4, <2>1, <2>2, <2>4, <2>5, <2>6 DEF KeptUpTo
<1> QED
  BY <1>3, <1>4

LEMMA KeptIs ==
  ASSUME NEW list \in Seq(Window), NEW S
  PROVE  KeptUpTo(list, S, Cache!Kept(list, S), Len(list))
<1>1. Len(list) \in Nat
  OBVIOUS
<1> DEFINE kept == CHOOSE f : f = [n \in 0..Len(list) |->
                     IF n = 0 THEN <<>> ELSE IF list[n] \in S THEN Append(f[n - 1], list[n]) ELSE f[n - 1]]
<1>2. \E f : f = [n \in 0..Len(list) |->
                     IF n = 0 THEN <<>> ELSE IF list[n] \in S THEN Append(f[n - 1], list[n]) ELSE f[n - 1]]
  <2>1. PICK f : Keeps(list, S, f, Len(list))
    BY <1>1, KeptExists
  <2>2. f = [n \in 0..Len(list) |->
                     IF n = 0 THEN <<>> ELSE IF list[n] \in S THEN Append(f[n - 1], list[n]) ELSE f[n - 1]]
    BY <2>1 DEF Keeps, KeepOne
  <2> QED
    BY <2>2
<1>3. kept = [n \in 0..Len(list) |->
                     IF n = 0 THEN <<>> ELSE IF list[n] \in S THEN Append(kept[n - 1], list[n]) ELSE kept[n - 1]]
  BY <1>2
<1>4. Cache!Kept(list, S) = kept[Len(list)]
  BY DEF Cache!Kept
<1> HIDE DEF kept
<1>5. \A n \in 0..Len(list) : kept[n] = IF n = 0 THEN <<>> ELSE IF list[n] \in S THEN Append(kept[n - 1], list[n])
                                                                 ELSE kept[n - 1]
  BY <1>3
<1> DEFINE T == {n \in 0..Len(list) : ~KeptUpTo(list, S, kept[n], n)}
<1>6. ASSUME T # {} PROVE FALSE
  <2>1. PICK n \in T : \A m \in T : n <= m
    <3>1. T \in SUBSET Nat
      BY <1>1
    <3> QED
      BY <1>6, <3>1, LeastNumber
  <2>2. CASE n = 0
    <3>1. kept[0] = <<>>
      BY <1>1, <1>5
    <3>2. KeptUpTo(list, S, <<>>, 0)
      BY DEF KeptUpTo
    <3> QED
      BY <2>1, <2>2, <3>1, <3>2
  <2>3. CASE n # 0
    <3>1. n \in 1..Len(list) /\ n - 1 \in 0..Len(list) /\ n - 1 \notin T
      BY <1>1, <2>1, <2>3
    <3>2. KeptUpTo(list, S, kept[n - 1], n - 1)
      BY <3>1
    <3>3. KeptUpTo(list, S, IF list[n] \in S THEN Append(kept[n - 1], list[n]) ELSE kept[n - 1], n)
      BY <3>1, <3>2, KeptGoes
    <3>4. kept[n] = IF list[n] \in S THEN Append(kept[n - 1], list[n]) ELSE kept[n - 1]
      BY <1>5, <2>1, <2>3
    <3> QED
      BY <2>1, <3>3, <3>4
  <2> QED
    BY <2>2, <2>3
<1>7. Len(list) \notin T
  BY <1>6
<1>8. KeptUpTo(list, S, kept[Len(list)], Len(list))
  BY <1>1, <1>7
<1> QED
  BY <1>4, <1>8

\* A list without S of what it has: nothing but windows of it that are in S.
LEMMA KeptHas ==
  ASSUME NEW list \in Seq(Window), NEW S
  PROVE  /\ Cache!Kept(list, S) \in Seq(Window) /\ Len(Cache!Kept(list, S)) <= Len(list)
         /\ \A k \in 1..Len(Cache!Kept(list, S)) : Cache!Kept(list, S)[k] \in S
         /\ Cache!IsInjective(list) => Cache!IsInjective(Cache!Kept(list, S))
<1>1. PICK q : q = Cache!Kept(list, S)
  OBVIOUS
<1>2. KeptUpTo(list, S, q, Len(list))
  BY <1>1, KeptIs
<1>3. q \in Seq(Window) /\ DOMAIN q = 1..Len(q)
  BY <1>2 DEF KeptUpTo
<1>4. Cache!IsInjective(list) => Cache!IsInjective(q)
  BY <1>2, <1>3 DEF KeptUpTo, Cache!IsInjective
<1>5. Len(q) <= Len(list) /\ \A k \in 1..Len(q) : q[k] \in S
  BY <1>2 DEF KeptUpTo
<1> QED
  BY <1>1, <1>3, <1>4, <1>5

\* A list of different windows, RecentMax of them at most.
Few(list) == list \in Seq(Window) /\ Cache!IsInjective(list) /\ Len(list) <= RecentMax

LEMMA FewRemembered ==
  ASSUME Cache!WindowAssumption, NEW list, Few(list), NEW w \in Window
  PROVE  Few(Cache!Remembered(list, w))
<1>1. RecentMax \in Nat /\ RecentMax >= 1
  BY DEF Cache!WindowAssumption
<1>2. PICK q : q = Cache!Kept(list, Window \ {w})
  OBVIOUS
<1>3. /\ q \in Seq(Window) /\ Len(q) <= Len(list) /\ Cache!IsInjective(q)
      /\ \A k \in 1..Len(q) : q[k] \in Window \ {w}
  BY <1>2, KeptHas DEF Few
<1>4. PICK p : p = Append(q, w)
  OBVIOUS
<1>5. /\ p \in Seq(Window) /\ Len(p) = Len(q) + 1 /\ p[Len(q) + 1] = w
      /\ \A k \in 1..Len(q) : p[k] = q[k]
  BY <1>3, <1>4
<1>6. Len(q) \in Nat /\ Len(list) \in Nat /\ Len(list) <= RecentMax /\ DOMAIN q = 1..Len(q) /\ DOMAIN p = 1..Len(p)
  BY <1>3, <1>5 DEF Few
<1>7. ASSUME NEW j \in 1..Len(p), NEW k \in 1..Len(p), p[j] = p[k] PROVE j = k
  <2>1. (j \in 1..Len(q) \/ j = Len(q) + 1) /\ (k \in 1..Len(q) \/ k = Len(q) + 1)
    BY <1>5, <1>6
  <2>2. \A m \in 1..Len(q) : p[m] # w
    BY <1>3, <1>5
  <2>3. CASE j \in 1..Len(q) /\ k \in 1..Len(q)
    <3>1. q[j] = q[k]
      BY <1>5, <1>7, <2>3
    <3> QED
      BY <1>3, <1>6, <2>3, <3>1 DEF Cache!IsInjective
  <2> QED
    BY <1>5, <1>7, <2>1, <2>2, <2>3
<1>8. Cache!IsInjective(p)
  BY <1>6, <1>7 DEF Cache!IsInjective
<1>9. Cache!Remembered(list, w) = IF Len(p) > RecentMax THEN Tail(p) ELSE p
  BY <1>2, <1>4 DEF Cache!Remembered
<1>10. CASE Len(p) > RecentMax
  <2>1. PICK s : s = Tail(p)
    OBVIOUS
  <2>2. p # <<>>
    BY <1>5, <1>6
  <2>3. s \in Seq(Window) /\ Len(s) = Len(p) - 1 /\ \A k \in 1..Len(s) : s[k] = p[k + 1]
    BY <1>5, <2>1, <2>2
  <2>4. DOMAIN s = 1..Len(s)
    BY <2>3
  <2>5. ASSUME NEW j \in 1..Len(s), NEW k \in 1..Len(s), s[j] = s[k] PROVE j = k
    <3>1. j + 1 \in 1..Len(p) /\ k + 1 \in 1..Len(p) /\ p[j + 1] = p[k + 1]
      BY <1>5, <1>6, <2>3, <2>5
    <3>2. j + 1 = k + 1
      BY <1>7, <3>1
    <3> QED
      BY <3>2
  <2>6. Cache!IsInjective(s)
    BY <2>4, <2>5 DEF Cache!IsInjective
  <2>7. Len(s) <= RecentMax
    <3>1. Len(s) = Len(q)
      BY <1>5, <1>6, <2>3
    <3> QED
      BY <1>1, <1>3, <1>6, <3>1
  <2> QED
    BY <1>9, <1>10, <2>1, <2>3, <2>6, <2>7 DEF Few
<1>11. CASE ~(Len(p) > RecentMax)
  BY <1>1, <1>5, <1>6, <1>8, <1>9, <1>11 DEF Few
<1> QED
  BY <1>10, <1>11

\* All lists are of windows, a worker or a caller that remembers has something left,
\* the recent windows are few and different, and only tips are noted.
Listed ==
  /\ listing \in [Cache!Worker -> [list : Seq(Window), time : Nat]]
  /\ at \in [Cache!Worker -> {"waiting", "enumerating", "storing", "cleaning", "remembering"}]
  /\ \A w \in Cache!Worker : at[w] = "remembering" => listing[w].list # <<>>
Found ==
  /\ found \in [Caller -> Seq(Window)]
  /\ calling \in [Caller -> {"out", "starting", "ready", "remembering"}]
  /\ \A c \in Caller : calling[c] = "remembering" => found[c] # <<>>
WindowBooks ==
  /\ desktop \in Seq(Window) /\ moves \in Nat
  /\ cache \in [list : Seq(Window), time : Nat]
  /\ Listed /\ Found
  /\ Few(recent)
  /\ \A p \in transient : \E w \in Tips : MCPidOf[w] = p

LEMMA WindowsBegin == Cache!WindowAssumption /\ Cache!WindowInit => WindowBooks
<1> SUFFICES ASSUME Cache!WindowAssumption, Cache!WindowInit PROVE WindowBooks
  OBVIOUS
<1>1. Few(<<>>)
  BY DEF Cache!WindowAssumption, Few, Cache!IsInjective
<1>2. Cache!Nothing \in [list : Seq(Window), time : Nat]
  BY DEF Cache!Nothing
<1>3. Listed
  BY <1>2 DEF Cache!WindowInit, Listed
<1>4. Found
  BY DEF Cache!WindowInit, Found
<1>5. Few(recent)
  BY <1>1 DEF Cache!WindowInit
<1> QED
  BY <1>2, <1>3, <1>4, <1>5 DEF Cache!WindowInit, WindowBooks

\* What a worker has left to remember.
LEMMA RecallsKeep ==
  ASSUME Listed, NEW w \in Cache!Worker, NEW list \in Seq(Window), Cache!Recalls(w, list)
  PROVE  Listed'
<1>1. listing' = [listing EXCEPT ![w] = [list |-> list, time |-> 0]]
  BY DEF Cache!Recalls
<1>2. at' = [at EXCEPT ![w] = IF list = <<>> THEN "waiting" ELSE "remembering"]
  BY DEF Cache!Recalls
<1>3. listing' \in [Cache!Worker -> [list : Seq(Window), time : Nat]]
  BY <1>1 DEF Listed
<1>4. at' \in [Cache!Worker -> {"waiting", "enumerating", "storing", "cleaning", "remembering"}]
  BY <1>2 DEF Listed
<1>5. ASSUME NEW v \in Cache!Worker, at'[v] = "remembering" PROVE listing'[v].list # <<>>
  BY <1>1, <1>2, <1>5 DEF Listed
<1> QED
  BY <1>3, <1>4, <1>5 DEF Listed

\* What a caller has left to remember.
LEMMA KeepsKeep ==
  ASSUME Found, NEW c \in Caller, NEW list \in Seq(Window), Cache!Keeps(c, list)
  PROVE  Found'
<1>1. found' = [found EXCEPT ![c] = list] /\ calling' = [calling EXCEPT ![c] = IF list = <<>> THEN "out" ELSE "remembering"]
  BY DEF Cache!Keeps
<1>2. found' \in [Caller -> Seq(Window)]
  BY <1>1 DEF Found
<1>3. calling' \in [Caller -> {"out", "starting", "ready", "remembering"}]
  BY <1>1 DEF Found
<1>4. ASSUME NEW d \in Caller, calling'[d] = "remembering" PROVE found'[d] # <<>>
  BY <1>1, <1>4 DEF Found
<1> QED
  BY <1>2, <1>3, <1>4 DEF Found

LEMMA ListedStays ==
  ASSUME Listed, UNCHANGED <<listing, at>>
  PROVE  Listed'
  BY DEF Listed

LEMMA FoundStays ==
  ASSUME Found, UNCHANGED <<found, calling>>
  PROVE  Found'
  BY DEF Found

\* A worker goes on to another state, and has nothing to remember there.
LEMMA ListedGoesOn ==
  ASSUME Listed, NEW w \in Cache!Worker, NEW state \in {"waiting", "enumerating", "storing", "cleaning"},
         at' = [at EXCEPT ![w] = state],
         NEW entry \in [list : Seq(Window), time : Nat], listing' = [listing EXCEPT ![w] = entry]
  PROVE  Listed'
<1>1. listing' \in [Cache!Worker -> [list : Seq(Window), time : Nat]]
  BY DEF Listed
<1>2. at' \in [Cache!Worker -> {"waiting", "enumerating", "storing", "cleaning", "remembering"}]
  BY DEF Listed
<1>3. ASSUME NEW v \in Cache!Worker, at'[v] = "remembering" PROVE listing'[v].list # <<>>
  BY <1>3 DEF Listed
<1> QED
  BY <1>1, <1>2, <1>3 DEF Listed

\* So does a caller.
LEMMA FoundGoesOn ==
  ASSUME Found, NEW c \in Caller, NEW state \in {"out", "starting", "ready"},
         calling' = [calling EXCEPT ![c] = state], UNCHANGED found
  PROVE  Found'
<1>1. calling' \in [Caller -> {"out", "starting", "ready", "remembering"}]
  BY DEF Found
<1>2. ASSUME NEW d \in Caller, calling'[d] = "remembering" PROVE found'[d] # <<>>
  BY <1>2 DEF Found
<1> QED
  BY <1>1, <1>2 DEF Found

\* A step of a worker.
LEMMA WorkerKeeps ==
  ASSUME Cache!WindowAssumption, WindowBooks, NEW w \in Cache!Worker,
         Cache!Wake(w) \/ Cache!Enumerate(w) \/ Cache!Store(w) \/ Cache!Clean(w) \/ Cache!RememberListed(w)
  PROVE  WindowBooks'
<1>1. Listed /\ Found /\ Few(recent) /\ desktop \in Seq(Window) /\ moves \in Nat
  BY DEF WindowBooks
<1>2. listing[w] \in [list : Seq(Window), time : Nat] /\ listing = [listing EXCEPT ![w] = listing[w]]
  BY <1>1 DEF Listed
<1>3. listing[w].list \in Seq(Window)
  BY <1>2
<1>4. UNCHANGED <<desktop, moves, transient, found, calling>>
  BY DEF Cache!Wake, Cache!Enumerate, Cache!Store, Cache!Clean, Cache!RememberListed
<1>5. Found'
  BY <1>1, <1>4, FoundStays
<1>6. CASE Cache!Wake(w)
  <2>1. UNCHANGED <<cache, recent, listing>> /\ at' = [at EXCEPT ![w] = "enumerating"]
    BY <1>6 DEF Cache!Wake
  <2>2. listing' = [listing EXCEPT ![w] = listing[w]]
    BY <1>2, <2>1
  <2>3. Listed'
    BY <1>1, <1>2, <2>1, <2>2, ListedGoesOn
  <2> QED
    BY <1>4, <1>5, <2>1, <2>3 DEF WindowBooks, Few
<1>7. CASE Cache!Enumerate(w)
  <2>1. /\ UNCHANGED <<cache, recent>> /\ at' = [at EXCEPT ![w] = "storing"]
        /\ listing' = [listing EXCEPT ![w] = [list |-> desktop, time |-> moves]]
    BY <1>7 DEF Cache!Enumerate
  <2>2. [list |-> desktop, time |-> moves] \in [list : Seq(Window), time : Nat]
    BY <1>1
  <2>3. Listed'
    BY <1>1, <2>1, <2>2, ListedGoesOn
  <2> QED
    BY <1>4, <1>5, <2>1, <2>3 DEF WindowBooks, Few
<1>8. CASE Cache!Store(w)
  <2>1. UNCHANGED <<recent, listing>> /\ at' = [at EXCEPT ![w] = "cleaning"] /\ cache' = listing[w]
    BY <1>8 DEF Cache!Store
  <2>2. listing' = [listing EXCEPT ![w] = listing[w]]
    BY <1>2, <2>1
  <2>3. Listed'
    BY <1>1, <1>2, <2>1, <2>2, ListedGoesOn
  <2>4. cache' \in [list : Seq(Window), time : Nat]
    BY <1>2, <2>1
  <2> QED
    BY <1>4, <1>5, <2>1, <2>3, <2>4 DEF WindowBooks, Few
<1>9. CASE Cache!Clean(w)
  <2>1. Cache!Recalls(w, listing[w].list) /\ UNCHANGED cache /\ recent' = Cache!Kept(recent, Cache!ToSet(listing[w].list))
    BY <1>9 DEF Cache!Clean
  <2>2. PICK S : S = Cache!ToSet(listing[w].list)
    OBVIOUS
  <2>3. PICK q : q = Cache!Kept(recent, S)
    OBVIOUS
  <2>4. RecentMax \in Nat /\ Len(recent) \in Nat
    BY <1>1 DEF Cache!WindowAssumption, Few
  <2>5. Few(q)
    BY <1>1, <2>3, <2>4, KeptHas DEF Few
  <2>6. Few(recent)'
    BY <2>1, <2>2, <2>3, <2>5 DEF Few
  <2>7. Listed'
    BY <1>1, <1>3, <2>1, RecallsKeep
  <2> QED
    BY <1>4, <1>5, <2>1, <2>6, <2>7 DEF WindowBooks
<1>10. CASE Cache!RememberListed(w)
  <2>1. at[w] = "remembering" /\ Cache!Recalls(w, Tail(listing[w].list)) /\ UNCHANGED cache
        /\ recent' = Cache!Remembered(recent, Head(listing[w].list))
    BY <1>10 DEF Cache!RememberListed
  <2>2. listing[w].list # <<>>
    BY <1>1, <2>1 DEF Listed
  <2>3. Head(listing[w].list) \in Window /\ Tail(listing[w].list) \in Seq(Window)
    BY <1>3, <2>2
  <2>4. Few(Cache!Remembered(recent, Head(listing[w].list)))
    BY <1>1, <2>3, FewRemembered
  <2>5. Few(recent)'
    BY <2>1, <2>4 DEF Few
  <2>6. Listed'
    BY <1>1, <2>1, <2>3, RecallsKeep
  <2> QED
    BY <1>4, <1>5, <2>1, <2>5, <2>6 DEF WindowBooks
<1> QED
  BY <1>6, <1>7, <1>8, <1>9, <1>10

\* A step of a caller.
LEMMA CallerKeeps ==
  ASSUME Cache!WindowAssumption, WindowBooks, NEW c \in Caller,
         \/ Cache!StartWorker(c) \/ Cache!Ensure(c) \/ Cache!Prime(c)
         \/ Cache!LookRecent(c) \/ Cache!LookCached(c) \/ Cache!Keep(c)
  PROVE  WindowBooks'
<1>1. Listed /\ Found /\ Few(recent) /\ cache.list \in Seq(Window) /\ \A p \in transient : \E w \in Tips : MCPidOf[w] = p
  BY DEF WindowBooks
<1>2. UNCHANGED <<desktop, moves, cache, at, listing>>
  BY DEF Cache!StartWorker, Cache!Ensure, Cache!Prime, Cache!LookRecent, Cache!LookCached, Cache!Keep
<1>3. Listed'
  BY <1>1, <1>2, ListedStays
<1>4. CASE Cache!StartWorker(c) \/ Cache!Ensure(c) \/ Cache!Prime(c) \/ Cache!LookRecent(c)
  <2>1. PICK state \in {"out", "starting", "ready"} : calling' = [calling EXCEPT ![c] = state]
    BY <1>4 DEF Cache!StartWorker, Cache!Ensure, Cache!Prime, Cache!LookRecent
  <2>2. UNCHANGED <<found, recent>>
    BY <1>4 DEF Cache!StartWorker, Cache!Ensure, Cache!Prime, Cache!LookRecent
  <2>3. Found'
    BY <1>1, <2>1, <2>2, FoundGoesOn
  <2>4. UNCHANGED transient \/ transient' = transient \union {MCPidOf[w] : w \in Cache!ToSet(recent) \intersect Tips}
    BY <1>4 DEF Cache!StartWorker, Cache!Ensure, Cache!Prime, Cache!LookRecent, Cache!Note
  <2>5. \A p \in transient' : \E w \in Tips : MCPidOf[w] = p
    BY <1>1, <2>4
  <2> QED
    BY <1>2, <1>3, <2>2, <2>3, <2>5 DEF WindowBooks, Few
<1>5. CASE Cache!LookCached(c)
  <2>1. \A p \in transient' : \E w \in Tips : MCPidOf[w] = p
    BY <1>1, <1>5 DEF Cache!LookCached
  <2>2. Cache!Keeps(c, Cache!Shown(cache.list)) /\ UNCHANGED recent
    BY <1>5 DEF Cache!LookCached
  <2>3. Cache!Shown(cache.list) \in Seq(Window)
    BY <1>1, KeptHas DEF Cache!Shown
  <2>4. Found'
    BY <1>1, <2>2, <2>3, KeepsKeep
  <2> QED
    BY <1>2, <1>3, <2>1, <2>2, <2>4 DEF WindowBooks, Few
<1>6. CASE Cache!Keep(c)
  <2>1. calling[c] = "remembering" /\ Cache!Keeps(c, Tail(found[c])) /\ UNCHANGED transient
        /\ recent' = Cache!Remembered(recent, Head(found[c]))
    BY <1>6 DEF Cache!Keep
  <2>2. found[c] # <<>> /\ found[c] \in Seq(Window)
    BY <1>1, <2>1 DEF Found
  <2>3. Head(found[c]) \in Window /\ Tail(found[c]) \in Seq(Window)
    BY <2>2
  <2>4. Few(Cache!Remembered(recent, Head(found[c])))
    BY <1>1, <2>3, FewRemembered
  <2>5. Few(recent)'
    BY <2>1, <2>4 DEF Few
  <2>6. Found'
    BY <1>1, <2>1, <2>3, KeepsKeep
  <2> QED
    BY <1>2, <1>3, <2>1, <2>5, <2>6 DEF WindowBooks
<1> QED
  BY <1>4, <1>5, <1>6

LEMMA WindowsGo ==
  ASSUME Cache!WindowAssumption, WindowBooks, Cache!WindowNext
  PROVE  WindowBooks'
<1>1. CASE Cache!Change
  <2>1. PICK w \in Window : \/ desktop' = <<w>> \o Cache!Kept(desktop, Window \ {w})
                            \/ desktop' = Cache!Kept(desktop, Window \ {w})
    BY <1>1 DEF Cache!Change
  <2>2. desktop \in Seq(Window)
    BY DEF WindowBooks
  <2>3. PICK q : q = Cache!Kept(desktop, Window \ {w})
    OBVIOUS
  <2>4. q \in Seq(Window)
    BY <2>2, <2>3, KeptHas
  <2>5. <<w>> \in Seq(Window)
    OBVIOUS
  <2>6. <<w>> \o q \in Seq(Window)
    BY <2>4, <2>5
  <2>7. desktop' \in Seq(Window)
    BY <2>1, <2>3, <2>4, <2>6
  <2>8. moves' \in Nat /\ UNCHANGED <<at, listing, cache, recent, transient, calling, found>>
    BY <1>1 DEF Cache!Change, WindowBooks
  <2>9. Listed' /\ Found'
    BY <2>8, ListedStays, FoundStays DEF WindowBooks
  <2> QED
    BY <2>7, <2>8, <2>9 DEF WindowBooks, Few
<1>2. CASE Cache!Working
  BY <1>2, WorkerKeeps DEF Cache!Working
<1>3. CASE Cache!Calling
  BY <1>3, CallerKeeps DEF Cache!Calling
<1>4. ASSUME NEW c \in Caller,
             Cache!Ensure(c) \/ Cache!Prime(c) \/ Cache!LookRecent(c) \/ Cache!LookCached(c) \/ Cache!Keep(c)
      PROVE  WindowBooks'
  BY <1>4, CallerKeeps
<1> QED
  BY <1>1, <1>2, <1>3, <1>4 DEF Cache!WindowNext

LEMMA WorkbenchGoes ==
  ASSUME Cache!WindowAssumption, FollowBooks, WindowBooks, [AllNext]_<<part, vars, following, windows>>
  PROVE  FollowBooks' /\ WindowBooks'
<1> USE DEF Listed, Found
<1>1. CASE UNCHANGED following /\ UNCHANGED windows
  BY <1>1 DEF following, windows, FollowBooks, WindowBooks, Few
<1>2. CASE Only("setup") /\ Next
  BY <1>1, <1>2 DEF Only
<1>3. CASE Only("active") /\ Active!Next
  <2>1. UNCHANGED windows
    BY <1>3 DEF Only
  <2> QED
    BY <1>3, <2>1, FollowGoes DEF windows, WindowBooks, Few
<1>4. CASE Only("windows") /\ Cache!WindowNext
  <2>1. UNCHANGED following
    BY <1>4 DEF Only
  <2> QED
    BY <1>4, <2>1, WindowsGo DEF following, FollowBooks
<1> QED
  BY <1>1, <1>2, <1>3, <1>4 DEF AllNext

(* WorkbenchInv, for all overlays, windows, callers and bounds: a thread follows
   the foreground window as long as an overlay wants to know and no longer, and the
   recent windows stay few and different ones (window_utils.py:145, 560-760). *)
THEOREM WorkbenchHolds ==
  ASSUME Cache!WindowAssumption
  PROVE  AllSpec => []WorkbenchInv
<1>1. AllInit => FollowBooks /\ WindowBooks
  BY FollowBegins, WindowsBegin DEF AllInit
<1>2. FollowBooks /\ WindowBooks /\ [AllNext]_<<part, vars, following, windows>> => FollowBooks' /\ WindowBooks'
  BY WorkbenchGoes
<1>3. FollowBooks => Active!ActiveInv
  BY DEF FollowBooks, Active!ActiveInv
<1>4. WindowBooks => Cache!WindowsInv
  BY DEF WindowBooks, Few, Cache!WindowsInv
<1>5. FollowBooks /\ WindowBooks => WorkbenchInv
  BY <1>3, <1>4 DEF WorkbenchInv
<1> QED
  BY <1>1, <1>2, <1>5, PTL DEF AllSpec
=============================================================================
