---------------------------- MODULE BuiltinSetup ----------------------------
(* The six tasks every setup run consists of (src/coolbox/setup/stages.py),
   the installer they call (setup.py) and the dependency check the command
   line makes before a boot (src/coolbox/cli/bootstrap.py).  What a task tells
   a later one goes through the run's context, which no journal keeps; what a
   run tells a later one are the sentinel, the requirement stamp and the
   journal.  A line of requirements.txt stands for the distributions that
   satisfy it.  The python version does not change.  A write of the sentinel or
   of a stamp may fail, before or after it has emptied the file. *)
EXTENDS Naturals, FiniteSets, FiniteSetTheorems, TLAPS

CONSTANTS
  Package,     \* the lines requirements.txt may have
  MaxEdits,    \* bound on the versions of requirements.txt and setup.py
  MaxLosses,   \* bound on losses: of packages, the virtual environment, a write
  MaxBoots,    \* bound on runs
  MaxCrashes   \* bound on crashes

\* the bound on edits is one, and no requirement is called "torn"
BuiltinAssumption == MaxEdits \in Nat /\ "torn" \notin Package

VARIABLES
  reqs, mtime,  \* requirements.txt: its lines, its modification time
  sentinel,     \* the digest in .setup_done
  unwritten,    \* history: the last digest that was to be there is not
  host,         \* what the interpreter can import that is not the environment's
  made,         \* the virtual environment has a directory for packages
  venv,         \* what is installed in the virtual environment
  stamp,        \* .req_hash there: {}, the lines it was written for, or Torn
  stamps,       \* the stamps kept under the user's cache directory
  log,          \* the last result of each task in the newest journal
  inVenv,       \* the interpreter is the virtual environment's
  recipe,       \* base (which local only decorates), ci or airgapped
  pc,           \* idle, check, plan, pip, finish (the installer), run
  run,          \* how this run was started
  early,        \* run_setup_if_needed: its digest
  caller,       \* who called the installer: check or task
  planned,      \* the installer's plan
  credits,      \* _resume_success_pending
  past,         \* tasks the run has left behind
  context,      \* StageContext.state
  result,       \* StageContext.results; why install.run was skipped
  outcome,      \* of the latest run: none, ok, failed
  settled,      \* history: since the last edit an installation was planned
                \* for, or a verification found everything of, reqs
  quiet,        \* history: nothing was edited or lost since the run began
  bypassed,     \* history: a run with SKIP_SETUP=1 has ended
  losses, boots, crashes

files == <<reqs, mtime, sentinel, unwritten, host, made, venv, stamp, stamps>>
process == <<run, early, caller, planned, credits, past, context, result>>
counts == <<losses, boots, crashes>>
vars == <<files, log, inVenv, recipe, pc, process, outcome, settled, quiet, bypassed, counts>>

Builtin == {"preflight.env", "preflight.digest", "dependency.requirements", "install.run",
         "verify.environment", "summary.render"}
Order == [t \in Builtin |-> CASE t = "preflight.env" -> 1 [] t = "preflight.digest" -> 2
                          [] t = "dependency.requirements" -> 3 [] t = "install.run" -> 4
                          [] t = "verify.environment" -> 5 [] OTHER -> 6]
Status == {"none", "success", "skipped", "failed"}
Bundled == {"base", "ci", "airgapped"}

NoDigest == [lines |-> {}, mtime |-> 0]

DigestOfContent == [lines |-> reqs, mtime |-> 1]          \* mutant of Digest
Digest == [lines |-> reqs, mtime |-> mtime]

\* a stamp that was cut: it matches no lines
Torn == {"torn"}

Forced == recipe = "ci"
\* What the interpreter itself can import.
Importable == IF inVenv THEN venv ELSE host
\* What is missing: in the virtual environment, or in the interpreter while
\* there is no virtual environment with packages.
Missing == reqs \ (IF made THEN venv ELSE Importable)
MissingHere == reqs \ Importable

\* A profile with stages, which resumes; one without; `run_setup`; the
\* recovery profile; a stage rerun from the dashboard.
Kind == {[check |-> TRUE, resumes |-> TRUE, tasks |-> Builtin],
         [check |-> TRUE, resumes |-> FALSE, tasks |-> Builtin],
         [check |-> FALSE, resumes |-> FALSE, tasks |-> Builtin],
         [check |-> TRUE, resumes |-> TRUE, tasks |-> {"verify.environment", "summary.render"}],
         [check |-> FALSE, resumes |-> FALSE, tasks |-> {"install.run"}]}
NoRun == [kind |-> [check |-> FALSE, resumes |-> FALSE, tasks |-> {}],
          skip |-> FALSE, offline |-> FALSE]
NoPlan == [full |-> FALSE, lines |-> {}]
NoContext == [sentinel |-> FALSE, skip |-> FALSE, digest |-> NoDigest, should |-> FALSE]
Unrun == [t \in Builtin |-> "none"]
Fresh == run.kind.tasks = Builtin /\ ~run.kind.resumes

\* The first run of a fresh checkout or of one that was set up before
Init ==
  /\ reqs \in SUBSET Package /\ mtime = 1
  /\ sentinel = NoDigest /\ unwritten = FALSE /\ stamp = {} /\ stamps = {}
  /\ inVenv \in BOOLEAN /\ made = inVenv /\ venv = {}
  /\ host \in SUBSET Package /\ (inVenv => host = {})
  /\ log = Unrun /\ recipe \in Bundled
  /\ pc = "idle" /\ run = NoRun /\ early = NoDigest /\ caller = "check" /\ planned = NoPlan
  /\ credits = {} /\ past = {} /\ context = NoContext /\ result = Unrun
  /\ outcome = "none" /\ settled = FALSE /\ quiet = TRUE /\ bypassed = FALSE
  /\ losses = 0 /\ boots = 0 /\ crashes = 0

-----------------------------------------------------------------------------
(* A run and the check before it *)

\* The run begins: a journal that is resumed goes on, any other is new.
Begin(r) ==
  /\ pc' = "run"
  /\ log' = IF r.kind.resumes THEN log ELSE Unrun
  /\ credits' = IF r.kind.resumes THEN {t \in Builtin : log[t] = "success"} ELSE {}
  /\ result' = [t \in Builtin |-> IF t \in credits' THEN "success" ELSE "none"]
  /\ past' = {} /\ context' = NoContext

Boot(kind, skip, offline) ==
  LET r == [kind |-> kind, skip |-> skip, offline |-> offline] IN
  /\ pc = "idle" /\ boots < MaxBoots /\ (inVenv => made)
  /\ boots' = boots + 1
  /\ run' = r /\ outcome' = "none" /\ quiet' = TRUE
  /\ IF kind.check
     THEN /\ pc' = "check" /\ result' = Unrun
          /\ UNCHANGED <<log, credits, past, context>>
     ELSE Begin(r)
  /\ UNCHANGED <<files, inVenv, recipe, early, caller, planned, settled, bypassed, losses, crashes>>

\* run_setup_if_needed looks, and calls the installer when it must.
CheckDependencies ==
  /\ pc = "check"
  /\ IF sentinel # Digest \/ MissingHere # {}
     THEN /\ pc' = "plan" /\ caller' = "check" /\ early' = Digest
          /\ UNCHANGED <<log, credits, past, context, result>>
     ELSE Begin(run) /\ UNCHANGED <<caller, early>>
  /\ UNCHANGED <<files, inVenv, recipe, run, planned, outcome, settled, quiet, bypassed, counts>>

Stop(how) ==
  /\ pc' = "idle" /\ outcome' = how
  /\ early' = NoDigest /\ caller' = "check" /\ planned' = NoPlan
  /\ credits' = {} /\ past' = {} /\ context' = NoContext
  /\ bypassed' = (bypassed \/ (how = "ok" /\ run.skip /\ run.kind.tasks = Builtin))

-----------------------------------------------------------------------------
(* The installer: install() *)

\* So many writes of a step fail.
Failing(n) == losses' = losses + n /\ losses' <= MaxLosses

\* The stamp the plan finds: an environment without one is given the cached
\* one, if it can be written.
Hydrate ==
  IF stamp = {} /\ reqs \in stamps
  THEN \/ stamp' = {reqs} /\ Failing(0)
       \/ stamp' \in {stamp, {Torn}} /\ Failing(1)
  ELSE UNCHANGED <<stamp, losses>>

PlanByStamp(found, missing) ==                            \* mutant of Plan
  IF found # {reqs} THEN [full |-> TRUE, lines |-> {}] ELSE NoPlan
\* build_smart_install_plan: everything when the stamp is of other lines, what
\* is missing in the environment that is there by now when it is not.
Plan(found, missing) ==
  IF found # {reqs} THEN [full |-> TRUE, lines |-> {}]
  ELSE [full |-> FALSE, lines |-> missing]

\* The plan is made once the virtual environment exists; one that is there
\* without its packages' directory is left as it is.
PlanInstall ==
  /\ pc = "plan"
  /\ made' \in {made, TRUE}
  /\ UNCHANGED <<reqs, host, venv, inVenv>>
  /\ Hydrate
  /\ planned' = Plan(stamp', Missing')
  /\ settled' = (settled \/ planned'.full \/ Missing' \subseteq planned'.lines)
  /\ pc' = "pip"
  /\ UNCHANGED <<mtime, sentinel, unwritten, stamps, log, recipe, run, early, caller, credits,
                 past, context, result, outcome, quiet, bypassed, boots, crashes>>

\* pip installs what it can, and only where packages go; what fails is noted in
\* the summary and nowhere else.  A full installation reads the file as it is
\* by now.
Pip ==
  /\ pc = "pip"
  /\ \E got \in SUBSET (IF planned.full THEN reqs ELSE planned.lines) :
       (got # {} => made) /\ venv' = venv \union got
  /\ settled' = (settled \/ planned.full)
  /\ pc' = "finish"
  /\ UNCHANGED <<reqs, mtime, sentinel, unwritten, host, made, stamp, stamps, log, inVenv, recipe,
                 run, early, caller, planned, credits, past, context, result, outcome, quiet,
                 bypassed, counts>>

(* The orchestrated run *)

\* The next of the run's tasks, by stage and registration.
Turn(t) ==
  /\ pc = "run" /\ t \in run.kind.tasks \ past
  /\ \A u \in run.kind.tasks \ past : Order[t] <= Order[u]

\* The result is journaled; a failure ends the run, the recipes shipped not
\* saying otherwise, and so does the last task.
Ends(t, status, rest) ==
  /\ log' = [log EXCEPT ![t] = status]
  /\ result' = [result EXCEPT ![t] = IF rest = "" THEN status ELSE rest]
  /\ IF status = "failed" \/ run.kind.tasks \subseteq past \union {t}
     THEN Stop(IF status = "failed" THEN "failed" ELSE "ok")
     ELSE /\ pc' = "run" /\ past' = past \union {t}
          /\ early' = NoDigest /\ caller' = "check" /\ planned' = NoPlan
          /\ UNCHANGED <<outcome, credits, bypassed>>

\* The digest is written; or it is not, the sentinel stays as it was or is left
\* empty, and a warning tells of it.
Store(digest, fails) ==
  /\ sentinel' \in IF fails = 0 THEN {digest} ELSE {sentinel, NoDigest}
  /\ unwritten' = (sentinel' # digest)

\* The stamp is written for the file as it is by now, whatever pip did, and then
\* copied into the cache; a failure is noted in the summary or not at all.
Stamp(fails) ==
  \/ stamp' = {reqs} /\ stamps' = stamps \union {reqs} /\ fails = 0
  \/ stamp' = {reqs} /\ stamps' \in {stamps, stamps \ {reqs}} /\ fails = 1
  \/ stamp' \in {stamp, {Torn}} /\ UNCHANGED stamps /\ fails = 1

FinishInstall ==
  /\ pc = "finish"
  /\ \E f, g \in 0..1 :
       /\ Stamp(f) /\ Failing(f + g)
       /\ IF caller = "check"
          THEN /\ Store(early, g)
               /\ early' = NoDigest /\ planned' = NoPlan
               /\ Begin(run)
               /\ UNCHANGED <<caller, outcome, bypassed>>
          ELSE /\ g = 0
               /\ Ends("install.run", "success", "")
               /\ context' = IF pc' = "idle" THEN NoContext ELSE context
               /\ UNCHANGED <<sentinel, unwritten>>
  /\ UNCHANGED <<reqs, mtime, host, made, venv, inVenv, recipe, run, settled, quiet, boots, crashes>>

\* The virtual environment cannot be made, or not wholly, or the analysis
\* raises: the check lets it through, the task reports it.
InstallRaises ==
  /\ pc = "plan"
  /\ made' \in {made, TRUE}
  /\ IF caller = "check"
     THEN Stop("failed") /\ UNCHANGED <<log, result>>
     ELSE Ends("install.run", "failed", "") /\ context' = NoContext
  /\ UNCHANGED <<reqs, mtime, sentinel, unwritten, host, venv, stamp, stamps, inVenv, recipe, run,
                 settled, quiet, counts>>

\* A task the journal has a success of is passed over.
Credit(t) ==
  /\ Turn(t) /\ t \in credits
  /\ IF run.kind.tasks \subseteq past \union {t}
     THEN Stop("ok")
     ELSE /\ past' = past \union {t} /\ credits' = credits \ {t}
          /\ UNCHANGED <<pc, outcome, early, caller, planned, context, bypassed>>
  /\ UNCHANGED <<files, log, inVenv, recipe, run, result, settled, quiet, counts>>

Executes(t) == Turn(t) /\ t \notin credits
Keeps(c) == context' = IF pc' = "idle" THEN NoContext ELSE c
Outside == <<inVenv, recipe, run, quiet, boots, crashes>>

Environment ==
  /\ Executes("preflight.env")
  /\ Ends("preflight.env", "success", "")
  /\ Keeps([context EXCEPT !.sentinel = TRUE, !.skip = run.skip])
  /\ UNCHANGED <<files, settled, losses, Outside>>

ComputeDigestUnread ==                                    \* mutant of ComputeDigest
  /\ Executes("preflight.digest")
  /\ Ends("preflight.digest", "success", "")
  /\ Keeps([context EXCEPT !.digest = Digest, !.should = Forced])
  /\ UNCHANGED <<files, settled, losses, Outside>>

\* Without the sentinel's path, which preflight.env leaves in the context,
\* the task raises.
ComputeDigest ==
  /\ Executes("preflight.digest")
  /\ IF context.skip
     THEN Ends("preflight.digest", "skipped", "") /\ Keeps(context)
     ELSE IF ~context.sentinel
     THEN Ends("preflight.digest", "failed", "") /\ Keeps([context EXCEPT !.digest = Digest])
     ELSE /\ Ends("preflight.digest", "success", "")
          /\ Keeps([context EXCEPT !.digest = Digest, !.should = Forced \/ sentinel # Digest])
  /\ UNCHANGED <<files, settled, losses, Outside>>

ResolveAnew ==                                            \* mutant of Resolve
  /\ Executes("dependency.requirements")
  /\ LET should == ~context.skip /\ (Missing # {} \/ Forced) IN
       /\ Ends("dependency.requirements", IF should THEN "success" ELSE "skipped", "")
       /\ Keeps([context EXCEPT !.should = should])
  /\ UNCHANGED <<files, settled, losses, Outside>>

Resolve ==
  /\ Executes("dependency.requirements")
  /\ LET should == ~context.skip /\ (context.should \/ Missing # {} \/ Forced) IN
       /\ Ends("dependency.requirements", IF should THEN "success" ELSE "skipped", "")
       /\ Keeps([context EXCEPT !.should = should])
  /\ UNCHANGED <<files, settled, losses, Outside>>

\* The airgapped recipe disables the task.
RunInstallers ==
  /\ Executes("install.run")
  /\ \/ /\ recipe = "airgapped"
        /\ Ends("install.run", "skipped", "recipe-skip") /\ Keeps(context)
     \/ /\ recipe # "airgapped" /\ context.skip
        /\ Ends("install.run", "skipped", "SKIP_SETUP") /\ Keeps(context)
     \/ /\ recipe # "airgapped" /\ ~context.skip /\ ~context.should
        /\ Ends("install.run", "skipped", "cache-valid") /\ Keeps(context)
     \/ /\ recipe # "airgapped" /\ ~context.skip /\ context.should
        /\ pc' = "plan" /\ caller' = "task"
        /\ UNCHANGED <<log, early, planned, credits, past, context, result, outcome, bypassed>>
  /\ UNCHANGED <<files, settled, losses, Outside>>

VerifyLenient ==                                          \* mutant of Verify
  /\ Executes("verify.environment")
  /\ Ends("verify.environment", IF context.skip THEN "skipped" ELSE "success", "")
  /\ Keeps(context)
  /\ IF ~context.skip /\ context.digest # NoDigest
     THEN \E f \in 0..1 : Store(context.digest, f) /\ Failing(f)
     ELSE UNCHANGED <<sentinel, unwritten, losses>>
  /\ UNCHANGED <<reqs, mtime, host, made, venv, stamp, stamps, settled, Outside>>

\* Nothing missing: the sentinel is to take the digest preflight.digest left,
\* if it did; that it does not is only warned of.  (Under SKIP_SETUP it never
\* does, whatever write_sentinel_on_skip is.)
Verify ==
  /\ Executes("verify.environment")
  /\ \/ /\ context.skip
        /\ Ends("verify.environment", "skipped", "")
        /\ UNCHANGED <<sentinel, unwritten, settled, losses>>
     \/ /\ ~context.skip /\ Missing # {}
        /\ Ends("verify.environment", IF run.offline THEN "skipped" ELSE "failed", "")
        /\ UNCHANGED <<sentinel, unwritten, settled, losses>>
     \/ /\ ~context.skip /\ Missing = {}
        /\ Ends("verify.environment", "success", "")
        /\ IF context.digest # NoDigest /\ context.sentinel
           THEN \E f \in 0..1 : Store(context.digest, f) /\ Failing(f)
           ELSE UNCHANGED <<sentinel, unwritten, losses>>
        /\ settled' = TRUE
  /\ Keeps(context)
  /\ UNCHANGED <<reqs, mtime, host, made, venv, stamp, stamps, Outside>>

Summarise ==
  /\ Executes("summary.render")
  /\ Ends("summary.render",
          IF \E t \in Builtin : result[t] = "failed" THEN "failed" ELSE "success", "")
  /\ Keeps(context)
  /\ UNCHANGED <<files, settled, losses, Outside>>

-----------------------------------------------------------------------------
(* The world around it *)

\* Someone, or `git pull`, changes requirements.txt or only touches it.
Edit(lines) ==
  /\ mtime <= MaxEdits
  /\ reqs' = lines /\ mtime' = mtime + 1
  /\ settled' = FALSE /\ quiet' = FALSE
  /\ UNCHANGED <<sentinel, unwritten, host, made, venv, stamp, stamps, log, inVenv, recipe, pc,
                 process, outcome, bypassed, counts>>

\* Packages are removed, or what the virtual environment has of them, with its
\* stamp or without.
Lose(gone) ==
  /\ losses < MaxLosses
  /\ losses' = losses + 1
  /\ \/ /\ venv \intersect gone # {} /\ venv' = venv \ gone
        /\ UNCHANGED <<host, made, stamp>>
     \/ /\ host \intersect gone # {} /\ host' = host \ gone
        /\ UNCHANGED <<made, venv, stamp>>
     \/ /\ made /\ made' = FALSE /\ venv' = {} /\ stamp' \in {stamp, {}}
        /\ UNCHANGED host
  /\ quiet' = FALSE
  /\ UNCHANGED <<reqs, mtime, sentinel, unwritten, stamps, log, inVenv, recipe, pc, process,
                 outcome, settled, bypassed, boots, crashes>>

Crash ==
  /\ crashes < MaxCrashes /\ pc # "idle"
  /\ crashes' = crashes + 1
  /\ pc' = "idle" /\ run' = NoRun /\ result' = Unrun /\ outcome' = "none"
  /\ early' = NoDigest /\ caller' = "check" /\ planned' = NoPlan
  /\ credits' = {} /\ past' = {} /\ context' = NoContext
  /\ UNCHANGED <<files, log, inVenv, recipe, settled, quiet, bypassed, losses, boots>>

Next ==
  \/ \E kind \in Kind, skip, offline \in BOOLEAN : Boot(kind, skip, offline)
  \/ CheckDependencies
  \/ PlanInstall \/ Pip \/ FinishInstall \/ InstallRaises
  \/ \E t \in Builtin : Credit(t)
  \/ Environment \/ ComputeDigest \/ Resolve \/ RunInstallers \/ Verify \/ Summarise
  \/ \E lines \in SUBSET Package : Edit(lines)
  \/ \E gone \in SUBSET Package : Lose(gone)
  \/ Crash

Spec == Init /\ [][Next]_vars

-----------------------------------------------------------------------------
(* What the setup keeps *)

Digests == [lines : SUBSET Package, mtime : 0..MaxEdits + 1]

Stamps == (SUBSET Package) \union {Torn}

TypeOK ==
  /\ reqs \subseteq Package /\ venv \subseteq Package /\ mtime \in 1..MaxEdits + 1
  /\ sentinel \in Digests /\ early \in Digests /\ unwritten \in BOOLEAN
  /\ host \subseteq Package /\ made \in BOOLEAN
  /\ stamp \subseteq Stamps /\ stamps \subseteq SUBSET Package
  /\ Cardinality(stamp) <= 1
  /\ log \in [Builtin -> Status]
  /\ recipe \in Bundled /\ inVenv \in BOOLEAN
  /\ pc \in {"idle", "check", "plan", "pip", "finish", "run"}
  /\ caller \in {"check", "task"}
  /\ planned.full \in BOOLEAN /\ planned.lines \subseteq Package
  /\ past \subseteq Builtin /\ credits \subseteq Builtin
  /\ outcome \in {"none", "ok", "failed"}
  /\ settled \in BOOLEAN /\ quiet \in BOOLEAN /\ bypassed \in BOOLEAN

(* A sentinel that matches was not written before the last edit: since then
   an installation was planned for the requirements as they are, or a
   verification found them all. *)
SentinelTruth == sentinel = Digest => settled

(* A run that resumes nothing says "cache-valid" only when the sentinel
   matched, and until it verifies matches, and every requirement was there: in
   the virtual environment or, without one, in the interpreter. *)
SkipsWhenValid ==
  Fresh /\ quiet /\ result["install.run"] = "cache-valid"
    => Missing = {} /\ (result["verify.environment"] = "none" => sentinel = Digest)

(* Such a run, with a network and without SKIP_SETUP, ends without failure
   only with everything there, and with the sentinel written for it unless its
   write failed, which a run only warns of. *)
EndsHonestly ==
  Fresh /\ quiet /\ outcome = "ok" /\ ~run.skip /\ ~run.offline
    => Missing = {} /\ (sentinel = Digest \/ unwritten)

BuiltinInv == TypeOK /\ SentinelTruth /\ SkipsWhenValid /\ EndsHonestly

(* A run under SKIP_SETUP=1, which bypasses the setup, fails no later one
   before it has looked at anything. *)
BypassLeavesNoTrace == ~(bypassed /\ result["preflight.digest"] = "failed")

-----------------------------------------------------------------------------
(* Proofs *)

(***************************************************************************)
(* What the built-in tasks, the installer and the check before a boot keep *)
(* between them, for every set of requirements and any number of runs,     *)
(* edits, losses and crashes.                                              *)
(***************************************************************************)

-----------------------------------------------------------------------------
(* The inductive invariant *)

Run == [kind : Kind \cup {NoRun.kind}, skip : BOOLEAN, offline : BOOLEAN]
Context == [sentinel : BOOLEAN, skip : BOOLEAN, digest : Digests, should : BOOLEAN]
Result == Status \cup {"recipe-skip", "SKIP_SETUP", "cache-valid"}

(* What the module's TypeOK leaves out.                                    *)
Shapes ==
  /\ run \in Run /\ context \in Context
  /\ result \in [Builtin -> Result]
  /\ planned \in [full : BOOLEAN, lines : SUBSET Package]

(* No digest is of a later requirements.txt than there is.                 *)
NotAhead == sentinel.mtime <= mtime /\ early.mtime <= mtime /\ context.digest.mtime <= mtime

(* The digest the check writes when it is done was planned for.            *)
PlannedFor == pc \in {"pip", "finish"} /\ early = Digest => settled

(* Where a run stands: nothing is left of it while idle, only a resume     *)
(* credits, tasks are left behind in their order.                          *)
Standing ==
  /\ pc = "idle" => past = {} /\ credits = {}
  /\ pc # "idle" => outcome = "none"
  /\ pc # "idle" /\ "install.run" \notin past => result["install.run"] # "cache-valid"
  /\ ~run.kind.resumes => credits = {}
  /\ \A t \in past, u \in run.kind.tasks : Order[u] < Order[t] => u \in past
  /\ pc \in {"plan", "pip", "finish"} /\ caller = "task" =>
       /\ context.should /\ "install.run" \notin past
       /\ \A u \in run.kind.tasks \ past : Order["install.run"] <= Order[u]
  /\ pc = "check" \/ (pc \in {"plan", "pip", "finish"} /\ caller = "check") => past = {}

(* What the tasks in p of an undisturbed run have established, with c its  *)
(* context, s the sentinel and w whether its write failed.                 *)
Established(p, c, s, w) ==
  /\ "preflight.env" \in p => c.sentinel /\ (c.skip <=> run.skip)
  /\ "preflight.digest" \in p /\ ~c.skip =>
       c.digest = Digest /\ ("verify.environment" \notin p => c.should \/ s = Digest)
  /\ "dependency.requirements" \in p /\ ~c.skip => c.should \/ Missing = {}
  /\ "verify.environment" \in p /\ ~run.skip /\ ~run.offline =>
       Missing = {} /\ (s = Digest \/ w)

Undisturbed == Fresh /\ quiet => Established(past, context, sentinel, unwritten)

Inv ==
  /\ TypeOK /\ Shapes /\ NotAhead /\ PlannedFor /\ Standing /\ Undisturbed
  /\ SentinelTruth /\ SkipsWhenValid /\ EndsHonestly

-----------------------------------------------------------------------------
(* Facts about the operators *)

LEMMA OrderIs ==
  /\ Order["preflight.env"] = 1 /\ Order["preflight.digest"] = 2
  /\ Order["dependency.requirements"] = 3 /\ Order["install.run"] = 4
  /\ Order["verify.environment"] = 5 /\ Order["summary.render"] = 6
  /\ Order \in [Builtin -> 1..6]
BY DEF Order, Builtin

LEMMA DigestNow ==
  ASSUME TypeOK
  PROVE  Digest \in Digests /\ Digest # NoDigest /\ Digest.mtime = mtime
BY DEF TypeOK, Digest, Digests, NoDigest

LEMMA NothingYet ==
  ASSUME BuiltinAssumption
  PROVE  /\ NoDigest \in Digests /\ NoDigest.mtime = 0
         /\ NoContext \in Context /\ NoContext.digest = NoDigest
         /\ NoPlan \in [full : BOOLEAN, lines : SUBSET Package]
         /\ Unrun \in [Builtin -> Result] /\ Unrun["install.run"] = "none"
         /\ NoRun \in Run
BY DEF BuiltinAssumption, NoDigest, Digests, NoContext, Context, NoPlan, Unrun, Result, Status,
       Builtin, NoRun, Run

LEMMA BuiltinInit == ASSUME BuiltinAssumption, Init PROVE Inv
<1>1. TypeOK
  <2>1. Cardinality(stamp) <= 1
    BY FS_EmptySet DEF Init
  <2>2. mtime \in 1..MaxEdits + 1
    BY DEF Init, BuiltinAssumption
  <2>3. planned.full \in BOOLEAN /\ planned.lines \subseteq Package
    BY DEF Init, NoPlan
  <2>4. log \in [Builtin -> Status]
    BY DEF Init, Unrun, Status
  <2> QED
    BY <2>1, <2>2, <2>3, <2>4, NothingYet DEF Init, TypeOK
<1>2. Shapes
  BY NothingYet DEF Init, Shapes
<1>3. NotAhead /\ PlannedFor /\ Standing
  BY NothingYet DEF Init, NotAhead, PlannedFor, Standing
<1>4. Undisturbed /\ SkipsWhenValid /\ EndsHonestly
  BY NothingYet DEF Init, Undisturbed, Established, SkipsWhenValid, EndsHonestly
<1>5. SentinelTruth
  BY <1>1, DigestNow DEF Init, SentinelTruth
<1> QED
  BY <1>1, <1>2, <1>3, <1>4, <1>5 DEF Inv

-----------------------------------------------------------------------------
(* Steps that leave the run alone *)

Elsewhere == <<log, inVenv, recipe, run, early, caller, credits, past, context, result, outcome>>

LEMMA SingleStamp == ASSUME NEW s PROVE Cardinality({s}) <= 1
<1>1. Cardinality({s}) = 1
  BY FS_Singleton
<1> QED
  BY <1>1

LEMMA StampKept ==
  ASSUME TypeOK, NEW s \in {{reqs}, {}, stamp, {Torn}}
  PROVE  s \subseteq Stamps /\ Cardinality(s) <= 1
<1>1. CASE s = stamp
  BY <1>1 DEF TypeOK
<1>2. CASE s = {}
  BY <1>2, FS_EmptySet
<1>3. CASE s = {reqs}
  <2>1. reqs \in Stamps
    BY DEF TypeOK, Stamps
  <2> QED
    BY <1>3, <2>1, SingleStamp
<1>4. CASE s = {Torn}
  <2>1. Torn \in Stamps
    BY DEF Stamps
  <2> QED
    BY <1>4, <2>1, SingleStamp
<1> QED
  BY <1>1, <1>2, <1>3, <1>4

(* While the installer runs, the run's own tasks behind it say nothing of  *)
(* what is missing, and none is the verification.                          *)
LEMMA Installing ==
  ASSUME Inv, Fresh, pc \in {"plan", "pip", "finish"}
  PROVE  /\ "install.run" \notin past /\ "verify.environment" \notin past
         /\ "dependency.requirements" \in past => context.should
         /\ result["install.run"] # "cache-valid" /\ outcome = "none"
<1>1. caller \in {"check", "task"} /\ run.kind.tasks = Builtin
  BY DEF Inv, TypeOK, Fresh
<1>2. "install.run" \notin past /\ ("dependency.requirements" \in past => context.should)
  BY <1>1 DEF Inv, Standing
<1>3. "verify.environment" \notin past
  BY <1>1, <1>2, OrderIs DEF Inv, Standing, Builtin
<1> QED
  BY <1>2, <1>3 DEF Inv, Standing

LEMMA InstallSteps ==
  ASSUME Inv, PlanInstall \/ Pip
  PROVE  Inv'
<1> USE DEF Inv
<1>1. CASE PlanInstall
  <2>1. /\ UNCHANGED <<Elsewhere, reqs, mtime, sentinel, unwritten, host, venv, stamps, quiet, bypassed>>
        /\ pc = "plan" /\ pc' = "pip" /\ made' \in {made, TRUE}
        /\ settled' = (settled \/ planned'.full \/ Missing' \subseteq planned'.lines)
    BY <1>1 DEF PlanInstall, Elsewhere
  <2>2. planned' = Plan(stamp', Missing')
    BY <1>1 DEF PlanInstall
  <2>3. stamp' \subseteq Stamps /\ Cardinality(stamp') <= 1
    <3>1. stamp' \in {{reqs}, {}, stamp, {Torn}}
      BY <1>1 DEF PlanInstall, Hydrate
    <3> QED
      BY <3>1, StampKept
  <2>4. /\ planned' \in [full : BOOLEAN, lines : SUBSET Package]
        /\ planned'.full \/ Missing' \subseteq planned'.lines
    <3>1. Missing' \subseteq Package
      BY <2>1 DEF Missing, TypeOK
    <3> QED
      BY <2>2, <3>1 DEF Plan
  <2>5. settled' = TRUE
    BY <2>1, <2>4
  <2>6. TypeOK'
    BY <2>1, <2>2, <2>3, <2>4, <2>5 DEF TypeOK, Elsewhere
  <2>7. Shapes' /\ NotAhead' /\ PlannedFor' /\ Standing'
    BY <2>1, <2>4, <2>5 DEF Shapes, NotAhead, PlannedFor, Standing, Elsewhere
  <2>8. Digest' = Digest /\ Fresh' = Fresh
    BY <2>1 DEF Digest, Fresh, Elsewhere
  <2>9. Fresh => /\ "verify.environment" \notin past
                 /\ "dependency.requirements" \in past => context.should
                 /\ result["install.run"] # "cache-valid" /\ outcome = "none"
    BY <2>1, Installing
  <2>10. Undisturbed' /\ SentinelTruth' /\ SkipsWhenValid' /\ EndsHonestly'
    BY <2>1, <2>5, <2>8, <2>9 DEF Undisturbed, Established, SentinelTruth, SkipsWhenValid,
       EndsHonestly, Elsewhere
  <2> QED
    BY <2>6, <2>7, <2>10
<1>2. CASE Pip
  <2>1. /\ UNCHANGED <<Elsewhere, reqs, mtime, sentinel, unwritten, host, made, stamp, stamps, quiet,
                        bypassed, planned>>
        /\ pc = "pip" /\ pc' = "finish"
        /\ settled' = (settled \/ planned.full)
    BY <1>2 DEF Pip, Elsewhere
  <2>2. PICK got \in SUBSET (IF planned.full THEN reqs ELSE planned.lines) : venv' = venv \union got
    BY <1>2 DEF Pip
  <2>3. got \subseteq Package
    BY <2>2 DEF TypeOK
  <2>4. TypeOK'
    BY <2>1, <2>2, <2>3 DEF TypeOK, Elsewhere
  <2>5. Digest' = Digest /\ Missing' \subseteq Missing /\ Fresh' = Fresh
    BY <2>1, <2>2 DEF Digest, Missing, Importable, Fresh, Elsewhere
  <2>6. Shapes' /\ NotAhead' /\ PlannedFor' /\ Standing'
    BY <2>1, <2>5 DEF Shapes, NotAhead, PlannedFor, Standing, Elsewhere
  <2>7. SentinelTruth'
    BY <2>1, <2>5 DEF SentinelTruth
  <2>8. Undisturbed' /\ SkipsWhenValid' /\ EndsHonestly'
    BY <2>1, <2>5 DEF Undisturbed, Established, SkipsWhenValid, EndsHonestly, Elsewhere
  <2> QED
    BY <2>4, <2>6, <2>7, <2>8
<1> QED
  BY <1>1, <1>2

LEMMA WorldSteps ==
  ASSUME Inv, BuiltinAssumption,
         (\E lines \in SUBSET Package : Edit(lines)) \/ (\E gone \in SUBSET Package : Lose(gone))
  PROVE  Inv'
<1> USE DEF Inv
<1>1. ASSUME NEW lines \in SUBSET Package, Edit(lines) PROVE Inv'
  <2>1. /\ UNCHANGED <<Elsewhere, sentinel, unwritten, host, made, venv, stamp, stamps, pc, planned,
                        bypassed>>
        /\ mtime <= MaxEdits /\ reqs' = lines /\ mtime' = mtime + 1 /\ ~settled' /\ ~quiet'
    BY <1>1 DEF Edit, Elsewhere, process
  <2>2. settled' \in BOOLEAN /\ quiet' \in BOOLEAN
    BY <1>1 DEF Edit
  <2>3. TypeOK'
    BY <2>1, <2>2, BuiltinAssumption DEF TypeOK, Elsewhere, BuiltinAssumption
  <2>4. sentinel' # Digest' /\ early' # Digest'
    <3>1. Digest'.mtime = mtime + 1
      BY <2>1 DEF Digest
    <3>2. sentinel'.mtime <= mtime /\ early'.mtime <= mtime /\ mtime \in Nat
      BY <2>1 DEF NotAhead, TypeOK, Elsewhere
    <3>3. sentinel'.mtime \in Nat /\ early'.mtime \in Nat
      BY <2>1 DEF TypeOK, Digests, Elsewhere
    <3> QED
      BY <3>1, <3>2, <3>3
  <2>5. NotAhead'
    <3>1. sentinel.mtime \in Int /\ early.mtime \in Int /\ context.digest.mtime \in Int /\ mtime \in Int
      BY DEF TypeOK, Shapes, Context, Digests
    <3> QED
      BY <2>1, <3>1 DEF NotAhead, Elsewhere
  <2>6. Shapes' /\ PlannedFor' /\ Standing'
    BY <2>1, <2>4 DEF Shapes, PlannedFor, Standing, Elsewhere
  <2>7. Undisturbed' /\ SentinelTruth' /\ SkipsWhenValid' /\ EndsHonestly'
    BY <2>1, <2>4 DEF Undisturbed, SentinelTruth, SkipsWhenValid, EndsHonestly
  <2> QED
    BY <2>3, <2>5, <2>6, <2>7
<1>2. ASSUME NEW gone \in SUBSET Package, Lose(gone) PROVE Inv'
  <2>1. /\ UNCHANGED <<Elsewhere, reqs, mtime, sentinel, unwritten, stamps, pc, planned, bypassed,
                        settled>>
        /\ ~quiet'
    BY <1>2 DEF Lose, Elsewhere, process
  <2>2. quiet' \in BOOLEAN
    BY <1>2 DEF Lose
  <2>3. /\ stamp' \subseteq Stamps /\ Cardinality(stamp') <= 1
        /\ venv' \subseteq Package /\ host' \subseteq Package /\ made' \in BOOLEAN
    <3>1. /\ stamp' = stamp \/ stamp' = {}
          /\ venv' \subseteq venv /\ host' \subseteq host /\ made' \in {made, FALSE}
      BY <1>2 DEF Lose
    <3>2. stamp' \subseteq Stamps /\ Cardinality(stamp') <= 1
      BY <3>1, StampKept
    <3> QED
      BY <3>1, <3>2 DEF TypeOK
  <2>4. TypeOK'
    BY <2>1, <2>2, <2>3 DEF TypeOK, Elsewhere
  <2>5. Digest' = Digest
    BY <2>1 DEF Digest
  <2>6. Shapes' /\ NotAhead' /\ PlannedFor' /\ Standing' /\ SentinelTruth'
    BY <2>1, <2>5 DEF Shapes, NotAhead, PlannedFor, Standing, SentinelTruth, Elsewhere
  <2>7. Undisturbed' /\ SkipsWhenValid' /\ EndsHonestly'
    BY <2>1 DEF Undisturbed, SkipsWhenValid, EndsHonestly
  <2> QED
    BY <2>4, <2>6, <2>7
<1> QED
  BY <1>1, <1>2

-----------------------------------------------------------------------------
(* Steps that begin a run or end it before a task is done *)

(* Nothing is left behind of a run that begins, crashes or has ended.      *)
LEMMA NothingBehind ==
  ASSUME past' = {}
  PROVE  Undisturbed'
BY DEF Undisturbed, Established

LEMMA Begun ==
  ASSUME Inv, NEW r, Begin(r)
  PROVE  /\ pc' = "run" /\ past' = {} /\ context' = NoContext
         /\ log' \in [Builtin -> Status] /\ credits' \subseteq Builtin
         /\ ~r.kind.resumes => credits' = {}
         /\ result' \in [Builtin -> Result] /\ result'["install.run"] # "cache-valid"
<1>1. log' \in [Builtin -> Status]
  BY DEF Begin, Inv, TypeOK, Unrun, Status
<1>2. "install.run" \in Builtin
  BY DEF Builtin
<1>3. result' \in [Builtin -> Result] /\ result'["install.run"] # "cache-valid"
  BY <1>2 DEF Begin, Result, Status
<1> QED
  BY <1>1, <1>3 DEF Begin

(* A run that ends before it has a result, or has none left to make.       *)
LEMMA Stopped ==
  ASSUME Inv, BuiltinAssumption, pc # "idle", NEW how \in {"ok", "failed"}, Stop(how),
         UNCHANGED <<reqs, mtime, sentinel, unwritten, host, venv, stamp, stamps, log, inVenv, recipe,
                     run, result, settled, quiet, counts>>,
         made' \in BOOLEAN,
         ~Fresh \/ (how = "failed" /\ result["install.run"] # "cache-valid")
  PROVE  Inv'
<1> USE DEF Inv
<1>1. /\ pc' = "idle" /\ outcome' = how /\ early' = NoDigest /\ caller' = "check"
      /\ planned' = NoPlan /\ credits' = {} /\ past' = {} /\ context' = NoContext
      /\ UNCHANGED <<reqs, mtime, sentinel, unwritten, host, venv, stamp, stamps, log, inVenv, recipe,
                     run, result, settled, quiet>>
  BY DEF Stop
<1>2. bypassed' \in BOOLEAN
  BY DEF Stop, TypeOK
<1>3. TypeOK'
  BY <1>1, <1>2, NothingYet DEF TypeOK, NoPlan
<1>4. Shapes' /\ PlannedFor' /\ Standing'
  BY <1>1, NothingYet DEF Shapes, PlannedFor, Standing
<1>5. NotAhead'
  BY <1>1, NothingYet DEF NotAhead, TypeOK
<1>6. Digest' = Digest /\ Fresh' = Fresh
  BY <1>1 DEF Digest, Fresh
<1>7. SentinelTruth' /\ SkipsWhenValid' /\ EndsHonestly'
  BY <1>1, <1>6 DEF SentinelTruth, SkipsWhenValid, EndsHonestly
<1> QED
  BY <1>1, <1>3, <1>4, <1>5, <1>7, NothingBehind

LEMMA BootStep ==
  ASSUME Inv, BuiltinAssumption, NEW kind \in Kind, NEW skip \in BOOLEAN, NEW offline \in BOOLEAN,
         Boot(kind, skip, offline)
  PROVE  Inv'
<1> USE DEF Inv
<1> DEFINE r == [kind |-> kind, skip |-> skip, offline |-> offline]
<1>1. /\ pc = "idle" /\ run' = r /\ outcome' = "none" /\ quiet' = TRUE
      /\ UNCHANGED <<reqs, mtime, sentinel, unwritten, host, made, venv, stamp, stamps, inVenv, recipe,
                     early, caller, planned, settled, bypassed>>
  BY DEF Boot, files
<1>2. r \in Run /\ r.kind = kind
  BY DEF Run
<1>3. /\ pc' \in {"check", "run"} /\ past' = {} /\ context' \in {context, NoContext}
      /\ log' \in [Builtin -> Status] /\ credits' \subseteq Builtin
      /\ ~r.kind.resumes => credits' = {}
      /\ result' \in [Builtin -> Result] /\ result'["install.run"] # "cache-valid"
  <2>1. CASE kind.check
    <3>1. pc' = "check" /\ result' = Unrun /\ UNCHANGED <<log, credits, past, context>>
      BY <2>1 DEF Boot
    <3>2. past = {} /\ credits = {}
      BY <1>1 DEF Standing
    <3> QED
      BY <3>1, <3>2, NothingYet DEF TypeOK
  <2>2. CASE ~kind.check
    <3>1. Begin(r)
      BY <2>2 DEF Boot
    <3> HIDE DEF r
    <3> QED
      BY <3>1, Begun
  <2> QED
    BY <2>1, <2>2
<1> HIDE DEF r
<1>4. TypeOK'
  BY <1>1, <1>3 DEF TypeOK
<1>5. Shapes'
  BY <1>1, <1>2, <1>3, NothingYet DEF Shapes
<1>6. NotAhead'
  BY <1>1, <1>3, NothingYet DEF NotAhead, TypeOK
<1>7. PlannedFor' /\ Standing'
  BY <1>1, <1>3 DEF PlannedFor, Standing
<1>8. SentinelTruth'
  BY <1>1 DEF SentinelTruth, Digest
<1>9. SkipsWhenValid' /\ EndsHonestly'
  BY <1>1, <1>3 DEF SkipsWhenValid, EndsHonestly
<1> QED
  BY <1>3, <1>4, <1>5, <1>6, <1>7, <1>8, <1>9, NothingBehind

LEMMA CheckStep ==
  ASSUME Inv, BuiltinAssumption, CheckDependencies
  PROVE  Inv'
<1> USE DEF Inv
<1>1. /\ pc = "check"
      /\ UNCHANGED <<reqs, mtime, sentinel, unwritten, host, made, venv, stamp, stamps, inVenv, recipe,
                     run, planned, outcome, settled, quiet, bypassed>>
  BY DEF CheckDependencies, files
<1>2. Digest' = Digest /\ Missing' = Missing /\ Fresh' = Fresh
  BY <1>1 DEF Digest, Missing, Importable, Fresh
<1>3. outcome = "none"
  BY <1>1 DEF Standing
<1>4. CASE sentinel # Digest \/ MissingHere # {}
  <2>1. /\ pc' = "plan" /\ caller' = "check" /\ early' = Digest
        /\ UNCHANGED <<log, credits, past, context, result>>
    BY <1>4 DEF CheckDependencies
  <2>2. TypeOK' /\ NotAhead'
    BY <1>1, <2>1, DigestNow DEF TypeOK, NotAhead
  <2>3. Shapes' /\ PlannedFor' /\ Standing'
    BY <1>1, <1>3, <2>1 DEF Shapes, PlannedFor, Standing
  <2>4. Undisturbed' /\ SentinelTruth' /\ SkipsWhenValid' /\ EndsHonestly'
    BY <1>1, <1>2, <2>1 DEF Undisturbed, Established, SentinelTruth, SkipsWhenValid, EndsHonestly
  <2> QED
    BY <2>2, <2>3, <2>4
<1>5. CASE ~(sentinel # Digest \/ MissingHere # {})
  <2>1. Begin(run) /\ UNCHANGED <<caller, early>>
    BY <1>5 DEF CheckDependencies
  <2>2. /\ pc' = "run" /\ past' = {} /\ context' = NoContext
        /\ log' \in [Builtin -> Status] /\ credits' \subseteq Builtin
        /\ ~run.kind.resumes => credits' = {}
        /\ result' \in [Builtin -> Result] /\ result'["install.run"] # "cache-valid"
    BY <2>1, Begun
  <2>3. TypeOK' /\ Shapes'
    BY <1>1, <2>1, <2>2, NothingYet DEF TypeOK, Shapes
  <2>4. NotAhead'
    BY <1>1, <2>1, <2>2, NothingYet DEF NotAhead, TypeOK
  <2>5. PlannedFor' /\ Standing' /\ SentinelTruth' /\ SkipsWhenValid' /\ EndsHonestly'
    BY <1>1, <1>2, <1>3, <2>1, <2>2
    DEF PlannedFor, Standing, SentinelTruth, SkipsWhenValid, EndsHonestly
  <2> QED
    BY <2>2, <2>3, <2>4, <2>5, NothingBehind
<1> QED
  BY <1>4, <1>5

LEMMA CrashStep ==
  ASSUME Inv, BuiltinAssumption, Crash
  PROVE  Inv'
<1> USE DEF Inv
<1>1. /\ pc' = "idle" /\ run' = NoRun /\ result' = Unrun /\ outcome' = "none"
      /\ early' = NoDigest /\ caller' = "check" /\ planned' = NoPlan
      /\ credits' = {} /\ past' = {} /\ context' = NoContext
      /\ UNCHANGED <<reqs, mtime, sentinel, unwritten, host, made, venv, stamp, stamps, log, inVenv,
                     recipe, settled, quiet, bypassed>>
  BY DEF Crash, files
<1>2. TypeOK'
  BY <1>1, NothingYet DEF TypeOK, NoPlan
<1>3. Shapes' /\ PlannedFor' /\ Standing'
  BY <1>1, NothingYet DEF Shapes, PlannedFor, Standing
<1>4. NotAhead'
  BY <1>1, NothingYet DEF NotAhead, TypeOK
<1>5. SentinelTruth'
  BY <1>1 DEF SentinelTruth, Digest
<1>6. SkipsWhenValid' /\ EndsHonestly'
  BY <1>1, NothingYet DEF SkipsWhenValid, EndsHonestly
<1> QED
  BY <1>1, <1>2, <1>3, <1>4, <1>5, <1>6, NothingBehind

(* A digest written, forgotten or of the context is of now or before.      *)
LEMMA StillNotAhead ==
  ASSUME TypeOK, UNCHANGED mtime, BuiltinAssumption,
         sentinel'.mtime <= mtime, early' \in {early, NoDigest}, early.mtime <= mtime,
         context'.digest.mtime <= mtime \/ context' = NoContext
  PROVE  NotAhead'
BY NothingYet DEF NotAhead, TypeOK

LEMMA RunTasks == ASSUME Shapes PROVE run.kind.tasks \subseteq Builtin
BY DEF Shapes, Run, Kind, NoRun, Builtin

LEMMA KeepsOrder ==
  ASSUME Standing, Shapes, TypeOK, NEW t \in Builtin,
         \A u \in run.kind.tasks \ past : Order[t] <= Order[u]
  PROVE  \A v \in past \union {t}, u \in run.kind.tasks :
           Order[u] < Order[v] => u \in past \union {t}
<1>1. \A u \in Builtin : Order[u] \in Int
  BY OrderIs
<1> QED
  BY <1>1, RunTasks DEF Standing

LEMMA CreditStep ==
  ASSUME Inv, BuiltinAssumption, NEW t \in Builtin, Credit(t)
  PROVE  Inv'
<1> USE DEF Inv
<1>1. Turn(t) /\ t \in credits
  BY DEF Credit
<1>2. pc = "run" /\ ~Fresh
  BY <1>1 DEF Turn, Standing, Fresh
<1>3. CASE run.kind.tasks \subseteq past \union {t}
  <2>1. /\ Stop("ok")
        /\ UNCHANGED <<reqs, mtime, sentinel, unwritten, host, made, venv, stamp, stamps, log, inVenv,
                       recipe, run, result, settled, quiet, counts>>
    BY <1>3 DEF Credit, files
  <2>2. made' \in BOOLEAN
    BY <2>1 DEF TypeOK
  <2> QED
    BY <1>2, <2>1, <2>2, Stopped
<1>4. CASE ~(run.kind.tasks \subseteq past \union {t})
  <2>1. /\ past' = past \union {t} /\ credits' = credits \ {t}
        /\ UNCHANGED <<pc, outcome, early, caller, planned, context, bypassed, reqs, mtime, sentinel,
                       unwritten, host, made, venv, stamp, stamps, log, inVenv, recipe, run,
                       result, settled, quiet>>
    BY <1>4 DEF Credit, files
  <2>2. TypeOK' /\ Shapes' /\ NotAhead'
    BY <2>1 DEF TypeOK, Shapes, NotAhead
  <2>3. \A v \in past \union {t}, u \in run.kind.tasks : Order[u] < Order[v] => u \in past \union {t}
    BY <1>1, KeepsOrder DEF Turn
  <2>4. Standing'
    BY <1>2, <2>1, <2>3 DEF Standing
  <2>5. Digest' = Digest /\ Missing' = Missing /\ ~Fresh'
    BY <1>2, <2>1 DEF Digest, Missing, Importable, Fresh
  <2>6. PlannedFor' /\ Undisturbed' /\ SentinelTruth' /\ SkipsWhenValid' /\ EndsHonestly'
    BY <2>1, <2>5 DEF PlannedFor, Undisturbed, SentinelTruth, SkipsWhenValid, EndsHonestly
  <2> QED
    BY <2>2, <2>4, <2>6
<1> QED
  BY <1>3, <1>4

-----------------------------------------------------------------------------
(* Steps that do a task *)

(* Task t is done with the given status: what it leaves in the context is  *)
(* c, and what it establishes holds with what was established before.      *)
LEMMA TaskDone ==
  ASSUME Inv, BuiltinAssumption, pc # "idle",
         NEW t \in Builtin, \A u \in run.kind.tasks \ past : Order[t] <= Order[u],
         NEW status \in Status \ {"none"},
         NEW rest \in {"", "recipe-skip", "SKIP_SETUP", "cache-valid"}, Ends(t, status, rest),
         NEW c \in Context, context' = IF pc' = "idle" THEN NoContext ELSE c,
         UNCHANGED <<reqs, mtime, host, venv, Outside>>, made' \in BOOLEAN,
         made' = made \/ (t = "install.run" /\ status = "failed" /\ rest = ""),
         sentinel' \in Digests, sentinel'.mtime <= mtime, c.digest.mtime <= mtime,
         stamp' \subseteq Stamps, Cardinality(stamp') <= 1, stamps' \subseteq SUBSET Package,
         settled' \in BOOLEAN,
         sentinel' = Digest => settled',
         unwritten' \in BOOLEAN, t # "verify.environment" => sentinel' = sentinel,
         Fresh /\ quiet /\ status # "failed" => Established(past \union {t}, c, sentinel', unwritten'),
         Fresh /\ quiet /\ t = "install.run" /\ rest = "cache-valid" => sentinel' = Digest /\ Missing = {}
  PROVE  Inv'
<1> USE DEF Inv
<1>1. /\ log' = [log EXCEPT ![t] = status]
      /\ result' = [result EXCEPT ![t] = IF rest = "" THEN status ELSE rest]
      /\ UNCHANGED <<reqs, mtime, host, venv, inVenv, recipe, run, quiet>>
  BY DEF Ends, Outside
<1>2. log' \in [Builtin -> Status] /\ result' \in [Builtin -> Result]
  BY <1>1 DEF Result, TypeOK, Shapes
<1>3. /\ Digest' = Digest /\ Fresh' = Fresh
      /\ Missing' = Missing \/ (t = "install.run" /\ status = "failed" /\ rest = "")
  <2>1. ASSUME made' = made PROVE Missing' = Missing
    BY <1>1, <2>1 DEF Missing, Importable
  <2> QED
    BY <1>1, <2>1 DEF Digest, Fresh
<1>4. SentinelTruth'
  BY <1>3 DEF SentinelTruth
<1>5. SkipsWhenValid'
  <2>1. SUFFICES ASSUME Fresh, quiet, result'["install.run"] = "cache-valid", Missing' = Missing
                 PROVE  Missing = {} /\ (result'["verify.environment"] = "none" => sentinel' = Digest)
    <3>1. ASSUME t = "install.run", status = "failed", rest = ""
          PROVE  result'["install.run"] # "cache-valid"
      BY <1>1, <3>1 DEF Shapes, Builtin
    <3> QED
      BY <1>1, <1>3, <3>1 DEF SkipsWhenValid
  <2>2. CASE t = "install.run"
    <3>1. rest = "cache-valid"
      BY <1>1, <2>1, <2>2 DEF Shapes, Status, Builtin
    <3> QED
      BY <2>1, <2>2, <3>1
  <2>3. CASE t # "install.run"
    <3>1. result["install.run"] = "cache-valid"
      BY <1>1, <2>1, <2>3 DEF Shapes, Builtin
    <3>2. Missing = {} /\ (result["verify.environment"] = "none" => sentinel = Digest)
      BY <2>1, <3>1 DEF SkipsWhenValid
    <3>3. CASE t = "verify.environment"
      <4>1. result'["verify.environment"] # "none"
        BY <1>1, <3>3 DEF Shapes, Status
      <4> QED
        BY <3>2, <4>1
    <3>4. CASE t # "verify.environment"
      <4>1. result'["verify.environment"] = result["verify.environment"]
        BY <1>1, <3>4 DEF Shapes, Builtin
      <4> QED
        BY <3>2, <3>4, <4>1
    <3> QED
      BY <3>3, <3>4
  <2> QED
    BY <2>2, <2>3
<1>6. early' = NoDigest /\ planned' = NoPlan /\ caller' = "check"
  BY DEF Ends, Stop
<1>7. bypassed' \in BOOLEAN
  BY DEF Ends, Stop, TypeOK
<1>8. PlannedFor'
  BY <1>3, <1>6, DigestNow DEF PlannedFor
<1>9. CASE status = "failed" \/ run.kind.tasks \subseteq past \union {t}
  <2>1. /\ pc' = "idle" /\ outcome' = IF status = "failed" THEN "failed" ELSE "ok"
        /\ credits' = {} /\ past' = {} /\ context' = NoContext
    BY <1>9 DEF Ends, Stop
  <2>2. TypeOK'
    BY <1>1, <1>2, <1>6, <1>7, <2>1, NothingYet DEF TypeOK, NoPlan
  <2>3. Shapes' /\ Standing'
    BY <1>1, <1>2, <1>6, <2>1, NothingYet DEF Shapes, Standing
  <2>4. NotAhead'
    BY <1>1, <1>6, <2>1, StillNotAhead DEF NotAhead
  <2>5. EndsHonestly'
    <3>1. SUFFICES ASSUME Fresh, quiet, status # "failed", ~run.skip, ~run.offline
                   PROVE  Missing = {} /\ (sentinel' = Digest \/ unwritten')
      BY <1>1, <1>3, <2>1 DEF EndsHonestly
    <3>2. "verify.environment" \in past \union {t}
      BY <1>9, <3>1 DEF Fresh, Builtin
    <3> QED
      BY <3>1, <3>2 DEF Established
  <2> QED
    BY <1>4, <1>5, <1>8, <2>1, <2>2, <2>3, <2>4, <2>5, NothingBehind
<1>10. CASE ~(status = "failed" \/ run.kind.tasks \subseteq past \union {t})
  <2>1. /\ pc' = "run" /\ past' = past \union {t} /\ UNCHANGED <<outcome, credits, bypassed>>
        /\ context' = c
    BY <1>10 DEF Ends
  <2>2. TypeOK'
    BY <1>1, <1>2, <1>6, <1>7, <2>1, NothingYet DEF TypeOK, NoPlan
  <2>3. Shapes'
    BY <1>1, <1>2, <1>6, <2>1, NothingYet DEF Shapes
  <2>4. \A v \in past \union {t}, u \in run.kind.tasks : Order[u] < Order[v] => u \in past \union {t}
    BY KeepsOrder
  <2>5. Standing'
    <3>1. "install.run" \notin past \union {t} => result'["install.run"] # "cache-valid"
      BY <1>1 DEF Standing, Shapes, Builtin
    <3> QED
      BY <1>1, <2>1, <2>4, <3>1 DEF Standing
  <2>6. NotAhead'
    BY <1>1, <1>6, <2>1, StillNotAhead DEF NotAhead
  <2>7. Undisturbed'
    BY <1>1, <1>3, <1>10, <2>1 DEF Undisturbed, Established
  <2>8. EndsHonestly'
    BY <2>1 DEF EndsHonestly, Standing
  <2> QED
    BY <1>4, <1>5, <1>8, <2>2, <2>3, <2>5, <2>6, <2>7, <2>8
<1> QED
  BY <1>9, <1>10

(* An ordinary task leaves the files as they are.                          *)
LEMMA PlainTask ==
  ASSUME Inv, BuiltinAssumption, NEW t \in Builtin, Executes(t),
         NEW status \in Status \ {"none"},
         NEW rest \in {"", "recipe-skip", "SKIP_SETUP", "cache-valid"}, Ends(t, status, rest),
         NEW c \in Context, Keeps(c), UNCHANGED <<files, settled, losses, Outside>>,
         c.digest.mtime <= mtime,
         Fresh /\ quiet /\ status # "failed" => Established(past \union {t}, c, sentinel, unwritten),
         Fresh /\ quiet /\ t = "install.run" /\ rest = "cache-valid" => sentinel = Digest /\ Missing = {}
  PROVE  Inv'
<1>1. pc # "idle" /\ \A u \in run.kind.tasks \ past : Order[t] <= Order[u]
  BY DEF Executes, Turn
<1>2. UNCHANGED <<reqs, mtime, sentinel, unwritten, host, made, venv, stamp, stamps, settled, Outside>>
  BY DEF files
<1>3. /\ sentinel \in Digests /\ sentinel.mtime <= mtime /\ settled \in BOOLEAN
      /\ stamp \subseteq Stamps /\ Cardinality(stamp) <= 1 /\ stamps \subseteq SUBSET Package
      /\ sentinel = Digest => settled
  BY DEF Inv, TypeOK, NotAhead, SentinelTruth
<1>4. context' = IF pc' = "idle" THEN NoContext ELSE c
  BY DEF Keeps
<1>5. /\ UNCHANGED <<reqs, mtime, host, made, venv, Outside>>
      /\ sentinel' \in Digests /\ sentinel'.mtime <= mtime /\ settled' \in BOOLEAN
      /\ stamp' \subseteq Stamps /\ Cardinality(stamp') <= 1 /\ stamps' \subseteq SUBSET Package
  BY <1>2, <1>3
<1>6. /\ sentinel' = sentinel
      /\ sentinel = Digest => settled'
  <2>1. settled' = settled /\ sentinel' = sentinel
    BY <1>2
  <2>2. ASSUME sentinel = Digest PROVE settled'
    <3>1. settled = TRUE
      BY <1>3, <2>2
    <3> QED
      BY <2>1, <3>1
  <2> QED
    BY <2>1, <2>2
<1>7. unwritten' = unwritten /\ unwritten' \in BOOLEAN
  BY <1>2 DEF Inv, TypeOK
<1>8. Fresh /\ quiet /\ status # "failed" => Established(past \union {t}, c, sentinel', unwritten')
  BY <1>6, <1>7, Zenon
<1>9. UNCHANGED <<reqs, mtime, host, venv, Outside>> /\ made' = made /\ made' \in BOOLEAN
  BY <1>2 DEF Inv, TypeOK
<1> QED
  BY <1>1, <1>4, <1>5, <1>6, <1>7, <1>8, <1>9, TaskDone

(* What the run had established, by the time a task's turn comes.          *)
LEMMA Before ==
  ASSUME Inv, NEW t \in Builtin, Executes(t), Fresh, quiet
  PROVE  /\ Established(past, context, sentinel, unwritten)
         /\ t \in run.kind.tasks \ past /\ pc = "run"
         /\ \A u \in Builtin : Order[u] < Order[t] => u \in past
         /\ \A u \in Builtin : Order[t] < Order[u] => u \notin past
<1>1. t \in run.kind.tasks \ past /\ \A u \in run.kind.tasks \ past : Order[t] <= Order[u]
  BY DEF Executes, Turn
<1>2. run.kind.tasks = Builtin /\ \A u \in Builtin : Order[u] \in Int
  BY OrderIs DEF Fresh
<1> QED
  BY <1>1, <1>2 DEF Inv, Undisturbed, Standing, Executes, Turn

LEMMA EnvironmentStep ==
  ASSUME Inv, BuiltinAssumption, Environment
  PROVE  Inv'
<1> DEFINE c == [context EXCEPT !.sentinel = TRUE, !.skip = run.skip]
<1>1. /\ Executes("preflight.env") /\ Ends("preflight.env", "success", "") /\ Keeps(c)
      /\ UNCHANGED <<files, settled, losses, Outside>>
  BY DEF Environment
<1>2. /\ c \in Context /\ c.sentinel /\ (c.skip <=> run.skip) /\ c.digest = context.digest
      /\ c.digest.mtime <= mtime
  BY DEF Inv, Shapes, Context, Run, NotAhead
<1>3. "preflight.env" \in Builtin /\ "success" \in Status \ {"none"}
  BY DEF Builtin, Status
<1>4. ASSUME Fresh, quiet
      PROVE  Established(past \union {"preflight.env"}, c, sentinel, unwritten)
  <2>1. /\ "preflight.digest" \notin past /\ "dependency.requirements" \notin past
        /\ Established(past, context, sentinel, unwritten)
    <3>1. Executes("preflight.env") /\ "preflight.env" \in Builtin
      BY <1>1, <1>3
    <3> QED
      BY <3>1, <1>4, Before, OrderIs DEF Builtin
  <2> QED
    BY <1>2, <2>1 DEF Established
<1> HIDE DEF c
<1> QED
  BY <1>1, <1>2, <1>3, <1>4, PlainTask

LEMMA ComputeDigestStep ==
  ASSUME Inv, BuiltinAssumption, ComputeDigest
  PROVE  Inv'
<1> DEFINE t == "preflight.digest"
<1>1. t \in Builtin /\ Executes(t) /\ UNCHANGED <<files, settled, losses, Outside>>
  BY DEF Builtin, ComputeDigest
<1>2. {"success", "skipped", "failed"} \subseteq Status \ {"none"}
  BY DEF Status
<1>3. context \in Context /\ context.digest.mtime <= mtime
  BY DEF Inv, Shapes, NotAhead
<1>4. ASSUME Fresh, quiet
      PROVE  /\ Established(past, context, sentinel, unwritten)
             /\ "preflight.env" \in past /\ "dependency.requirements" \notin past
  BY <1>1, <1>4, Before, OrderIs DEF Builtin
<1>5. CASE context.skip
  <2>1. Ends(t, "skipped", "") /\ Keeps(context)
    BY <1>5 DEF ComputeDigest
  <2>2. Fresh /\ quiet => Established(past \union {t}, context, sentinel, unwritten)
    BY <1>4, <1>5 DEF Established
  <2> QED
    BY <1>1, <1>2, <1>3, <2>1, <2>2, PlainTask
<1>6. CASE ~context.skip /\ ~context.sentinel
  <2> DEFINE c == [context EXCEPT !.digest = Digest]
  <2>1. Ends(t, "failed", "") /\ Keeps(c)
    BY <1>6 DEF ComputeDigest
  <2>2. c \in Context /\ c.digest.mtime <= mtime
    BY <1>3, DigestNow DEF Inv, Context, TypeOK
  <2> HIDE DEF c
  <2> QED
    BY <1>1, <1>2, <2>1, <2>2, PlainTask
<1>7. CASE ~context.skip /\ context.sentinel
  <2> DEFINE should == Forced \/ sentinel # Digest
             c == [context EXCEPT !.digest = Digest, !.should = should]
  <2>1. Ends(t, "success", "") /\ Keeps(c)
    BY <1>7 DEF ComputeDigest
  <2>2. /\ c \in Context /\ c.digest.mtime <= mtime /\ c.digest = Digest
        /\ (c.sentinel <=> context.sentinel) /\ (c.skip <=> context.skip)
        /\ c.should = should
    <3>1. Digest \in Digests /\ Digest.mtime = mtime /\ mtime \in Nat
      BY DigestNow DEF Inv, TypeOK
    <3>2. should \in BOOLEAN
      OBVIOUS
    <3> HIDE DEF should
    <3>3. c \in Context
      BY <1>3, <3>1, <3>2 DEF Context
    <3>4. c.digest = Digest
      BY <1>3, <3>1, <3>2 DEF Context
    <3>5. (c.sentinel <=> context.sentinel) /\ (c.skip <=> context.skip)
      BY <1>3, <3>1, <3>2 DEF Context
    <3>6. c.should = should
      BY <1>3, <3>1, <3>2 DEF Context
    <3> QED
      BY <3>1, <3>3, <3>4, <3>5, <3>6
  <2>3. Fresh /\ quiet => Established(past \union {t}, c, sentinel, unwritten)
    <3> HIDE DEF c
    <3> QED
      BY <1>4, <2>2 DEF Established
  <2> HIDE DEF c
  <2> QED
    BY <1>1, <1>2, <2>1, <2>2, <2>3, PlainTask
<1> QED
  BY <1>5, <1>6, <1>7

LEMMA ResolveStep ==
  ASSUME Inv, BuiltinAssumption, Resolve
  PROVE  Inv'
<1> DEFINE t == "dependency.requirements"
           should == ~context.skip /\ (context.should \/ Missing # {} \/ Forced)
           status == IF should THEN "success" ELSE "skipped"
           c == [context EXCEPT !.should = should]
<1>1. t \in Builtin /\ Executes(t) /\ UNCHANGED <<files, settled, losses, Outside>>
  BY DEF Builtin, Resolve
<1>2. Ends(t, status, "") /\ Keeps(c)
  BY DEF Resolve
<1>3. status \in Status \ {"none"}
  BY DEF Status
<1>4. /\ c \in Context /\ c.digest = context.digest /\ c.digest.mtime <= mtime
      /\ (c.sentinel <=> context.sentinel) /\ (c.skip <=> context.skip)
      /\ ~c.skip => (c.should \/ Missing = {}) /\ (context.should => c.should)
  BY DEF Inv, Shapes, Context, NotAhead
<1>5. ASSUME Fresh, quiet
      PROVE  Established(past \union {t}, c, sentinel, unwritten)
  <2>1. Established(past, context, sentinel, unwritten)
    BY <1>1, <1>5, Before
  <2> HIDE DEF c
  <2> QED
    BY <1>4, <2>1 DEF Established
<1> HIDE DEF c, status
<1> QED
  BY <1>1, <1>2, <1>3, <1>4, <1>5, PlainTask

LEMMA RunInstallersStep ==
  ASSUME Inv, BuiltinAssumption, RunInstallers
  PROVE  Inv'
<1> DEFINE t == "install.run"
<1>1. t \in Builtin /\ Executes(t) /\ UNCHANGED <<files, settled, losses, Outside>>
  BY DEF Builtin, RunInstallers
<1>2. "skipped" \in Status \ {"none"} /\ context \in Context /\ context.digest.mtime <= mtime
  BY DEF Status, Inv, Shapes, NotAhead
<1>3. ASSUME Fresh, quiet
      PROVE  /\ Established(past, context, sentinel, unwritten)
             /\ "preflight.digest" \in past /\ "dependency.requirements" \in past
             /\ "verify.environment" \notin past
  BY <1>1, <1>3, Before, OrderIs DEF Builtin
<1>4. Fresh /\ quiet => Established(past \union {t}, context, sentinel, unwritten)
  BY <1>3 DEF Established
<1>5. ASSUME Ends(t, "skipped", "recipe-skip") \/ Ends(t, "skipped", "SKIP_SETUP"), Keeps(context)
      PROVE  Inv'
  BY <1>1, <1>2, <1>4, <1>5, PlainTask
<1>6. ASSUME Ends(t, "skipped", "cache-valid"), Keeps(context), ~context.skip, ~context.should
      PROVE  Inv'
  <2>1. Fresh /\ quiet => sentinel = Digest /\ Missing = {}
    BY <1>3, <1>6 DEF Established
  <2> QED
    BY <1>1, <1>2, <1>4, <1>6, <2>1, PlainTask
<1>7. ASSUME pc' = "plan", caller' = "task", context.should,
             UNCHANGED <<log, early, planned, credits, past, context, result, outcome, bypassed>>
      PROVE  Inv'
  <2>1. /\ pc = "run" /\ \A u \in run.kind.tasks \ past : Order[t] <= Order[u]
        /\ UNCHANGED <<reqs, mtime, sentinel, unwritten, host, made, venv, stamp, stamps, settled,
                     inVenv, recipe, run, quiet>>
    BY <1>1 DEF Executes, Turn, files, Outside
  <2>2. TypeOK' /\ Shapes' /\ NotAhead'
    BY <1>7, <2>1 DEF Inv, TypeOK, Shapes, NotAhead
  <2>3. Standing'
    <3>1. context.should /\ "install.run" \notin past
      BY <1>1, <1>7 DEF Executes, Turn
    <3> QED
      BY <1>7, <2>1, <3>1 DEF Inv, Standing
  <2>4. Digest' = Digest /\ Missing' = Missing /\ Fresh' = Fresh
    BY <2>1, <1>7 DEF Digest, Missing, Importable, Fresh
  <2>5. PlannedFor' /\ Undisturbed' /\ SentinelTruth' /\ SkipsWhenValid' /\ EndsHonestly'
    BY <1>7, <2>1, <2>4 DEF Inv, PlannedFor, Undisturbed, Established, SentinelTruth, SkipsWhenValid,
       EndsHonestly
  <2> QED
    BY <2>2, <2>3, <2>5 DEF Inv
<1> QED
  BY <1>5, <1>6, <1>7 DEF RunInstallers

LEMMA SummariseStep ==
  ASSUME Inv, BuiltinAssumption, Summarise
  PROVE  Inv'
<1> DEFINE t == "summary.render"
           status == IF \E u \in Builtin : result[u] = "failed" THEN "failed" ELSE "success"
<1>1. t \in Builtin /\ Executes(t) /\ UNCHANGED <<files, settled, losses, Outside>>
  BY DEF Builtin, Summarise
<1>2. Ends(t, status, "") /\ Keeps(context) /\ status \in Status \ {"none"}
  BY DEF Summarise, Status
<1>3. context \in Context /\ context.digest.mtime <= mtime
  BY DEF Inv, Shapes, NotAhead
<1>4. ASSUME Fresh, quiet
      PROVE  Established(past \union {t}, context, sentinel, unwritten)
  <2>1. Established(past, context, sentinel, unwritten)
    BY <1>1, <1>4, Before
  <2> QED
    BY <2>1 DEF Established
<1> HIDE DEF status
<1> QED
  BY <1>1, <1>2, <1>3, <1>4, PlainTask

LEMMA VerifyStep ==
  ASSUME Inv, BuiltinAssumption, Verify
  PROVE  Inv'
<1> DEFINE t == "verify.environment"
<1>1. /\ t \in Builtin /\ Executes(t) /\ Keeps(context)
      /\ UNCHANGED <<reqs, mtime, host, made, venv, stamp, stamps, Outside>>
  BY DEF Builtin, Verify
<1>2. {"success", "skipped", "failed"} \subseteq Status \ {"none"}
  BY DEF Status
<1>3. context \in Context /\ context.digest.mtime <= mtime
  BY DEF Inv, Shapes, NotAhead
<1>4. ASSUME Fresh, quiet
      PROVE  /\ Established(past, context, sentinel, unwritten)
             /\ "preflight.env" \in past /\ "preflight.digest" \in past
  BY <1>1, <1>4, Before, OrderIs DEF Builtin
<1>5. CASE context.skip
  <2>1. Ends(t, "skipped", "") /\ UNCHANGED <<files, settled, losses, Outside>>
    BY <1>1, <1>5 DEF Verify, files
  <2>2. Fresh /\ quiet => Established(past \union {t}, context, sentinel, unwritten)
    BY <1>4, <1>5 DEF Established
  <2> QED
    BY <1>1, <1>2, <1>3, <2>1, <2>2, PlainTask
<1>6. CASE ~context.skip /\ Missing # {}
  <2> DEFINE status == IF run.offline THEN "skipped" ELSE "failed"
  <2>1. Ends(t, status, "") /\ UNCHANGED <<files, settled, losses, Outside>> /\ status \in Status \ {"none"}
    BY <1>1, <1>2, <1>6 DEF Verify, files
  <2>2. Fresh /\ quiet /\ status # "failed" => Established(past \union {t}, context, sentinel, unwritten)
    BY <1>4 DEF Established
  <2> HIDE DEF status
  <2> QED
    BY <1>1, <1>3, <2>1, <2>2, PlainTask
<1>7. CASE ~context.skip /\ Missing = {}
  <2>1. /\ Ends(t, "success", "") /\ settled' = TRUE
        /\ IF context.digest # NoDigest /\ context.sentinel
           THEN \E f \in 0..1 : Store(context.digest, f)
           ELSE UNCHANGED <<sentinel, unwritten>>
    BY <1>7 DEF Verify
  <2>2. ASSUME Fresh, quiet
        PROVE  Established(past \union {t}, context, sentinel', unwritten')
    <3>1. context.digest = Digest /\ context.sentinel
      BY <1>4, <1>7, <2>2 DEF Established
    <3>2. Digest # NoDigest
      BY DigestNow DEF Inv
    <3>3. sentinel' = Digest \/ unwritten'
      BY <2>1, <3>1, <3>2 DEF Store
    <3> QED
      BY <1>4, <1>7, <2>2, <3>3 DEF Established
  <2>3. sentinel' \in Digests /\ sentinel'.mtime <= mtime /\ unwritten' \in BOOLEAN
    <3>1. NoDigest \in Digests /\ NoDigest.mtime = 0 /\ mtime \in Nat
      BY NothingYet DEF Inv, TypeOK
    <3>2. sentinel \in Digests /\ sentinel.mtime <= mtime /\ unwritten \in BOOLEAN
          /\ context.digest \in Digests
      BY <1>3 DEF Inv, TypeOK, NotAhead, Context
    <3>3. sentinel' \in {context.digest, sentinel, NoDigest}
          /\ (unwritten' = (sentinel' # context.digest) \/ unwritten' = unwritten)
      BY <2>1 DEF Store
    <3>4. sentinel' \in Digests /\ sentinel'.mtime <= mtime
      BY <1>3, <3>1, <3>2, <3>3
    <3>5. unwritten' \in BOOLEAN
      BY <3>2, <3>3
    <3> QED
      BY <3>4, <3>5
  <2>4. pc # "idle" /\ \A u \in run.kind.tasks \ past : Order[t] <= Order[u]
    BY <1>1 DEF Executes, Turn
  <2>5. context' = IF pc' = "idle" THEN NoContext ELSE context
    BY <1>1 DEF Keeps
  <2>6. /\ stamp' \subseteq Stamps /\ Cardinality(stamp') <= 1
        /\ stamps' \subseteq SUBSET Package /\ settled' \in BOOLEAN
        /\ sentinel' = Digest => settled'
    BY <1>1, <2>1 DEF Inv, TypeOK
  <2>7. UNCHANGED <<reqs, mtime, host, venv, Outside>> /\ made' = made /\ made' \in BOOLEAN
    BY <1>1 DEF Inv, TypeOK
  <2> QED
    BY <1>1, <1>2, <1>3, <2>1, <2>2, <2>3, <2>4, <2>5, <2>6, <2>7, TaskDone
<1> QED
  BY <1>5, <1>6, <1>7

-----------------------------------------------------------------------------
(* Steps that end the installer *)

(* The installer, called by its task, ends with the task's result.         *)
LEMMA InstallDone ==
  ASSUME Inv, BuiltinAssumption, pc \in {"plan", "finish"}, caller = "task",
         NEW status \in {"success", "failed"}, Ends("install.run", status, ""),
         context' = IF pc' = "idle" THEN NoContext ELSE context,
         UNCHANGED <<reqs, mtime, sentinel, unwritten, host, venv, settled, Outside>>,
         made' \in BOOLEAN, made' = made \/ status = "failed",
         stamp' \subseteq Stamps, Cardinality(stamp') <= 1, stamps' \subseteq SUBSET Package
  PROVE  Inv'
<1> DEFINE t == "install.run"
<1>1. t \in Builtin /\ status \in Status \ {"none"} /\ pc # "idle"
  BY DEF Builtin, Status
<1>2. \A u \in run.kind.tasks \ past : Order[t] <= Order[u]
  BY DEF Inv, Standing
<1>3. context \in Context /\ context.digest.mtime <= mtime
  BY DEF Inv, Shapes, NotAhead
<1>4. Fresh /\ quiet => Established(past \union {t}, context, sentinel, unwritten)
  BY DEF Inv, Undisturbed, Established
<1>5. sentinel' = sentinel /\ settled' = settled
  OBVIOUS
<1>6. sentinel' \in Digests /\ sentinel'.mtime <= mtime /\ settled' \in BOOLEAN
  BY <1>5 DEF Inv, TypeOK, NotAhead
<1>7. ASSUME sentinel' = Digest PROVE settled'
  <2>1. settled = TRUE
    BY <1>5, <1>7 DEF Inv, SentinelTruth, TypeOK
  <2> QED
    BY <1>5, <2>1
<1>8. Fresh /\ quiet => Established(past \union {t}, context, sentinel', unwritten')
  <2>1. unwritten' = unwritten
    OBVIOUS
  <2> QED
    BY <1>4, <1>5, <2>1, Zenon
<1>9. UNCHANGED <<reqs, mtime, host, venv, Outside>>
  OBVIOUS
<1>10. unwritten' \in BOOLEAN
  BY DEF Inv, TypeOK
<1> QED
  BY <1>1, <1>2, <1>3, <1>5, <1>6, <1>7, <1>8, <1>9, <1>10, TaskDone

LEMMA FinishStep ==
  ASSUME Inv, BuiltinAssumption, FinishInstall
  PROVE  Inv'
<1>1. /\ pc = "finish" /\ stamp' \in {{reqs}, stamp, {Torn}}
      /\ stamps' \subseteq stamps \union {reqs}
      /\ UNCHANGED <<reqs, mtime, host, made, venv, inVenv, recipe, run, settled, quiet, boots, crashes>>
  BY DEF FinishInstall, Stamp
<1>2. stamp' \subseteq Stamps /\ Cardinality(stamp') <= 1 /\ stamps' \subseteq SUBSET Package
  <2>1. stamp' \in {{reqs}, {}, stamp, {Torn}}
    BY <1>1
  <2> QED
    BY <1>1, <2>1, StampKept DEF Inv, TypeOK
<1>3. CASE caller = "check"
  <2>1. /\ \E g \in 0..1 : Store(early, g)
        /\ early' = NoDigest /\ planned' = NoPlan /\ Begin(run)
        /\ UNCHANGED <<caller, outcome, bypassed>>
    BY <1>3 DEF FinishInstall
  <2>2. /\ pc' = "run" /\ past' = {} /\ context' = NoContext
        /\ log' \in [Builtin -> Status] /\ credits' \subseteq Builtin
        /\ ~run.kind.resumes => credits' = {}
        /\ result' \in [Builtin -> Result] /\ result'["install.run"] # "cache-valid"
    BY <2>1, Begun
  <2>3. TypeOK'
    <3>1. sentinel' \in Digests /\ unwritten' \in BOOLEAN
      BY <2>1, NothingYet DEF Store, Inv, TypeOK
    <3> QED
      BY <1>1, <1>2, <2>1, <2>2, <3>1, NothingYet DEF Inv, TypeOK, NoPlan
  <2>4. Shapes'
    BY <1>1, <2>1, <2>2, NothingYet DEF Inv, Shapes
  <2>5. NotAhead'
    BY <1>1, <2>1, <2>2, NothingYet DEF Store, Inv, NotAhead, TypeOK
  <2>6. SentinelTruth'
    <3>1. ASSUME early = Digest PROVE settled'
      <4>1. settled = TRUE
        BY <1>1, <3>1 DEF Inv, PlannedFor, TypeOK
      <4> QED
        BY <1>1, <4>1
    <3>2. Digest' = Digest /\ Digest # NoDigest /\ settled' = settled
      BY <1>1, DigestNow DEF Digest, Inv
    <3>3. sentinel' \in {early, sentinel, NoDigest}
      BY <2>1 DEF Store
    <3> QED
      BY <3>1, <3>2, <3>3 DEF Inv, SentinelTruth
  <2>7. outcome = "none"
    BY <1>1 DEF Inv, Standing
  <2>8. PlannedFor' /\ Standing' /\ SkipsWhenValid' /\ EndsHonestly'
    BY <1>1, <2>1, <2>2, <2>7 DEF PlannedFor, Standing, SkipsWhenValid, EndsHonestly
  <2> QED
    BY <2>2, <2>3, <2>4, <2>5, <2>6, <2>8, NothingBehind DEF Inv
<1>4. CASE caller # "check"
  <2>1. caller = "task"
    BY <1>4 DEF Inv, TypeOK
  <2>2. /\ Ends("install.run", "success", "")
        /\ context' = IF pc' = "idle" THEN NoContext ELSE context
        /\ UNCHANGED <<sentinel, unwritten>>
    BY <1>4 DEF FinishInstall
  <2> QED
    BY <1>1, <1>2, <2>1, <2>2, InstallDone DEF Outside, Inv, TypeOK
<1> QED
  BY <1>3, <1>4

LEMMA RaiseStep ==
  ASSUME Inv, BuiltinAssumption, InstallRaises
  PROVE  Inv'
<1>1. /\ pc = "plan" /\ made' \in BOOLEAN
      /\ UNCHANGED <<reqs, mtime, sentinel, unwritten, host, venv, stamp, stamps, inVenv, recipe, run,
                     settled, quiet, counts>>
  BY DEF InstallRaises, Inv, TypeOK
<1>2. CASE caller = "check"
  <2>1. Stop("failed") /\ UNCHANGED <<log, result>>
    BY <1>2 DEF InstallRaises
  <2> QED
    BY <1>1, <2>1, Installing, Stopped
<1>3. CASE caller # "check"
  <2>1. Ends("install.run", "failed", "") /\ context' = NoContext
    BY <1>3 DEF InstallRaises
  <2>2. pc' = "idle"
    BY <2>1 DEF Ends, Stop
  <2>3. caller = "task" /\ stamp \subseteq Stamps /\ Cardinality(stamp) <= 1
        /\ stamps \subseteq SUBSET Package
    BY <1>3 DEF Inv, TypeOK
  <2> QED
    BY <1>1, <2>1, <2>2, <2>3, InstallDone DEF Outside, counts
<1> QED
  BY <1>2, <1>3

-----------------------------------------------------------------------------
(* The theorem *)

LEMMA BuiltinStep ==
  ASSUME BuiltinAssumption, Inv, [Next]_vars
  PROVE  Inv'
<1>1. CASE Next
  <2>1. CASE \E kind \in Kind, skip, offline \in BOOLEAN : Boot(kind, skip, offline)
    BY <2>1, BootStep
  <2>2. CASE CheckDependencies
    BY <2>2, CheckStep
  <2>3. CASE PlanInstall \/ Pip
    BY <2>3, InstallSteps
  <2>4. CASE FinishInstall
    BY <2>4, FinishStep
  <2>5. CASE InstallRaises
    BY <2>5, RaiseStep
  <2>6. CASE \E t \in Builtin : Credit(t)
    BY <2>6, CreditStep
  <2>7. CASE Environment
    BY <2>7, EnvironmentStep
  <2>8. CASE ComputeDigest
    BY <2>8, ComputeDigestStep
  <2>9. CASE Resolve
    BY <2>9, ResolveStep
  <2>10. CASE RunInstallers
    BY <2>10, RunInstallersStep
  <2>11. CASE Verify
    BY <2>11, VerifyStep
  <2>12. CASE Summarise
    BY <2>12, SummariseStep
  <2>13. CASE \/ \E lines \in SUBSET Package : Edit(lines)
              \/ \E gone \in SUBSET Package : Lose(gone)
    BY <2>13, WorldSteps
  <2>14. CASE Crash
    BY <2>14, CrashStep
  <2> QED
    BY <1>1, <2>1, <2>2, <2>3, <2>4, <2>5, <2>6, <2>7, <2>8, <2>9, <2>10, <2>11, <2>12, <2>13, <2>14
    DEF Next
<1>2. CASE UNCHANGED vars
  <2>1. UNCHANGED <<reqs, mtime, sentinel, unwritten, host, made, venv, stamp, stamps, log, inVenv,
                    recipe, pc, run, early, caller, planned, credits, past, context, result, outcome, settled, quiet, bypassed>>
    BY <1>2 DEF vars, files, process, counts
  <2>2. Digest' = Digest /\ Missing' = Missing /\ Fresh' = Fresh
    BY <2>1 DEF Digest, Missing, Importable, Fresh
  <2> QED
    BY <2>1, <2>2 DEF Inv, TypeOK, Shapes, NotAhead, PlannedFor, Standing, Undisturbed, Established,
       SentinelTruth, SkipsWhenValid, EndsHonestly
<1> QED
  BY <1>1, <1>2

(* The sentinel never vouches for requirements nobody installed or found;  *)
(* a run that was not disturbed skips the installer only when nothing is   *)
(* missing, and ends well only with everything there and the sentinel      *)
(* written or a warning that its write failed: for any requirements, runs, *)
(* edits, losses, failing writes and crashes.                              *)
THEOREM SetupIsHonest == ASSUME BuiltinAssumption PROVE Spec => []BuiltinInv
<1>1. Init => Inv
  BY BuiltinInit
<1>2. Inv /\ [Next]_vars => Inv'
  BY BuiltinStep
<1>3. Inv => BuiltinInv
  BY DEF Inv, BuiltinInv
<1> QED
  BY <1>1, <1>2, <1>3, PTL DEF Spec
=============================================================================
