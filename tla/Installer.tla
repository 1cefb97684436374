------------------------------ MODULE Installer ------------------------------
(* The installer (setup.py): it creates the virtual environment, looks at what
   the requirements file asks for, what is installed and what the last run noted
   in its stamp, plans pip's steps, carries them out and writes the stamp.  Between
   its runs and during them the file is edited, packages are removed, the network
   comes and goes, and a run may be killed between any two steps.

   A package has versions 1 and 2, and 0 is not installed.  A requirements file
   gives each package the versions it accepts, none when it does not ask for it;
   it is plain when every line of it is a requirement by itself: an option, an
   editable entry, a hash or a trailing comment makes the analysis of what is
   missing fail (_missing_requirements). *)
EXTENDS Naturals, Sequences, FiniteSets

CONSTANTS
  Package,
  Files,      \* requirements files: [needs |-> [Package -> SUBSET (1..2)], plain |-> BOOLEAN]
  Wheels,     \* the versions in the wheel cache: [Package -> SUBSET (1..2)]
  Host,       \* what the running interpreter has itself: [Package -> 0..2]
  Attempts,   \* of a step of pip
  MaxJobs, MaxChanges   \* bounds: runs of the installer, changes by others

VARIABLES
  reqFile,  \* the requirements file
  venv,     \* the environment: "none", "broken" (a directory without a python) or "ok"
  stamp,    \* its .req_hash: [hash, python], or NoStamp
  stamps,   \* the stamps kept for every environment: [Files -> python], 0 for none
  python,   \* the version of the interpreter that runs the installer
  online,
  job,      \* the run under way, or Idle
  jobs, changes

installVars == <<reqFile, venv, stamp, stamps, python, online, job, jobs, changes>>

Nought == [needs |-> [p \in Package |-> {}], plain |-> TRUE]
NoStamp == [hash |-> Nought, python |-> 0]
Idle == [at |-> "idle"]
Nothing == [p \in Package |-> 0]
Best(versions) == CHOOSE v \in versions : \A u \in versions : u <= v

InstallerInit ==
  /\ reqFile \in Files /\ venv = [at |-> "none", python |-> 0, pkgs |-> Nothing]
  /\ stamp = NoStamp /\ stamps = [f \in Files |-> 0] /\ python = 1 /\ online \in BOOLEAN
  /\ job = Idle /\ jobs = 0 /\ changes = 0

Working == venv.at = "ok" /\ venv.python = python
\* what _installed_packages finds: the environment's packages, or, where it has no
\* directory for this python's version, the interpreter's own
Seen == IF Working THEN venv.pkgs ELSE Host
Lacking(pkgs) == {p \in Package : reqFile.needs[p] # {} /\ pkgs[p] \notin reqFile.needs[p]}

----------------------------------------------------------------------------
(* A run: main and install *)

\* Whether it is offline is found out once.  A missing environment is created: its
\* directory comes first.
Begin ==
  /\ job = Idle /\ jobs < MaxJobs /\ jobs' = jobs + 1
  /\ \E forced, dev, upgrade, recreate \in BOOLEAN, command \in {"install", "upgrade"} :
       LET create == recreate \/ venv.at = "none"
       IN /\ command = "upgrade" => ~(dev \/ upgrade \/ recreate)
          /\ job' = [at |-> IF create THEN "create" ELSE "plan", command |-> command, dev |-> dev,
                     upgrade |-> upgrade, offline |-> forced \/ ~online, todo |-> <<>>,
                     tries |-> 0, errors |-> FALSE, disturbed |-> FALSE]
          /\ venv' = IF create THEN [at |-> "broken", python |-> 0, pkgs |-> Nothing] ELSE venv
          /\ stamp' = IF create THEN NoStamp ELSE stamp
  /\ UNCHANGED <<reqFile, stamps, python, online, changes>>

Create ==
  /\ job.at = "create" /\ job' = [job EXCEPT !.at = "plan"]
  /\ venv' = [at |-> "ok", python |-> python, pkgs |-> Nothing]
  /\ UNCHANGED <<reqFile, stamp, stamps, python, online, jobs, changes>>

Step(what) == [what |-> what, package |-> "all", versions |-> {}]
One(p, versions) == [what |-> "one", package |-> p, versions |-> versions]

\* _inspect_requirement_stamp: a stamp kept for the same file is copied in.
Hydrated ==
  IF stamp = NoStamp /\ stamps[reqFile] # 0 THEN [hash |-> reqFile, python |-> stamps[reqFile]]
  ELSE stamp

\* mutant of Missing: the interpreter's own packages are looked at
MissingHere == IF reqFile.plain THEN Lacking(Host) ELSE {}

\* mutant of Missing: a stamp for this file is believed
MissingUnlessStamped == IF reqFile.plain /\ Hydrated.hash # reqFile THEN Lacking(Seen) ELSE {}

\* _missing_requirements
Missing == IF reqFile.plain THEN Lacking(Seen) ELSE {}

\* should_install of _compute_smart_context
ShouldInstall(upgrade) ==
  \/ upgrade \/ Missing # {} \/ Hydrated.hash # reqFile \/ Hydrated.python # python
  \/ venv.at # "ok"

Listed(S) == CHOOSE s \in [1..Cardinality(S) -> S] : \A p \in S : \E i \in DOMAIN s : s[i] = p

\* build_smart_install_plan: what is missing one by one, or the whole file
FileSteps(upgrade) ==
  IF Missing # {} /\ ~upgrade /\ Hydrated.hash = reqFile
  THEN LET s == Listed(Missing) IN [i \in DOMAIN s |-> One(s[i], reqFile.needs[s[i]])]
  ELSE IF ShouldInstall(upgrade) THEN <<Step("file")>> ELSE <<>>

PlanOf(dev, upgrade, bootstrap) ==
  LET work == FileSteps(upgrade) \o (IF dev THEN <<Step("tools")>> ELSE <<>>)
  IN IF work = <<>> THEN <<>>
     ELSE (IF bootstrap THEN <<Step("bootstrap")>> ELSE <<>>) \o work \o <<Step("check")>>

\* pip is brought up to date whenever there is something to install and a network.
Plan ==
  /\ job.at = "plan" /\ job.command = "install"
  /\ stamp' = Hydrated
  /\ job' = [job EXCEPT !.at = "steps", !.todo = PlanOf(job.dev, job.upgrade, ~job.offline)]
  /\ UNCHANGED <<reqFile, venv, stamps, python, online, jobs, changes>>

\* check_outdated with upgrade: what pip lists; without an index that is nothing.
Outdated ==
  /\ job.at = "plan" /\ job.command = "upgrade"
  /\ \E listed \in BOOLEAN :
       /\ listed => online /\ venv.at = "ok"
       /\ LET old == {p \in Package : listed /\ venv.pkgs[p] = 1}
              s == Listed(old)
          IN job' = [job EXCEPT !.at = "steps", !.todo = [i \in DOMAIN s |-> One(s[i], {2})]]
  /\ UNCHANGED <<reqFile, venv, stamp, stamps, python, online, jobs, changes>>

\* mutant of Offered: the offline switch is forgotten
OfferedAnyway(p, versions) == IF online THEN versions ELSE versions \cap Wheels[p]

\* _pip: offline, only the wheel cache is looked at.
Offered(p, versions) ==
  IF job.offline THEN versions \cap Wheels[p] ELSE IF online THEN versions ELSE {}

\* what the step at the head asks for, read when it is carried out
Asked(p) ==
  CASE Head(job.todo).what = "file" -> reqFile.needs[p]
    [] Head(job.todo).what = "one" -> IF Head(job.todo).package = p THEN Head(job.todo).versions ELSE {}
    [] OTHER -> {}
Wanted == {p \in Package : /\ Asked(p) # {}
                           /\ venv.pkgs[p] \notin Asked(p) \/ job.upgrade}

\* what is there will do, if it is asked for
Candidates(p) == Offered(p, Asked(p)) \cup ({venv.pkgs[p]} \cap Asked(p))
Put(S) == [venv EXCEPT !.pkgs = [p \in Package |-> IF p \in S THEN Best(Candidates(p)) ELSE @[p]]]
Within(S) == \A p \in S : Candidates(p) # {}

\* An attempt that succeeds installs all that is asked for.
Succeed ==
  /\ job.at = "steps" /\ job.todo # <<>> /\ venv.at = "ok"
  /\ Head(job.todo).what = "bootstrap" => online
  /\ Within(Wanted) /\ venv' = Put(Wanted)
  /\ job' = [job EXCEPT !.todo = Tail(@), !.tries = 0]
  /\ UNCHANGED <<reqFile, stamp, stamps, python, online, jobs, changes>>

\* mutant of AfterFailure: only the last step's failure is remembered
OnlyLastFailure ==
  IF job.tries + 1 < Attempts THEN [job EXCEPT !.tries = @ + 1]
  ELSE [job EXCEPT !.todo = Tail(@), !.tries = 0, !.errors = Len(job.todo) = 1]

\* The last failure of a step is noted, and the next step is tried all the same.
AfterFailure ==
  IF job.tries + 1 < Attempts THEN [job EXCEPT !.tries = @ + 1]
  ELSE [job EXCEPT !.todo = Tail(@), !.tries = 0, !.errors = TRUE]

\* One that fails may have installed some of it.
Fail ==
  /\ job.at = "steps" /\ job.todo # <<>>
  /\ \E S \in SUBSET Wanted :
       /\ S # {} => venv.at = "ok" /\ Within(S)
       /\ venv' = Put(S)
  /\ job' = AfterFailure
  /\ UNCHANGED <<reqFile, stamp, stamps, python, online, jobs, changes>>

\* The file as it is now is noted as installed, whatever the steps came to; the
\* exit status tells of their errors.
Finish ==
  /\ job.at = "steps" /\ job.todo = <<>> /\ job' = Idle
  /\ IF job.command = "install"
       THEN /\ stamp' = [hash |-> reqFile, python |-> python]
            /\ stamps' = [stamps EXCEPT ![reqFile] = python]
       ELSE UNCHANGED <<stamp, stamps>>
  /\ UNCHANGED <<reqFile, venv, python, online, jobs, changes>>

\* Interrupted: no stamp, no end of the step at hand.
Kill ==
  /\ job # Idle /\ job' = Idle
  /\ UNCHANGED <<reqFile, venv, stamp, stamps, python, online, jobs, changes>>

----------------------------------------------------------------------------
(* What happens outside *)

Disturbed == IF job = Idle THEN Idle ELSE [job EXCEPT !.disturbed = TRUE]
Change == changes < MaxChanges /\ changes' = changes + 1

\* An editor, or the git pull of update_repo.
Edit ==
  /\ Change /\ reqFile' \in Files \ {reqFile} /\ job' = Disturbed
  /\ UNCHANGED <<venv, stamp, stamps, python, online, jobs>>

Uninstall ==
  /\ Change /\ venv.at = "ok" /\ \E p \in Package : venv' = [venv EXCEPT !.pkgs[p] = 0]
  /\ job' = Disturbed
  /\ UNCHANGED <<reqFile, stamp, stamps, python, online, jobs>>

NewPython ==
  /\ Change /\ job = Idle /\ python' = 3 - python
  /\ UNCHANGED <<reqFile, venv, stamp, stamps, online, job, jobs>>

NetworkChange ==
  /\ Change /\ online' = ~online
  /\ UNCHANGED <<reqFile, venv, stamp, stamps, python, job, jobs>>

InstallerNext ==
  \/ Begin \/ Create \/ Plan \/ Outdated \/ Succeed \/ Fail \/ Finish \/ Kill
  \/ Edit \/ Uninstall \/ NewPython \/ NetworkChange

InstallerSpec == InstallerInit /\ [][InstallerNext]_installVars

----------------------------------------------------------------------------
(* Properties *)

Planning == job.at = "plan" /\ job'.at = "steps" /\ job.command = "install"
Finishing == job.at = "steps" /\ job.todo = <<>> /\ job' = Idle
Asking(s) == {i \in DOMAIN s : s[i].what \in {"file", "one"}}

\* "Requirements unchanged. Skipping install." is only said of an environment
\* that has what the file asks for, although the stamp is also written after a
\* failure, is copied from other environments, and outlives what is removed
\* (setup.py:2380, 2955, 3321).
SkipIsSound ==
  Planning /\ reqFile.plain /\ Working /\ Asking(job'.todo) = {} => Lacking(venv.pkgs) = {}

\* An install that ends without an error, nobody having disturbed it, leaves what
\* the file asks for in the environment, offline too (setup.py:3272, 3460).
CleanIsDone ==
  Finishing /\ job.command = "install" /\ ~job.errors /\ ~job.disturbed
    /\ reqFile.plain /\ Working
  => Lacking(venv.pkgs) = {}

\* A run that is offline installs nothing but the wheels of the cache
\* (setup.py:3084, "Offline mode: forcing pip to use cached wheels.").
OfflineIsOffline ==
  \A p \in Package :
    job # Idle /\ job.at = "steps" /\ job.offline /\ venv'.pkgs[p] # venv.pkgs[p] =>
      venv'.pkgs[p] \in Wheels[p] \cup {0}

InstallSteps == SkipIsSound /\ CleanIsDone /\ OfflineIsOffline
=============================================================================
