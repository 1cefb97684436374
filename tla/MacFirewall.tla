---------------------------- MODULE MacFirewall ----------------------------
(* The firewall of a Mac as utils/security/firewall.py reads and switches it: by
   socketfilterfw, which sets what is enforced and what is on record, by defaults or
   by writing its plist, which only set the record, so that launchctl must have the
   firewall read it again.  Which tools there are and what the plist says is looked
   up once and remembered (lru_cache) until something is changed from here.

   One request at a time, run in a thread; the state may be asked for, and other
   programs may change all of it, between any two of its commands. *)
EXTENDS Naturals

CONSTANTS
  Machines,   \* the Macs it may run on, see Machine
  MaxJobs,    \* bound: requests
  MaxOthers   \* bound: changes by others

VARIABLES
  machine,
  plist,     \* the record: "none", "damaged", "off" or "on"
  enforced,  \* the firewall is on
  seen,      \* what _mac_detect_tooling_cached() remembers: at most one Tooling
  copy,      \* what _mac_defaults_plist_cached() remembers, "-" for nothing
  job,       \* the request
  stale,     \* (history) what is remembered has changed since
  jobs, others

macVars == <<machine, plist, enforced, seen, copy, job, stale, jobs, others>>

Machine ==
  [ctl      : BOOLEAN,   \* socketfilterfw can be run
   defaults : BOOLEAN,   \* defaults can
   launch   : {"none", "broken", "bare", "ok"},   \* launchctl; "bare": the agent is not there
   admin    : BOOLEAN,
   locked   : BOOLEAN,   \* the plist, or where it would be, cannot be written
   hidden   : BOOLEAN,   \* only an administrator can read it
   managed  : BOOLEAN]   \* the tools report success and change nothing

MacInit ==
  /\ machine \in Machines /\ plist \in {"none", "damaged", "off", "on"} /\ enforced = (plist = "on")
  /\ seen = {} /\ copy = "-" /\ stale = FALSE /\ jobs = 0 /\ others = 0
  /\ job = [pc |-> "idle", want |-> FALSE, by |-> "-", told |-> FALSE, moved |-> "no", end |-> "-"]

State(b) == IF b THEN "on" ELSE "off"
Value(text) == IF text \in {"on", "off"} THEN {text} ELSE {}

----------------------------------------------------------------------------
(* What is remembered *)

Detected(record) ==
  [ctl |-> machine.ctl, defaults |-> machine.defaults, launch |-> machine.launch,
   plist |-> record # "none", boot |-> record # "none" \/ (machine.admin /\ ~machine.locked)]
Reading(record) ==
  IF record # "none" /\ machine.hidden /\ ~machine.admin THEN "denied" ELSE record
\* A file that is missing is not read by the detection.
Tooling == IF seen = {} THEN Detected(plist) ELSE CHOOSE t \in seen : TRUE
Recalled == IF copy = "-" /\ plist # "none" /\ seen = {} THEN Reading(plist) ELSE copy
Remember(text) == seen' = {Tooling} /\ copy' = text
\* mutant of LookAgain: the copy of the plist is kept
LookAgainTools(record) == seen' = {Detected(record)} /\ copy' = Recalled /\ stale' = FALSE
LookAgain(record) ==
  /\ seen' = {Detected(record)} /\ stale' = FALSE
  /\ copy' = IF record = "none" THEN "-" ELSE Reading(record)

\* _mac_defaults_read_int(): what the defaults tool prints, if it does
Printed == IF machine.defaults THEN Value(Reading(plist)) ELSE {}

\* _mac_firewall_global_state(): defaults says what is on record or, when it fails,
\* the copy does; if neither does socketfilterfw says what is enforced, or fails.
\* A result is the state and the copy of the plist that is then remembered.
Copied(text) == IF text = "-" THEN Reading(plist) ELSE text
Answers(tools, text) ==
  LET known == Copied(text)
      last == IF tools.ctl THEN {"unknown"} \cup (IF machine.ctl THEN {State(enforced)} ELSE {})
              ELSE {"unknown"}
  IN IF ~tools.defaults THEN {<<s, text>> : s \in last}
     ELSE {<<s, text>> : s \in Printed} \cup
          {<<s, known>> : s \in IF Value(known) # {} THEN Value(known) ELSE last}

\* is_firewall_enabled() and get_firewall_status()
Ask ==
  /\ \E answer \in Answers(Tooling, Recalled) : Remember(answer[2])
  /\ UNCHANGED <<machine, plist, enforced, job, stale, jobs, others>>

----------------------------------------------------------------------------
(* A request: _mac_set_firewall_enabled() *)

To(pc) == job' = [job EXCEPT !.pc = pc]
Ends(result) == job' = [job EXCEPT !.pc = "idle", !.end = result]
Keeps == UNCHANGED <<machine, jobs, others>>

Begin(want) ==
  /\ job.pc = "idle" /\ jobs < MaxJobs /\ jobs' = jobs + 1
  /\ LET t == Tooling IN
     job' = [pc |-> IF ~machine.admin \/ ~(t.ctl \/ t.defaults \/ t.plist \/ t.boot) THEN "refused"
                    ELSE IF t.ctl THEN "ctl" ELSE "defaults",
             want |-> want, by |-> "-", told |-> FALSE, moved |-> "no", end |-> "-"]
  /\ Remember(Recalled)
  /\ UNCHANGED <<machine, plist, enforced, stale, others>>
Refused ==
  /\ job.pc = "refused" /\ Ends("failed")
  /\ Keeps /\ UNCHANGED <<plist, enforced, seen, copy, stale>>

\* A tool may fail at any time, and does where it is not there any more.
SetGlobalState ==
  /\ job.pc = "ctl"
  /\ \/ /\ machine.ctl /\ To("refresh")
        /\ IF machine.managed THEN UNCHANGED <<plist, enforced, stale>>
           ELSE plist' = State(job.want) /\ enforced' = job.want /\ stale' = TRUE
     \/ /\ IF Tooling.defaults \/ Tooling.plist \/ Tooling.boot THEN To("defaults") ELSE Ends("failed")
        /\ UNCHANGED <<plist, enforced, stale>>
  /\ Keeps /\ UNCHANGED <<seen, copy>>

Recorded == job' = [job EXCEPT !.pc = "refresh", !.by = "record"]
DefaultsWrite ==
  /\ job.pc = "defaults" /\ UNCHANGED enforced
  /\ \/ /\ Tooling.defaults /\ machine.defaults /\ Recorded
        /\ plist' = IF machine.managed THEN plist ELSE State(job.want)
        /\ LookAgain(plist')
     \/ To("write") /\ UNCHANGED <<plist, seen, copy, stale>>
  /\ Keeps

\* _mac_defaults_plist_write(): a plist that is damaged is to be made anew, but
\* _mac_defaults_plist_bootstrap() does nothing where there is one, and that counts
\* as done.  Writing truncates the file first, and may fail then.
PlistWrite ==
  /\ job.pc = "write" /\ UNCHANGED enforced
  /\ \/ /\ plist = "damaged"
        /\ IF Tooling.boot THEN Recorded /\ UNCHANGED plist /\ LookAgain(plist)
           ELSE Ends("failed") /\ UNCHANGED <<plist, seen, copy, stale>>
     \/ /\ plist # "damaged" /\ ~machine.locked
        /\ Recorded /\ plist' = State(job.want) /\ LookAgain(plist')
     \/ /\ plist # "damaged" /\ Ends("failed") /\ UNCHANGED <<seen, copy>>
        /\ IF machine.locked THEN UNCHANGED <<plist, stale>>
           ELSE plist' = "damaged" /\ stale' = TRUE
  /\ Keeps

Review ==
  /\ job.pc = "refresh" /\ UNCHANGED <<plist, enforced>> /\ LookAgain(plist)
  /\ To(IF job.by = "record" /\ machine.launch # "none" THEN "launchctl" ELSE "verify")
  /\ Keeps

\* _mac_launchctl_refresh(): kickstart or, if the agent is known, unload and load
LaunchctlRefresh ==
  /\ job.pc = "launchctl"
  /\ \/ /\ Tooling.launch \in {"bare", "ok"}
        /\ enforced' \in IF plist \in {"on", "off"} THEN {plist = "on"} ELSE BOOLEAN
        /\ To("verify")
     \/ /\ enforced' \in IF Tooling.launch = "ok" THEN {enforced, FALSE} ELSE {enforced}
        /\ job' = [job EXCEPT !.pc = "verify", !.told = TRUE]
  /\ Keeps /\ UNCHANGED <<plist, seen, copy, stale>>

\* mutant of Verify: what cannot be read is believed
VerifyUnlessRead ==
  /\ job.pc = "verify"
  /\ \E answer \in Answers(Tooling, Recalled) :
       /\ Ends(IF answer[1] \in {"unknown", State(job.want)} THEN "ok" ELSE "failed")
       /\ Remember(answer[2])
  /\ Keeps /\ UNCHANGED <<plist, enforced, stale>>
Verify ==
  /\ job.pc = "verify"
  /\ \E answer \in Answers(Tooling, Recalled) :
       /\ Ends(IF answer[1] = State(job.want) THEN "ok" ELSE "failed")
       /\ Remember(answer[2])
  /\ Keeps /\ UNCHANGED <<plist, enforced, stale>>

----------------------------------------------------------------------------
Others ==
  /\ others < MaxOthers /\ others' = others + 1
  /\ \/ /\ \E b \in BOOLEAN : plist' = State(b) /\ enforced' = b       \* System Settings
        /\ UNCHANGED machine
     \/ plist' \in {"none", "damaged"} \ {plist} /\ UNCHANGED <<machine, enforced>>
     \/ /\ \/ machine' = [machine EXCEPT !.ctl = ~@]
           \/ machine' = [machine EXCEPT !.defaults = ~@]
        /\ UNCHANGED <<plist, enforced>>
  /\ stale' = (stale \/ seen # {} \/ copy # "-")
  /\ job' = [job EXCEPT !.moved = IF job.pc \in {"launchctl", "verify"} THEN "late"
                                  ELSE IF @ = "no" THEN "early" ELSE @]
  /\ UNCHANGED <<seen, copy, jobs>>

MacNext ==
  \/ \E want \in BOOLEAN : Begin(want)
  \/ Refused \/ SetGlobalState \/ DefaultsWrite \/ PlistWrite \/ Review \/ LaunchctlRefresh \/ Verify
  \/ Ask \/ Others

----------------------------------------------------------------------------
\* What is remembered is so, unless others changed it, a write failed half way, or a
\* request is about to look again.
RememberedIsTrue ==
  ~stale =>
    /\ seen \subseteq {Detected(plist)}
    /\ copy \in {"-", Reading(plist)}
\* As long as that is so the state that is told is the one on record or in force.
AnswersAreTrue ==
  ~stale => \A answer \in Answers(Tooling, Recalled) :
              answer[1] \in {"unknown", plist, State(enforced)}
(* A request that reports success has what it asked for on record or in force, unless
   others changed that after it had looked again. *)
SuccessIsThere ==
  job.end = "-" /\ job'.end = "ok" =>
    State(job.want) \in {plist, State(enforced)} \/ job.moved = "late"
(* If it has nothing more to tell, what it asked for is in force: unless there is no
   launchctl, which it does not tell, the Mac is managed, or others came between. *)
SuccessIsInForce ==
  job.end = "-" /\ job'.end = "ok" /\ ~job.told =>
    \/ enforced = job.want
    \/ Tooling.launch = "none" /\ job.by = "record"
    \/ machine.managed \/ job.moved # "no"
\* Only an administrator's request changes the record or what is in force.
OnlyAsAdministrator ==
  UNCHANGED others /\ <<plist, enforced>>' # <<plist, enforced>> => machine.admin
\* Without either tool nothing can be verified, and no request succeeds.
BlindNeverSucceeds ==
  job.end = "-" /\ job'.end = "ok" => Tooling.ctl \/ Tooling.defaults
MacInv == RememberedIsTrue /\ AnswersAreTrue
MacSteps == SuccessIsThere /\ SuccessIsInForce /\ OnlyAsAdministrator /\ BlindNeverSucceeds
=============================================================================
