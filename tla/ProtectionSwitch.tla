-------------------------- MODULE ProtectionSwitch --------------------------
(* Turning a protection of the machine, the firewall or Defender's realtime
   monitoring, on or off: set_firewall_enabled (utils/security/firewall_control.py
   and firewall.py), set_defender_realtime and set_defender_enabled
   (utils/security/defender_control.py and defender.py), over the pipeline of
   utils/security/core.py.

   A request runs in a thread of its own; several may be under way, from the
   Security Center and from its dialogs, and other programs change the protection
   too.  A command, a query of the state, the diagnosis that may follow it and what
   is made of the answer are steps; a wait of the code polls Looks times.  What a
   diagnosis finds in the way of a change (a policy, tamper protection, another
   product, a dead service) may be misjudged, as a failing query counts as finding
   nothing.  How a Mac's firewall is read and set is in MacFirewall. *)
EXTENDS Naturals

CONSTANTS
  Requester,   \* the requests
  Looks,       \* bound: polls of a wait (six or seven in the code)
  MaxForeign   \* bound: changes by other programs

SwitchAssumption == Looks \in Nat \ {0} /\ MaxForeign \in Nat

VARIABLES
  feature,   \* "firewall" or "defender"
  machine,   \* the platform, whether we are administrator, what is in the way
  on,        \* the protection is on
  onRecord,  \* a Mac's firewall is on by its record, which need not be in force
  copied,    \* what is remembered of that record, if anything is
  service,   \* Defender's service runs
  req,       \* the state of each request
  touched,   \* a command of ours was run that changes the machine
  moved,     \* (history) the requests for which another changed it since they looked
  foreign

switchVars == <<feature, machine, on, onRecord, copied, service, req, touched, moved, foreign>>

Barrier == {"policy", "tamper", "third", "services"}
Kind == {"control", "tool", "master"}
Check == {"checkMac", "checkCommand", "checkNow", "checkTool", "checkRegistry", "checkFallback",
          "checkLast", "checkMaster", "checkMasterLast"}
Place == Check \union {"idle", "gate", "service", "command", "tool", "set", "registry", "collect",
                        "collectMaster", "done"}

Machine == [platform : {"windows", "mac", "other"}, admin : BOOLEAN, barriers : SUBSET Barrier]
ReqState == [kind : Kind, want : BOOLEAN, pc : Place, left : 0..Looks, tries : 0..2,
          saw : {"-", "match", "miss", "unknown"},   \* what its query told
          due : BOOLEAN,                             \* which a diagnosis is to follow
          named : SUBSET (Barrier \union {"gate", "unknown"}),
          result : {"none", "ok", "blocked", "raised"}]

SwitchTypeOK ==
  /\ feature \in {"firewall", "defender"} /\ machine \in Machine
  /\ on \in BOOLEAN /\ onRecord \in BOOLEAN /\ copied \in SUBSET BOOLEAN
  /\ service \in BOOLEAN /\ touched \in BOOLEAN
  /\ moved \in SUBSET Requester /\ foreign \in 0..MaxForeign
  /\ req \in [Requester -> ReqState]

Windows == machine.platform = "windows"
Mac == machine.platform = "mac"

\* "master" is set_defender_enabled; "tool" is what the dialogs of the two
\* features call themselves, on Windows and as administrator only.
SwitchInit ==
  /\ feature \in {"firewall", "defender"}
  /\ machine \in Machine
  /\ on \in BOOLEAN /\ service \in BOOLEAN
  /\ IF Mac THEN onRecord \in BOOLEAN /\ copied \in {{}, {TRUE}, {FALSE}}
     ELSE onRecord = FALSE /\ copied = {}
  /\ touched = FALSE /\ moved = {} /\ foreign = 0
  /\ req \in [Requester -> [kind : Kind, want : BOOLEAN, pc : {"idle"}, left : {0}, tries : {0},
                          saw : {"-"}, due : {FALSE}, named : {{}}, result : {"none"}]]
  /\ \A r \in Requester :
       /\ req[r].kind = "master" => feature = "defender"
       /\ req[r].kind = "tool" => Windows /\ machine.admin

\* A step takes a request from its state to another one, made of what follows.
To(r, next) == req' = [req EXCEPT ![r] = next]
At(r, place) == req[r].pc = place
Go(s, place) == [s EXCEPT !.pc = place]
End(s, result) == [s EXCEPT !.pc = "done", !.result = result]
Poll(s, place) == [s EXCEPT !.pc = place, !.left = Looks]
Once(s, place) == [s EXCEPT !.pc = place, !.left = 1]
Again(s) == [s EXCEPT !.tries = @ + 1]
Naming(s, why) == [s EXCEPT !.named = why]

\* What a diagnosis finds of what is in the way.
Found(barriers) == SUBSET (machine.barriers \cap barriers)

\* A diagnosis of Defender starts its service, and get_defender_status() makes
\* one after it has asked for the state.
Diagnosed == service' \in IF feature = "defender" THEN {service, TRUE} ELSE {service}

\* The protection does what a command says unless something holds it.
Obeys == machine.barriers \cap {"policy", "tamper"} = {}

\* What a query may tell: on a Mac the record, what is remembered of it where it
\* cannot be read, or what is in force where neither is there.
Shows(state) == on = state \/ (Mac /\ (onRecord = state \/ state \in copied))

Disturbs(r) ==
  moved' = IF <<on', onRecord', copied'>> = <<on, onRecord, copied>> THEN moved
           ELSE moved \union (Requester \ {r})

-----------------------------------------------------------------------------
(* How the parts of a request hand over to each other *)

\* set_defender_enabled runs set_defender_realtime and looks again.
ControlOk(s) ==
  IF s.kind = "master" THEN Poll(s, "checkMaster") ELSE End(s, "ok")
ControlBlocked(s, names) ==
  LET told == Naming(s, s.named \union names) IN
  IF s.kind = "master" THEN Poll(told, "checkMasterLast") ELSE End(told, "blocked")

\* The second way, which a dialog takes itself.  Its text says what is wrong.
ToolOk(s) == IF s.kind = "tool" THEN End(s, "ok") ELSE Poll(s, "checkFallback")
ToolFails(s) ==
  IF s.kind = "tool" \/ Mac THEN End(Naming(s, {"unknown"}), "blocked") ELSE Poll(s, "checkLast")

-----------------------------------------------------------------------------
(* A request *)

Begin(r) ==
  /\ At(r, "idle")
  /\ To(r, Go(req[r], IF req[r].kind = "tool" THEN "tool" ELSE "gate"))
  /\ UNCHANGED <<feature, machine, on, onRecord, copied, service, touched, moved, foreign>>

\* On a Mac the firewall is left alone when it is told to be as asked; Defender is
\* for Windows only, and both want an administrator there.
MacGate(r) ==
  /\ At(r, "gate") /\ Mac /\ feature = "firewall"
  /\ To(r, Once(req[r], "checkMac"))
  /\ UNCHANGED <<feature, machine, on, onRecord, copied, service, touched, moved, foreign>>
Gate(r) ==
  /\ At(r, "gate") /\ ~(Mac /\ feature = "firewall")
  /\ \/ (~Windows \/ ~machine.admin) /\ To(r, End(Naming(req[r], {"gate"}), "blocked"))
     \/ /\ Windows /\ machine.admin
        /\ To(r, Go(req[r], IF req[r].kind = "master" THEN "service" ELSE "command"))
     \/ /\ Windows /\ machine.admin /\ feature = "firewall"       \* netsh is missing
        /\ To(r, End(Naming(req[r], {"gate"}), "blocked"))
  /\ UNCHANGED <<feature, machine, on, onRecord, copied, service, touched, moved, foreign>>

Driven(s, why) == [s EXCEPT !.pc = "command", !.tries = 0, !.named = @ \union why]
NotDriven(s) ==
  LET told == Naming(s, s.named \union {"services"}) IN
  IF s.tries = 0 THEN Go(Again(told), "service") ELSE Driven(told, {})

\* drive_service_state(), twice if need be.  A service that does not come to
\* the state is named, whatever becomes of the request.
DriveService(r) ==
  /\ At(r, "service")
  /\ touched' = TRUE
  /\ \/ /\ service' = req[r].want
        /\ \E why \in {{}} \union (IF req[r].want THEN {{"services"}} ELSE {}) :   \* its start type
             To(r, Driven(req[r], why))
     \/ UNCHANGED service /\ To(r, End(req[r], "raised"))
     \/ /\ service' \in {service, req[r].want}
        /\ To(r, NotDriven(req[r]))
  /\ UNCHANGED <<feature, machine, on, onRecord, copied, moved, foreign>>

\* mutant of Command: a command that reports success is believed
CommandBelieved(r) ==
  /\ At(r, "command")
  /\ touched' = TRUE /\ UNCHANGED <<onRecord, copied>>
  /\ \/ Obeys /\ on' = req[r].want /\ To(r, ControlOk(req[r]))
     \/ UNCHANGED on /\ To(r, ControlOk(req[r]))
     \/ UNCHANGED on /\ To(r, Go(req[r], "tool"))
  /\ Disturbs(r) /\ UNCHANGED <<feature, machine, service, foreign>>

\* The direct command: it works, reports success without effect, fails, or
\* cannot be run at all, which ends the request with an exception.
Command(r) ==
  /\ At(r, "command")
  /\ touched' = TRUE /\ UNCHANGED <<onRecord, copied>>
  /\ \/ /\ Obeys /\ on' = req[r].want
        /\ To(r, Poll(Again(req[r]), "checkCommand"))
     \/ UNCHANGED on /\ To(r, Poll(Again(req[r]), "checkCommand"))
     \/ UNCHANGED on /\ To(r, Go(req[r], "tool"))
     \/ UNCHANGED on /\ To(r, End(req[r], "raised"))
  /\ Disturbs(r) /\ UNCHANGED <<feature, machine, service, foreign>>

\* The tool looks at what is in the way first, and then at the state.
RunTool(r) ==
  /\ At(r, "tool") /\ ~Mac
  /\ \E found \in Found(IF feature = "firewall" THEN {"services", "third", "policy"}
                        ELSE {"services", "third"}) :
       \/ (found # {} \/ feature = "defender") /\ To(r, ToolFails(req[r]))   \* or has no cmdlets
       \/ found = {} /\ To(r, Once(req[r], "checkNow"))
  /\ Diagnosed
  /\ UNCHANGED <<feature, machine, on, onRecord, copied, touched, moved, foreign>>
MacTool(r) ==
  /\ At(r, "tool") /\ Mac
  /\ \/ ~machine.admin /\ To(r, ToolFails(req[r]))
     \/ To(r, ToolFails(req[r]))                        \* the tools are not there
     \/ machine.admin /\ To(r, Go(req[r], "set"))
  /\ UNCHANGED <<feature, machine, on, onRecord, copied, service, touched, moved, foreign>>

\* The tool's own commands.  A refused change of the firewall is looked for
\* nevertheless, unless access was denied.
ToolSet(r) ==
  /\ At(r, "set") /\ ~Mac
  /\ touched' = TRUE /\ UNCHANGED <<onRecord, copied>>
  /\ \/ Obeys /\ on' = req[r].want /\ To(r, Poll(req[r], "checkTool"))
     \/ UNCHANGED on /\ To(r, Poll(req[r], "checkTool"))
     \/ UNCHANGED on /\ To(r, ToolFails(req[r]))
  /\ Disturbs(r) /\ UNCHANGED <<feature, machine, service, foreign>>

\* On a Mac either tool may set the record without what is in force, and the
\* refresh that is to put it in force may turn the firewall off.
MacSet(r) ==
  /\ At(r, "set") /\ Mac
  /\ touched' = TRUE
  /\ \/ /\ onRecord' \in {onRecord, req[r].want} /\ on' \in {on, req[r].want, FALSE}
        /\ copied' = {onRecord'} /\ To(r, Once(req[r], "checkTool"))
     \/ UNCHANGED <<on, onRecord, copied>> /\ To(r, ToolFails(req[r]))
  /\ Disturbs(r) /\ UNCHANGED <<feature, machine, service, foreign>>

\* _registry_toggle_rt(): the registry, and a restart of the service.
Registry(r) ==
  /\ At(r, "registry")
  /\ touched' = TRUE /\ UNCHANGED <<onRecord, copied>>
  /\ \/ UNCHANGED <<on, service>> /\ To(r, ToolFails(req[r]))
     \/ /\ on' \in {on} \union (IF Obeys THEN {req[r].want} ELSE {})
        /\ service' \in BOOLEAN
        /\ To(r, Once(req[r], "checkRegistry"))
  /\ Disturbs(r) /\ UNCHANGED <<feature, machine, foreign>>

-----------------------------------------------------------------------------
(* Looking whether it worked *)

OnMatch(s) ==
  CASE s.pc \in {"checkCommand", "checkFallback", "checkLast"} -> ControlOk(s)
    [] s.pc \in {"checkNow", "checkTool", "checkRegistry"} -> IF Mac THEN End(s, "ok") ELSE ToolOk(s)
    [] OTHER -> End(s, "ok")

OnMiss(s) ==
  CASE s.pc = "checkMac" -> Go(s, "tool")
    [] s.pc = "checkNow" -> Go(s, "set")
    [] s.pc = "checkCommand" -> Go(s, IF s.tries < 2 THEN "command" ELSE "tool")
    [] s.pc = "checkTool" -> IF feature = "defender" THEN Go(s, "registry") ELSE ToolFails(s)
    [] s.pc = "checkRegistry" -> ToolFails(s)
    [] s.pc = "checkFallback" -> Poll(s, "checkLast")
    [] s.pc = "checkMaster" -> Poll(s, "checkMasterLast")
    [] s.pc = "checkLast" -> Go(s, "collect")
    [] OTHER -> Go(s, "collectMaster")

\* A stopped service does not tell the state.
Answers == feature = "defender" => service

\* Any query may fail to answer.
Look(r) ==
  /\ req[r].pc \in Check /\ req[r].saw = "-"
  /\ \E answer \in {"unknown"} \union (IF Answers /\ Shows(req[r].want) THEN {"match"} ELSE {})
                    \union (IF Answers /\ Shows(~req[r].want) THEN {"miss"} ELSE {}) :
       To(r, [req[r] EXCEPT !.saw = answer,
                            !.due = feature = "defender"
                                    /\ req[r].pc \notin {"checkNow", "checkTool", "checkRegistry"}])
  /\ copied' = IF Mac /\ copied = {} THEN {onRecord} ELSE copied
  /\ moved' = moved \ {r}
  /\ UNCHANGED <<feature, machine, on, onRecord, service, touched, foreign>>

Diagnose(r) ==
  /\ req[r].due
  /\ To(r, [req[r] EXCEPT !.due = FALSE])
  /\ Diagnosed
  /\ UNCHANGED <<feature, machine, on, onRecord, copied, touched, moved, foreign>>

Waits(s) == [s EXCEPT !.left = @ - 1]
Asking(s) == [s EXCEPT !.saw = "-"]
Answered(r) == req[r].saw # "-" /\ ~req[r].due

\* mutant of Report: the last poll of a wait is taken for a match
ReportLast(r) ==
  /\ Answered(r)
  /\ LET s == Asking(req[r]) IN
     To(r, IF req[r].saw = "match" \/ s.left = 1 THEN OnMatch(s) ELSE Waits(s))
  /\ UNCHANGED <<feature, machine, on, onRecord, copied, service, touched, moved, foreign>>

\* wait_for_state(), and the single looks.  After its polls the tool gives up at
\* once when it finds tamper protection or a policy.
Report(r) ==
  /\ Answered(r)
  /\ LET s == Asking(req[r]) IN
     \/ req[r].saw = "match" /\ To(r, OnMatch(s))
     \/ req[r].saw # "match" /\ s.left > 1 /\ To(r, Waits(s))
     \/ /\ req[r].saw # "match" /\ s.left = 1
        /\ \/ ~(At(r, "checkMac") /\ req[r].saw = "unknown") /\ To(r, OnMiss(s))
           \/ At(r, "checkMac") /\ req[r].saw = "unknown" /\ To(r, End(Naming(s, {"unknown"}), "blocked"))
           \/ /\ At(r, "checkTool") /\ machine.barriers \cap {"tamper", "policy"} # {}
              /\ To(r, ToolFails(s))
  /\ UNCHANGED <<feature, machine, on, onRecord, copied, service, touched, moved, foreign>>

\* mutant of Collect: nothing is named when nothing was found
CollectFound(r) ==
  /\ At(r, "collect")
  /\ \E found \in Found(Barrier) : To(r, ControlBlocked(req[r], found))
  /\ Diagnosed
  /\ UNCHANGED <<feature, machine, on, onRecord, copied, touched, moved, foreign>>

\* What is in the way, as far as it shows, is named; set_defender_enabled does
\* so after the realtime request, if it was not named then.
Collect(r) ==
  /\ At(r, "collect")
  /\ \E found \in Found(Barrier) :
       To(r, ControlBlocked(req[r], IF found = {} THEN {"unknown"} ELSE found))
  /\ Diagnosed
  /\ UNCHANGED <<feature, machine, on, onRecord, copied, touched, moved, foreign>>
CollectMaster(r) ==
  /\ At(r, "collectMaster")
  /\ \E found \in Found(Barrier) :
       LET why == req[r].named \union found
       IN  To(r, End(Naming(req[r], IF why = {} THEN {"unknown"} ELSE why), "blocked"))
  /\ Diagnosed
  /\ UNCHANGED <<feature, machine, on, onRecord, copied, touched, moved, foreign>>

\* Other programs, and commands of ours that take effect late.
Foreign ==
  /\ foreign < MaxForeign /\ foreign' = foreign + 1
  /\ \/ on' = ~on /\ onRecord' = (Mac /\ on')
     \/ Mac /\ UNCHANGED on /\ onRecord' = ~onRecord
  /\ moved' = Requester
  /\ UNCHANGED <<feature, machine, copied, service, req, touched>>

SwitchNext ==
  \/ \E r \in Requester :
       \/ Begin(r) \/ MacGate(r) \/ Gate(r) \/ DriveService(r) \/ Command(r)
       \/ RunTool(r) \/ MacTool(r) \/ ToolSet(r) \/ MacSet(r) \/ Registry(r)
       \/ Look(r) \/ Diagnose(r) \/ Report(r) \/ Collect(r) \/ CollectMaster(r)
  \/ Foreign

SwitchSpec == SwitchInit /\ [][SwitchNext]_switchVars

-----------------------------------------------------------------------------
(* Properties *)

\* A request that reports success has looked at the protection after all it did
\* to it, by whichever way it came there, and it is still as asked, unless another
\* program or request has changed it since that look: a diagnosis lies between
\* the two.  On a Mac what is asked is then in force, on record or what is
\* remembered of the record, not necessarily all three.  One that reports a
\* failure names something that may be in its way, and nothing on the machine is
\* changed without an administrator.
HonestStep ==
  /\ \A r \in Requester :
       req[r].result = "none" =>
         /\ req'[r].result = "ok" => r \in moved \/ Shows(req[r].want)
         /\ req'[r].result = "blocked" => req'[r].named # {}
  /\ touched' => machine.admin
HonestOutcome == [][HonestStep]_switchVars

\* What leads there: only an administrator's requests come past the gate, but for
\* a look at a Mac and its tools; a wait has polls left; and what a query told is
\* so until another changes it.
Sound(s) ==
  /\ s.pc # "done" => s.result = "none"
  /\ s.kind = "tool" => Windows /\ machine.admin
  /\ machine.admin \/ s.pc \in {"idle", "gate", "done"} \/ (Mac /\ s.pc \in {"checkMac", "tool"})
  /\ s.pc \in {"idle", "gate"} => s.tries = 0
  /\ s.pc \in {"service", "command"} => s.tries <= 1
  /\ s.pc \in Check => s.left # 0
  /\ s.pc = "checkMac" => Mac
  /\ s.pc \notin Check => s.saw = "-"
  /\ s.saw = "-" => ~s.due
Holds(r) == req[r].saw = "match" => r \in moved \/ Shows(req[r].want)
SwitchInv ==
  /\ SwitchTypeOK /\ (touched => machine.admin)
  /\ \A r \in Requester : Sound(req[r]) /\ Holds(r)
=============================================================================
