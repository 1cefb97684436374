--------------------------- MODULE SecurityCenter ---------------------------
(* The Security Center (ui/views/dialogs/security.py): two switches, a refresh
   button, an automatic refresh every 30 seconds and the threads that do their
   work, of which only the youngest of a kind is listened to (_AsyncDispatcher).

   The main thread answers one event at a time.  A message box holds up the
   handler that opened it, and the answers of threads and the automatic refresh
   are handled meanwhile, but no clicks.  A thread that turns a protection on or
   off is ProtectionSwitch's; here it may do so, and says it did only when it
   holds.  The window stays open. *)
EXTENDS Naturals, Sequences, SequencesExt, FiniteSets

CONSTANTS
  MaxClicks,   \* bound: clicks and automatic refreshes
  MaxForeign   \* bound: changes by other programs and other dialogs

CenterAssumption == MaxClicks \in Nat /\ MaxForeign \in Nat

VARIABLES
  real,      \* what is on
  admin,     \* we are administrator
  shown,     \* _fw_state and _rt_state
  switches,  \* the switches that are enabled
  button,    \* the refresh button is enabled
  current,   \* _tokens: the number of the job that is listened to, or 0
  jobs,      \* threads at work and their answers on the way
  boxes,     \* message boxes, and what their handlers do after them
  busy,      \* length of _busy_messages
  auto,      \* the automatic refresh is on
  timer,     \* its next tick is scheduled
  made,      \* jobs so far
  lost,      \* history: jobs that were superseded
  failed,    \* history: the plugins could not be listed
  hides,     \* history: shown was read before a switch was done
  clicks, foreign

vars == <<real, admin, shown, switches, button, current, jobs, boxes, busy, auto, timer, made, lost,
          failed, hides, clicks, foreign>>
screen == <<shown, switches, button>>
tokens == <<current, made, lost>>
bounds == <<clicks, foreign>>

Feature == {"fw", "rt"}
Key == Feature \union {"refresh"}
Seen == {"on", "off", "unknown"}
Says(b) == IF b THEN "on" ELSE "off"

Job == [id : 1..made, key : Key, target : BOOLEAN, at : {"work", "half", "ok", "blocked", "raised"},
        read : [Feature -> Seen], old : BOOLEAN]

TypeOK ==
  /\ real \in [Feature -> BOOLEAN] /\ admin \in BOOLEAN /\ shown \in [Feature -> Seen]
  /\ switches \subseteq Feature /\ button \in BOOLEAN /\ auto \in BOOLEAN /\ timer \in BOOLEAN
  /\ current \in [Key -> 0..made] /\ jobs \subseteq Job
  /\ boxes \in Seq({"plugins", "tick", "blocked", "failure", "notice"})
  /\ busy \in Nat /\ made \in Nat /\ lost \in Nat /\ failed \in BOOLEAN /\ hides \in BOOLEAN
  /\ clicks \in 0..MaxClicks /\ foreign \in 0..MaxForeign

\* The first refresh is under way when the window comes up.
Init ==
  /\ real \in [Feature -> BOOLEAN] /\ admin \in BOOLEAN /\ shown = [f \in Feature |-> "unknown"]
  /\ switches = {} /\ button = FALSE /\ auto = FALSE /\ timer = FALSE
  /\ current = [k \in Key |-> IF k = "refresh" THEN 1 ELSE 0]
  /\ jobs = {[id |-> 1, key |-> "refresh", target |-> FALSE, at |-> "work",
              read |-> [f \in Feature |-> "unknown"], old |-> FALSE]}
  /\ boxes = <<>> /\ busy = 1 /\ made = 1 /\ lost = 0 /\ failed = FALSE /\ hides = FALSE
  /\ clicks = 0 /\ foreign = 0

-----------------------------------------------------------------------------
(* What handlers are made of *)

\* mutant of Submit: the inputs stay enabled
SubmitOpen(key, target, cur, others, b) ==
  /\ made' = made + 1 /\ busy' = b + 1
  /\ lost' = lost + (IF cur[key] = 0 THEN 0 ELSE 1)
  /\ current' = [cur EXCEPT ![key] = made + 1]
  /\ jobs' = others \union
       {[id |-> made + 1, key |-> key, target |-> target, at |-> "work",
         read |-> [f \in Feature |-> "unknown"], old |-> FALSE]}
  /\ UNCHANGED screen

\* submit(), with the inputs disabled and the work announced, when cur are the
\* jobs that are listened to, others those on the way, and b are announced.
Submit(key, target, cur, others, b) ==
  /\ made' = made + 1 /\ busy' = b + 1
  /\ lost' = lost + (IF cur[key] = 0 THEN 0 ELSE 1)
  /\ current' = [cur EXCEPT ![key] = made + 1]
  /\ jobs' = others \union
       {[id |-> made + 1, key |-> key, target |-> target, at |-> "work",
         read |-> [f \in Feature |-> "unknown"], old |-> FALSE]}
  /\ switches' = {} /\ button' = FALSE /\ UNCHANGED shown

\* refresh_async(): the plugins are listed first, and a failure opens a box
\* before the inputs are disabled.  A tick is scheduled again at its end.
Refresh(frame, cur, others, below, b) ==
  \/ /\ Submit("refresh", FALSE, cur, others, b)
     /\ boxes' = below /\ UNCHANGED <<failed, timer>>
  \/ /\ boxes' = Append(below, frame) /\ failed' = TRUE
     /\ timer' = (timer /\ frame # "tick")
     /\ current' = cur /\ jobs' = others /\ busy' = b
     /\ UNCHANGED <<screen, made, lost>>

Enable(a, states) ==
  /\ button' = TRUE /\ switches' = {f \in Feature : a /\ states[f] # "unknown"}

Click ==
  /\ boxes = <<>> /\ clicks < MaxClicks /\ clicks' = clicks + 1

-----------------------------------------------------------------------------
(* The user and the clock *)

\* The target is the opposite of what is shown.
Toggle(f) ==
  /\ Click /\ f \in switches
  /\ Submit(f, shown[f] = "off", current, jobs, busy)
  /\ UNCHANGED <<real, admin, boxes, auto, timer, failed, hides, foreign>>

PressRefresh ==
  /\ Click /\ button
  /\ Refresh("plugins", current, jobs, boxes, busy)
  /\ UNCHANGED <<real, admin, auto, hides, foreign>>

SetAuto ==
  /\ boxes = <<>> /\ auto' = ~auto /\ timer' = ~auto
  /\ UNCHANGED <<real, admin, screen, tokens, jobs, boxes, busy, failed, hides, bounds>>

\* mutant of Tick: it does not wait for the button
TickAnyway ==
  /\ timer /\ clicks < MaxClicks /\ clicks' = clicks + 1
  /\ Refresh("tick", current, jobs, boxes, busy)
  /\ UNCHANGED <<real, admin, auto, hides, foreign>>

\* The tick comes round while a box is open, too; it waits while the button is
\* disabled.
Tick ==
  /\ timer /\ button /\ clicks < MaxClicks /\ clicks' = clicks + 1
  /\ Refresh("tick", current, jobs, boxes, busy)
  /\ UNCHANGED <<real, admin, auto, hides, foreign>>

\* The other tab opens a box.
Notice ==
  /\ Click /\ boxes' = <<"notice">>
  /\ UNCHANGED <<real, admin, screen, tokens, jobs, busy, auto, timer, failed, hides, foreign>>

Foreign(f) ==
  /\ foreign < MaxForeign /\ foreign' = foreign + 1
  /\ real' = [real EXCEPT ![f] = ~@]
  /\ UNCHANGED <<admin, screen, tokens, jobs, boxes, busy, auto, timer, failed, hides, clicks>>

-----------------------------------------------------------------------------
(* The threads *)

Becomes(j, changed) == jobs' = (jobs \ {j}) \union {changed}

Switch(j) ==
  /\ j.at = "work" /\ j.key \in Feature
  /\ real' = [real EXCEPT ![j.key] = j.target] /\ real' # real
  /\ UNCHANGED <<admin, screen, tokens, jobs, boxes, busy, auto, timer, failed, hides, bounds>>

HasRead(k, f) == k.key = "refresh" /\ (k.at = "ok" \/ (k.at = "half" /\ f = "fw"))

\* A switch is done; a refresh that is under way has been reading before.
SwitchDone(j) ==
  /\ j.at = "work" /\ j.key \in Feature
  /\ \E how \in {"ok", "blocked", "raised"} :
       /\ how = "ok" => real[j.key] = j.target
       /\ jobs' = {[k EXCEPT !.old = @ \/ HasRead(k, j.key)] : k \in jobs \ {j}}
                    \union {[j EXCEPT !.at = how]}
  /\ UNCHANGED <<real, admin, screen, tokens, boxes, busy, auto, timer, failed, hides, bounds>>

\* get_security_snapshot() asks for the firewall first; a question may stay
\* unanswered.
Ask(j) ==
  /\ j.key = "refresh" /\ j.at \in {"work", "half"}
  /\ LET f == IF j.at = "work" THEN "fw" ELSE "rt" IN
     \/ \E answer \in {Says(real[f]), "unknown"} :
          Becomes(j, [j EXCEPT !.at = IF @ = "work" THEN "half" ELSE "ok", !.read[f] = answer])
     \/ Becomes(j, [j EXCEPT !.at = "raised"])
  /\ UNCHANGED <<real, admin, screen, tokens, boxes, busy, auto, timer, failed, hides, bounds>>

-----------------------------------------------------------------------------
(* Answers *)

Answered == {"ok", "blocked", "raised"}

\* mutant of Listened: any answer is
ListenedAll(j) == TRUE

Listened(j) == current[j.key] = j.id

Drop(j) ==
  /\ j.at \in Answered /\ ~Listened(j)
  /\ jobs' = jobs \ {j}
  /\ UNCHANGED <<real, admin, screen, tokens, boxes, busy, auto, timer, failed, hides, bounds>>

\* _post_apply(): success; the snapshot is read anew.
Applied(j) ==
  /\ j.at = "ok" /\ j.key \in Feature /\ Listened(j)
  /\ Refresh("plugins", [current EXCEPT ![j.key] = 0], jobs \ {j}, boxes, busy - 1)
  /\ UNCHANGED <<real, admin, auto, hides, bounds>>

\* _post_apply() of a failure and _handle_async_failure() open a box first.
Complain(j) ==
  /\ j.at \in {"blocked", "raised"} /\ Listened(j)
  /\ current' = [current EXCEPT ![j.key] = 0] /\ jobs' = jobs \ {j}
  /\ boxes' = Append(boxes, IF j.at = "blocked" THEN "blocked" ELSE "failure")
  /\ UNCHANGED <<real, admin, screen, made, lost, busy, auto, timer, failed, hides, bounds>>

\* _set_states()
SetStates(j) ==
  /\ j.at = "ok" /\ j.key = "refresh" /\ Listened(j)
  /\ current' = [current EXCEPT !["refresh"] = 0] /\ jobs' = jobs \ {j}
  /\ shown' = j.read /\ Enable(admin, j.read)
  /\ busy' = busy - 1 /\ hides' = j.old
  /\ UNCHANGED <<real, admin, made, lost, boxes, auto, timer, failed, bounds>>

\* mutant of AfterFailure: the inputs stay as they are
AfterFailureDisabled == UNCHANGED <<screen, tokens, jobs, timer, failed>> /\ busy' = busy - 1

\* The rest of _handle_async_failure(): the switches stay disabled until a
\* refresh tells the state.
AfterFailure ==
  /\ button' = TRUE /\ switches' = {} /\ busy' = busy - 1
  /\ UNCHANGED <<shown, tokens, jobs, timer, failed>>

\* The user closes the topmost box, and its handler goes on.
CloseBox ==
  /\ boxes # <<>>
  /\ LET below == Front(boxes) IN
     CASE Last(boxes) = "notice" ->
            boxes' = below /\ UNCHANGED <<screen, tokens, jobs, busy, timer, failed>>
       [] Last(boxes) \in {"plugins", "tick"} ->
            /\ Submit("refresh", FALSE, current, jobs, busy)
            /\ boxes' = below /\ UNCHANGED failed
            /\ timer' = (timer \/ (Last(boxes) = "tick" /\ auto))
       [] Last(boxes) = "blocked" -> Refresh("plugins", current, jobs, below, busy - 1)
       [] OTHER -> boxes' = below /\ AfterFailure
  /\ UNCHANGED <<real, admin, auto, hides, bounds>>

Next ==
  \/ PressRefresh \/ SetAuto \/ Tick \/ Notice \/ CloseBox
  \/ \E f \in Feature : Toggle(f) \/ Foreign(f)
  \/ \E j \in jobs :
       \/ Switch(j) \/ SwitchDone(j) \/ Ask(j) \/ Drop(j) \/ Applied(j) \/ Complain(j) \/ SetStates(j)

Spec == Init /\ [][Next]_vars

\* A thread's work ends, the event loop runs, and the user closes a box.
Progress ==
  \/ CloseBox
  \/ \E j \in jobs : SwitchDone(j) \/ Ask(j) \/ Applied(j) \/ Complain(j) \/ SetStates(j)
Fairness == WF_vars(Progress)
FairSpec == Spec /\ Fairness

-----------------------------------------------------------------------------
(* Properties *)

\* While anything can be pressed, nothing that is listened to is at work.
OneAtATime == button \/ switches # {} => \A k \in Key : current[k] = 0

\* The busy messages are those of the jobs that are listened to, of handlers
\* held up by a box, and of jobs that another refresh took the place of, whose
\* messages stay for ever; this wants a plugin list that could not be read.
BusyAccounts ==
  /\ busy = Cardinality({k \in Key : current[k] # 0}) + lost
             + Cardinality({i \in 1..Len(boxes) : boxes[i] \in {"blocked", "failure"}})
  /\ lost > 0 => failed

\* A switch can be pressed only when its state is known, by an administrator.
PressedKnowing == \A f \in switches : admin /\ shown[f] # "unknown"

\* What is shown was not read before a switch that has since been done.
SwitchNotHidden == ~hides

SecurityInv ==
  /\ TypeOK /\ OneAtATime /\ BusyAccounts /\ PressedKnowing /\ SwitchNotHidden

\* The refresh button comes back.
ButtonReturns == []<>button
=============================================================================
