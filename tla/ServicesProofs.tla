--------------------------- MODULE ServicesProofs ---------------------------
(***************************************************************************)
(* The proofs about the components of MCServices with variables of their   *)
(* own, and what its components that are proved about keep where a         *)
(* behaviour may be of any of them: a behaviour of the composition that is *)
(* one of a component's satisfies the component's specification.           *)
(***************************************************************************)
EXTENDS MCServices, TLAPS

-----------------------------------------------------------------------------
(* The boot pipeline *)

(* A process that has not run a setup hosts no plugin. *)
FreshProcess ==
  pc \in {"off", "main"} =>
    loaded = {} /\ disabled = {} /\ violations = {} /\ culprits = {}

(* A process under a persisted failure never records anything, and goes to the
   application with nothing loaded. *)
ForcedIsPassive ==
  /\ forced => pc \notin {"save", "write", "recover"}
  /\ forced /\ pc = "launch" => loaded = {}

(* A recorded failure is on disk, forces the boots that follow, and is not
   being overwritten. *)
KeptIsOnDisk ==
  kept => /\ disk.status = "failed" /\ pc \notin {"save", "write"}
          /\ pc = "main" => forced

(* What is being written is what the boot's plugins did, over what the process
   found, or nothing. *)
RecordPending ==
  /\ pc \in {"save", "write"} => result = record
  /\ pc \in {"main", "save", "write"} => disk \in {NoState, found}
  /\ RecordMatchesBoot

(* Until a recovery replaces the plugins, the ones that failed are known as
   violators; in an application none of them is active. *)
CulpritsKnown ==
  /\ pc \in {"save", "write", "recover"} => culprits \subseteq violations
  /\ pc \in {"launch", "app"} /\ ~direct => Active \cap culprits = {}

BootInv ==
  TypeOK /\ FreshProcess /\ ForcedIsPassive /\ KeptIsOnDisk /\ RecordPending /\ CulpritsKnown

-----------------------------------------------------------------------------
(* What any setup does to the plugin manager. *)
LEMMA SetupEffect ==
  ASSUME disabled \subseteq loaded, violations \subseteq disabled,
         loaded \subseteq Plugin, culprits \subseteq Plugin,
         NEW payload, payload.plugins \subseteq Plugin,
         NEW outcome, Setup(payload, outcome)
  PROVE  /\ loaded' \subseteq Plugin /\ disabled' \subseteq loaded'
         /\ violations' \subseteq disabled' /\ culprits' \subseteq Plugin
  BY DEF Setup

(* A setup without plugins to load, in a process that hosts none, changes
   nothing and is not ended by a plugin. *)
LEMMA EmptySetup ==
  ASSUME loaded = {}, disabled = {}, violations = {}, culprits = {},
         NEW payload, payload.plugins = {},
         NEW outcome, Setup(payload, outcome)
  PROVE  /\ loaded' = {} /\ disabled' = {} /\ violations' = {} /\ culprits' = {}
         /\ outcome # "plugin"
  BY DEF Setup

(* The first setup of a process: the plugins that fail are violators, and
   disabled. *)
LEMMA FirstSetup ==
  ASSUME disabled = {}, violations = {}, culprits = {},
         NEW payload, NEW outcome, Setup(payload, outcome)
  PROVE  culprits' = violations' /\ culprits' = disabled'
  BY DEF Setup

(* A setup whose plugins are no violators leaves no culprit active. *)
LEMMA FilteredSetup ==
  ASSUME culprits \subseteq violations, violations \subseteq disabled,
         NEW payload, payload.plugins \cap violations = {}, payload.kind = "listed",
         NEW outcome, Setup(payload, outcome)
  PROVE  (loaded' \ disabled') \cap culprits' = {}
  BY DEF Setup

LEMMA PayloadIsPlugins ==
  ASSUME BootAssumption, profile \in Profile
  PROVE  /\ Payload.plugins \subseteq Plugin
         /\ forced => Payload.plugins = {} /\ ~Attempted
  BY DEF Payload, Attempted, BootAssumption

-----------------------------------------------------------------------------
LEMMA InitInv == Init => BootInv
  BY DEF Init, BootInv, TypeOK, FreshProcess, ForcedIsPassive, KeptIsOnDisk, RecordPending,
         RecordMatchesBoot, CulpritsKnown, Active, State, NoState

LEMMA FailureIsState ==
  /\ NoState \in State /\ Success \in State
  /\ \A p \in Profile : Failure(p) \in State
                        /\ Failure(p).status = "failed" /\ Failure(p).recovery = p
  /\ NoState.status # "failed" /\ Success.status # "failed"
  /\ \A d \in State : d.status = "failed" => d.recovery \in Profile
<1>1. NoState \in State /\ Success \in State
  BY DEF State
<1>2. ASSUME NEW p \in Profile
      PROVE  /\ Failure(p) \in State
             /\ Failure(p).status = "failed" /\ Failure(p).recovery = p
  <2>1. Failure(p) \in State
    BY DEF State
  <2>2. Failure(p).status = "failed" /\ Failure(p).recovery = p
    BY DEF Failure
  <2> QED BY <2>1, <2>2
<1>3. NoState.status = "none" /\ Success.status = "success"
  BY DEF NoState, Success
<1>4. ASSUME NEW d \in State, d.status = "failed"
      PROVE  d.recovery \in Profile
  <2>1. PICK p \in Profile : d = Failure(p)
    BY <1>3, <1>4 DEF State
  <2> QED BY <1>2, <2>1
<1> QED BY <1>1, <1>2, <1>3, <1>4

LEMMA StepInv ==
  ASSUME BootAssumption, BootInv, [Next]_vars
  PROVE  BootInv'
<1> USE DEF BootInv, RecordMatchesBoot
<1>1. ASSUME NEW p \in Profile, NEW retry \in BOOLEAN, NEW noArgs \in BOOLEAN,
             Boot(p, retry, noArgs)
      PROVE  BootInv'
  <2>1. TypeOK'
    BY <1>1, FailureIsState DEF Boot, Persisted, TypeOK, manager
  <2>2. FreshProcess' /\ ForcedIsPassive' /\ RecordPending' /\ CulpritsKnown'
    BY <1>1 DEF Boot, Persisted, FreshProcess, ForcedIsPassive, RecordPending, CulpritsKnown, manager
  <2>3. KeptIsOnDisk'
    BY <1>1 DEF Boot, Persisted, KeptIsOnDisk
  <2> QED BY <2>1, <2>2, <2>3
<1>2. CASE NoRecipe
  BY <1>2 DEF NoRecipe, TypeOK, FreshProcess, ForcedIsPassive, KeptIsOnDisk, RecordPending,
              CulpritsKnown, process, manager
<1>3. CASE MainSetup
  <2>1. PICK outcome \in {"ok", "failed", "plugin"} :
          /\ Setup(Payload, outcome)
          /\ pc' = CASE outcome = "plugin" -> "save"
                     [] outcome = "failed" -> "console"
                     [] OTHER -> IF Attempted THEN "save" ELSE "launch"
          /\ record' = CASE outcome = "plugin" ->
                              Failure(IF RecoveryOf[profile] = NoProfile THEN profile
                                      ELSE RecoveryOf[profile])
                         [] outcome = "ok" /\ Attempted -> Success
                         [] OTHER -> record
          /\ result' = IF pc' = "save" THEN record' ELSE result
    BY <1>3 DEF MainSetup
  <2>2. /\ pc = "main" /\ recipe' = TRUE
        /\ UNCHANGED <<disk, bare, direct, forced, profile, found, unsaved, kept>>
    BY <1>3 DEF MainSetup
  <2>3. pc' \in {"save", "console", "launch"}
    BY <2>1
  <2>4. /\ loaded' \subseteq Plugin /\ disabled' \subseteq loaded'
        /\ violations' \subseteq disabled' /\ culprits' \subseteq Plugin
    BY <2>1, SetupEffect, PayloadIsPlugins DEF TypeOK
  <2>5. culprits' = violations' /\ culprits' = disabled'
    BY <2>1, <2>2, FirstSetup DEF FreshProcess
  <2>6. ASSUME forced
        PROVE  pc' # "save" /\ loaded' = {}
    <3>1. Payload.plugins = {} /\ ~Attempted
      BY <2>6, PayloadIsPlugins DEF TypeOK
    <3>2. loaded' = {} /\ outcome # "plugin"
      BY <2>1, <2>2, <3>1, EmptySetup DEF FreshProcess
    <3> QED BY <2>1, <3>1, <3>2
  <2>7. record' \in State /\ result' \in State
    <3>1. (IF RecoveryOf[profile] = NoProfile THEN profile ELSE RecoveryOf[profile]) \in Profile
      BY DEF BootAssumption, TypeOK
    <3> QED BY <2>1, <3>1, FailureIsState DEF TypeOK
  <2>8. TypeOK'
    BY <2>2, <2>3, <2>4, <2>7 DEF TypeOK
  <2>9. FreshProcess' /\ ForcedIsPassive' /\ RecordPending'
    BY <2>1, <2>2, <2>3, <2>6 DEF FreshProcess, ForcedIsPassive, RecordPending
  <2>10. KeptIsOnDisk'
    BY <2>2, <2>3, <2>6 DEF KeptIsOnDisk
  <2>11. CulpritsKnown'
    BY <2>2, <2>3, <2>5 DEF CulpritsKnown, Active
  <2> QED BY <2>8, <2>9, <2>10, <2>11
<1>4. CASE Truncate
  BY <1>4, FailureIsState DEF Truncate, TypeOK, FreshProcess, ForcedIsPassive, KeptIsOnDisk,
     RecordPending, CulpritsKnown, process, manager
<1>5. CASE Write
  <2>1. TypeOK'
    BY <1>5, FailureIsState DEF Write, Recorded, TypeOK, manager
  <2>2. FreshProcess' /\ ForcedIsPassive'
    BY <1>5 DEF Write, Recorded, FreshProcess, ForcedIsPassive, manager
  <2>3. RecordPending' /\ KeptIsOnDisk'
    BY <1>5 DEF Write, Recorded, RecordPending, KeptIsOnDisk
  <2>4. CulpritsKnown'
    BY <1>5 DEF Write, Recorded, CulpritsKnown, TypeOK, Active, manager
  <2> QED BY <2>1, <2>2, <2>3, <2>4
<1>15. CASE NotOpened
  <2>1. TypeOK'
    BY <1>15, FailureIsState DEF NotOpened, Recorded, TypeOK, manager
  <2>2. FreshProcess' /\ ForcedIsPassive'
    BY <1>15 DEF NotOpened, Recorded, FreshProcess, ForcedIsPassive, manager
  <2>3. RecordPending' /\ KeptIsOnDisk'
    BY <1>15 DEF NotOpened, Recorded, RecordPending, KeptIsOnDisk
  <2>4. CulpritsKnown'
    BY <1>15 DEF NotOpened, Recorded, CulpritsKnown, TypeOK, Active, manager
  <2> QED BY <2>1, <2>2, <2>3, <2>4
<1>6. CASE RecoverySetup
  <2>1. PICK outcome \in {"ok", "failed", "plugin"} :
          /\ Setup([kind |-> "listed", plugins |-> PluginsOf[profile] \ violations], outcome)
          /\ pc' = IF outcome = "ok" THEN "launch" ELSE "console"
    BY <1>6 DEF RecoverySetup
  <2>2. /\ pc = "recover" /\ recipe' = TRUE
        /\ UNCHANGED <<disk, bare, direct, forced, profile, record, found, unsaved, result, kept>>
    BY <1>6 DEF RecoverySetup
  <2>3. pc' \in {"launch", "console"}
    BY <2>1
  <2> DEFINE payload == [kind |-> "listed", plugins |-> PluginsOf[profile] \ violations]
  <2>4. /\ payload.kind = "listed" /\ payload.plugins \cap violations = {}
        /\ payload.plugins \subseteq Plugin
    BY DEF BootAssumption, TypeOK
  <2>5. Setup(payload, outcome)
    BY <2>1
  <2> HIDE DEF payload
  <2>6. /\ loaded' \subseteq Plugin /\ disabled' \subseteq loaded'
        /\ violations' \subseteq disabled' /\ culprits' \subseteq Plugin
    BY <2>4, <2>5, SetupEffect DEF TypeOK
  <2>7. (loaded' \ disabled') \cap culprits' = {}
    BY <2>2, <2>4, <2>5, FilteredSetup DEF CulpritsKnown, TypeOK
  <2>8. TypeOK'
    BY <2>2, <2>3, <2>6 DEF TypeOK
  <2>9. FreshProcess' /\ ForcedIsPassive' /\ RecordPending' /\ KeptIsOnDisk'
    BY <2>2, <2>3 DEF FreshProcess, ForcedIsPassive, RecordPending, KeptIsOnDisk
  <2>10. CulpritsKnown'
    BY <2>3, <2>7 DEF CulpritsKnown, Active
  <2> QED BY <2>8, <2>9, <2>10
<1>7. CASE Launch
  BY <1>7 DEF Launch, TypeOK, FreshProcess, ForcedIsPassive, KeptIsOnDisk, RecordPending,
              CulpritsKnown, Active, process, manager
<1>8. CASE Console
  <2>1. /\ pc = "console" /\ pc' = "exit"
        /\ UNCHANGED <<disk, process, result, kept>>
    BY <1>8 DEF Console
  <2>2. /\ loaded' \subseteq Plugin /\ disabled' \subseteq loaded'
        /\ violations' \subseteq disabled' /\ culprits' \subseteq Plugin
    <3>1. CASE ~(HasStages[profile] /\ recipe)
      BY <1>8, <3>1 DEF Console, manager, TypeOK
    <3>2. CASE HasStages[profile] /\ recipe
      <4> DEFINE payload == [kind |-> "listed", plugins |-> PluginsOf[profile]]
      <4>1. payload.plugins \subseteq Plugin
        BY DEF BootAssumption, TypeOK
      <4>2. PICK outcome \in {"ok", "failed", "plugin"} : Setup(payload, outcome)
        BY <1>8, <3>2 DEF Console
      <4> HIDE DEF payload
      <4> QED BY <4>1, <4>2, SetupEffect DEF TypeOK
    <3> QED BY <3>1, <3>2
  <2>3. TypeOK'
    BY <2>1, <2>2 DEF TypeOK, process
  <2>4. FreshProcess' /\ ForcedIsPassive' /\ RecordPending' /\ KeptIsOnDisk' /\ CulpritsKnown'
    BY <2>1 DEF FreshProcess, ForcedIsPassive, RecordPending, KeptIsOnDisk, CulpritsKnown, process
  <2> QED BY <2>3, <2>4
<1>9. ASSUME pc' = "off", NoProcess, UNCHANGED <<disk, result, kept>>, pc # "off"
      PROVE  BootInv'
  <2>1. TypeOK'
    BY <1>9, FailureIsState DEF NoProcess, TypeOK
  <2>2. FreshProcess' /\ ForcedIsPassive' /\ RecordPending' /\ CulpritsKnown'
    BY <1>9 DEF NoProcess, FreshProcess, ForcedIsPassive, RecordPending, CulpritsKnown
  <2>3. KeptIsOnDisk'
    BY <1>9 DEF KeptIsOnDisk
  <2> QED BY <2>1, <2>2, <2>3
<1>10. CASE Exit
  <2>1. CASE bare
    BY <1>10, <2>1 DEF Exit, TypeOK, FreshProcess, ForcedIsPassive, KeptIsOnDisk, RecordPending,
                       CulpritsKnown, manager
  <2>2. CASE ~bare
    BY <1>9, <1>10, <2>2 DEF Exit
  <2> QED BY <2>1, <2>2
<1>11. CASE AppEnds
  <2>1. CASE pc' = "console" /\ UNCHANGED <<process, manager>>
    BY <1>11, <2>1 DEF AppEnds, TypeOK, FreshProcess, ForcedIsPassive, KeptIsOnDisk, RecordPending,
                       CulpritsKnown, process, manager
  <2>2. CASE pc' = "off" /\ NoProcess
    BY <1>9, <1>11, <2>2 DEF AppEnds
  <2> QED BY <1>11, <2>1, <2>2 DEF AppEnds
<1>12. CASE EnablePlugins
  BY <1>12, FailureIsState DEF EnablePlugins, TypeOK, FreshProcess, ForcedIsPassive, KeptIsOnDisk,
     RecordPending, CulpritsKnown, Active, process, manager
<1>13. CASE Crash
  BY <1>9, <1>13 DEF Crash
<1>14. CASE UNCHANGED vars
  BY <1>14 DEF vars, TypeOK, FreshProcess, ForcedIsPassive, KeptIsOnDisk, RecordPending,
               CulpritsKnown, Active, process, manager
<1> QED BY <1>1, <1>2, <1>3, <1>4, <1>5, <1>6, <1>7, <1>8, <1>10, <1>11, <1>12, <1>13,
          <1>14, <1>15 DEF Next

LEMMA BootInvariant == ASSUME BootAssumption PROVE Spec => []BootInv
  BY InitInv, StepInv, PTL DEF Spec

-----------------------------------------------------------------------------
(* Every reachable state of the pipeline has its type; among others, plugins
   with a violation are disabled, and only loaded ones are. *)
THEOREM BootTyping == ASSUME BootAssumption PROVE Spec => []TypeOK
  BY BootInvariant, PTL DEF BootInv

(* A recorded plugin failure stays recorded, and keeps boots from loading a
   plugin on their way to the application, until it is pardoned. *)
THEOREM RecordedFailureStays == ASSUME BootAssumption PROVE Spec => []FailureStays
<1>1. BootInv => FailureStays
  BY DEF BootInv, FailureStays, FreshProcess, ForcedIsPassive, KeptIsOnDisk
<1> QED BY <1>1, BootInvariant, PTL

(* Past the writing of the record the file says what the boot's plugins did; of
   a boot that could not write, what it found or nothing. *)
THEOREM RecordIsOfTheBoot == ASSUME BootAssumption PROVE Spec => []RecordMatchesBoot
<1>1. BootInv => RecordMatchesBoot
  BY DEF BootInv, RecordPending
<1> QED BY <1>1, BootInvariant, PTL

(* The application the pipeline launches has no active plugin that failed. *)
THEOREM CulpritsStayOut == ASSUME BootAssumption PROVE Spec => []NoCulpritInApp
<1>1. BootInv => NoCulpritInApp
  BY DEF BootInv, NoCulpritInApp, CulpritsKnown
<1> QED BY <1>1, BootInvariant, PTL

-----------------------------------------------------------------------------
(* Requests for a protection *)

\* A request may be in state n; what it says of a result is for its step.
May(n) == n \in ReqState /\ Sound(n) /\ (n.result = "blocked" => n.named # {})
Fits(n) == May(n) /\ n.saw = "-"
Quiet(n) == Fits(n) /\ n.result # "ok"

\* What a step of a request leaves of the rest.
Around(r) ==
  /\ UNCHANGED <<feature, machine, foreign>>
  /\ on' \in BOOLEAN /\ onRecord' \in BOOLEAN /\ copied' \in SUBSET BOOLEAN /\ service' \in BOOLEAN
  /\ touched' \in BOOLEAN /\ (touched' => machine.admin)
  /\ moved' \in SUBSET Requester
  /\ \A x \in Requester \ {r} :
       x \notin moved' => x \notin moved /\ on' = on /\ onRecord' = onRecord /\ copied \subseteq copied'

LEMMA OneSteps ==
  ASSUME SwitchAssumption, SwitchInv, NEW r \in Requester, NEW n, To(r, n), May(n), Around(r),
         n.saw = "match" => r \in moved' \/ on' = n.want \/ (Mac /\ (onRecord' = n.want \/ n.want \in copied')),
         n.result = "ok" => r \in moved \/ Shows(req[r].want)
  PROVE  SwitchInv' /\ HonestStep
<1>1. req' \in [Requester -> ReqState] /\ req'[r] = n /\ \A x \in Requester \ {r} : req'[x] = req[x]
  BY DEF To, SwitchInv, SwitchTypeOK, May
<1>2. SwitchTypeOK'
  BY <1>1 DEF SwitchInv, SwitchTypeOK, Around
<1>3. \A x \in Requester : Sound(req'[x])
  BY <1>1 DEF SwitchInv, May
<1>4. (\A x \in Requester : Sound(req[x]))'
  BY <1>3 DEF Sound, Windows, Mac, Around
<1>5. ASSUME NEW x \in Requester
      PROVE  Holds(x)'
  <2>1. CASE x = r
    BY <1>1, <2>1 DEF Holds, Shows, Mac, Around
  <2>2. CASE x # r
    <3>1. Holds(x) /\ req'[x] = req[x]
      BY <1>1, <2>2 DEF SwitchInv
    <3>2. x \in moved' \/ (x \notin moved /\ on' = on /\ onRecord' = onRecord /\ copied \subseteq copied' /\ machine' = machine)
      BY <2>2 DEF Around
    <3> QED
      BY <3>1, <3>2 DEF Holds, Shows, Mac
  <2> QED
    BY <2>1, <2>2
<1>6. HonestStep
  BY <1>1 DEF HonestStep, May, Around
<1> QED
  BY <1>2, <1>4, <1>5, <1>6 DEF SwitchInv, Around

LEMMA OneGoes ==
  ASSUME SwitchAssumption, SwitchInv, NEW r \in Requester, NEW n, To(r, n), Fits(n), Around(r),
         n.result = "ok" => r \in moved \/ Shows(req[r].want)
  PROVE  SwitchInv' /\ HonestStep
  BY OneSteps DEF Fits

\* What the operators make of the state of a request that is not done.
Live(s) ==
  s \in ReqState /\ s.result = "none" /\ s.saw = "-" /\ ~s.due /\ (s.kind = "tool" => Windows /\ machine.admin)

LEMMA Gone ==
  ASSUME NEW s, Live(s), NEW place \in Place \ Check,
         machine.admin \/ place \in {"gate", "done"} \/ (Mac /\ place = "tool"),
         place \in {"idle", "gate"} => s.tries = 0, place \in {"service", "command"} => s.tries <= 1
  PROVE  Quiet(Go(s, place))
<1>1. /\ Go(s, place) \in ReqState /\ Go(s, place).pc = place /\ Go(s, place).result = "none"
      /\ Go(s, place).saw = "-" /\ ~Go(s, place).due
  BY DEF Live, ReqState, Go
<1>2. Go(s, place).kind = s.kind /\ Go(s, place).tries = s.tries
  BY DEF Live, ReqState, Go
<1>3. Sound(Go(s, place))
  BY <1>1, <1>2 DEF Live, Sound, Check
<1> QED
  BY <1>1, <1>3 DEF Quiet, Fits, May

LEMMA Ended ==
  ASSUME NEW s, Live(s), NEW how \in {"ok", "blocked", "raised"}, how = "blocked" => s.named # {}
  PROVE  Fits(End(s, how)) /\ End(s, how).result = how
<1>1. End(s, how) \in ReqState /\ End(s, how).pc = "done" /\ End(s, how).result = how
  BY DEF Live, ReqState, End, Place
<1>2. /\ End(s, how).kind = s.kind /\ End(s, how).named = s.named
      /\ End(s, how).saw = "-" /\ ~End(s, how).due
  BY DEF Live, ReqState, End
<1>3. Sound(End(s, how))
  BY <1>1, <1>2 DEF Live, Sound, Check
<1> QED
  BY <1>1, <1>2, <1>3 DEF Fits, May

LEMMA Polled ==
  ASSUME SwitchAssumption, NEW s, Live(s), NEW place \in Check \ {"checkMac"}, machine.admin
  PROVE  Quiet(Poll(s, place))
<1>1. Looks \in 0..Looks /\ Looks # 0 /\ place \in Place
  BY DEF SwitchAssumption, Place
<1>2. Poll(s, place) \in ReqState /\ Poll(s, place).pc = place /\ Poll(s, place).left = Looks
  BY <1>1 DEF Live, ReqState, Poll
<1>3. /\ Poll(s, place).kind = s.kind /\ Poll(s, place).result = "none"
      /\ Poll(s, place).saw = "-" /\ ~Poll(s, place).due
  BY DEF Live, ReqState, Poll
<1>4. Sound(Poll(s, place))
  BY <1>1, <1>2, <1>3 DEF Live, Sound, Check
<1> QED
  BY <1>2, <1>3, <1>4 DEF Quiet, Fits, May

LEMMA Named ==
  ASSUME NEW s, Live(s), NEW why \in SUBSET (Barrier \union {"gate", "unknown"})
  PROVE  /\ Live(Naming(s, why)) /\ Naming(s, why).named = why
         /\ Naming(s, why).kind = s.kind /\ Naming(s, why).tries = s.tries
<1>1. /\ Naming(s, why) \in ReqState /\ Naming(s, why).kind = s.kind /\ Naming(s, why).named = why
      /\ Naming(s, why).tries = s.tries /\ Naming(s, why).result = s.result
      /\ Naming(s, why).saw = s.saw /\ Naming(s, why).due = s.due
  BY DEF Live, ReqState, Naming
<1> QED
  BY <1>1 DEF Live

LEMMA Retried ==
  ASSUME NEW s, Live(s), s.tries <= 1
  PROVE  Live(Again(s)) /\ Again(s).tries = s.tries + 1
<1>1. Again(s) \in ReqState /\ Again(s).kind = s.kind
  BY DEF Live, ReqState, Again
<1>2. /\ Again(s).tries = s.tries + 1 /\ Again(s).result = s.result
      /\ Again(s).saw = s.saw /\ Again(s).due = s.due
  BY DEF Live, ReqState, Again
<1> QED
  BY <1>1, <1>2 DEF Live

LEMMA Served ==
  ASSUME NEW s, Live(s), NEW why \in SUBSET {"services"}, machine.admin
  PROVE  Quiet(Driven(s, why))
<1> DEFINE told == s.named \union why
<1>0. told \in SUBSET (Barrier \union {"gate", "unknown"}) /\ Driven(s, why) = [s EXCEPT !.pc = "command", !.tries = 0, !.named = told]
  BY DEF Live, ReqState, Driven, Barrier
<1> HIDE DEF told
<1>. 0 \in 0..2 /\ "command" \in Place
  BY DEF Place
<1>1. Driven(s, why) \in ReqState /\ Driven(s, why).pc = "command" /\ Driven(s, why).tries = 0
  BY <1>0 DEF Live, ReqState
<1>2. /\ Driven(s, why).kind = s.kind /\ Driven(s, why).result = "none"
      /\ Driven(s, why).saw = "-" /\ ~Driven(s, why).due
  BY <1>0 DEF Live, ReqState
<1>3. Sound(Driven(s, why))
  BY <1>1, <1>2 DEF Live, Sound, Check
<1> QED
  BY <1>1, <1>2, <1>3 DEF Quiet, Fits, May

LEMMA Unserved ==
  ASSUME NEW s, Live(s), machine.admin
  PROVE  Quiet(NotDriven(s))
<1> DEFINE why == s.named \union {"services"}
           told == Naming(s, why)
<1>1. why \in SUBSET (Barrier \union {"gate", "unknown"})
  BY DEF Live, ReqState, Barrier
<1> HIDE DEF why
<1>2. Live(told) /\ told.tries = s.tries
  BY <1>1, Named
<1> HIDE DEF told
<1>3. ASSUME s.tries = 0
      PROVE  Quiet(Go(Again(told), "service"))
  <2>1. Live(Again(told)) /\ Again(told).tries = 1
    BY <1>2, <1>3, Retried
  <2> QED
    BY <2>1, Gone DEF Place, Check
<1>4. Quiet(Driven(told, {}))
  BY <1>2, Served
<1> QED
  BY <1>3, <1>4 DEF NotDriven, told, why

LEMMA Blocked ==
  ASSUME NEW s, Live(s), NEW why \in SUBSET (Barrier \union {"gate", "unknown"}), why # {}
  PROVE  Quiet(End(Naming(s, why), "blocked"))
  BY Named, Ended DEF Quiet

LEMMA ControlEnds ==
  ASSUME SwitchAssumption, NEW s, Live(s), machine.admin
  PROVE  Fits(ControlOk(s))
  BY Ended, Polled DEF ControlOk, Quiet, Check

LEMMA ControlStops ==
  ASSUME SwitchAssumption, NEW s, Live(s), machine.admin,
         NEW why \in SUBSET (Barrier \union {"gate", "unknown"}), why # {}
  PROVE  Quiet(ControlBlocked(s, why))
<1> DEFINE told == s.named \union why
<1>1. told \in SUBSET (Barrier \union {"gate", "unknown"}) /\ told # {}
  BY DEF Live, ReqState
<1> HIDE DEF told
<1>2. Live(Naming(s, told)) /\ Naming(s, told).named = told /\ Naming(s, told).kind = s.kind
  BY <1>1, Named
<1>3. Quiet(Poll(Naming(s, told), "checkMasterLast"))
  BY <1>2, Polled DEF Check
<1>4. Quiet(End(Naming(s, told), "blocked"))
  BY <1>1, Blocked
<1> QED
  BY <1>2, <1>3, <1>4 DEF ControlBlocked, told

LEMMA ToolEnds ==
  ASSUME SwitchAssumption, NEW s, Live(s), machine.admin
  PROVE  Fits(ToolOk(s))
  BY Ended, Polled DEF ToolOk, Quiet, Check

LEMMA ToolStops ==
  ASSUME SwitchAssumption, NEW s, Live(s), machine.admin \/ Mac
  PROVE  Quiet(ToolFails(s))
<1>1. Quiet(End(Naming(s, {"unknown"}), "blocked"))
  BY Blocked
<1>2. ASSUME s.kind # "tool", ~Mac
      PROVE  Quiet(Poll(s, "checkLast"))
  BY <1>2, Polled DEF Check
<1> QED
  BY <1>1, <1>2 DEF ToolFails

LEMMA Matched ==
  ASSUME SwitchAssumption, NEW s, Live(s), machine.admin \/ s.pc = "checkMac"
  PROVE  Fits(OnMatch(s))
<1>1. Fits(End(s, "ok")) /\ (machine.admin => Fits(ControlOk(s)) /\ Fits(ToolOk(s)))
  BY ControlEnds, ToolEnds, Ended
<1> QED
  BY <1>1 DEF OnMatch

LEMMA Missed ==
  ASSUME SwitchAssumption, NEW s, Live(s), s.pc \in Check, machine.admin \/ (Mac /\ s.pc = "checkMac")
  PROVE  Quiet(OnMiss(s))
<1>1. ASSUME machine.admin
      PROVE  /\ Quiet(ToolFails(s)) /\ Quiet(Poll(s, "checkLast")) /\ Quiet(Poll(s, "checkMasterLast"))
             /\ Quiet(Go(s, "registry")) /\ Quiet(Go(s, "collect")) /\ Quiet(Go(s, "collectMaster"))
             /\ Quiet(Go(s, "set"))
  BY <1>1, ToolStops, Polled, Gone DEF Place, Check
<1>2. s.tries \in 0..2
  BY DEF Live, ReqState
<1>3. ASSUME machine.admin
      PROVE  Quiet(Go(s, IF s.tries < 2 THEN "command" ELSE "tool"))
  BY <1>2, <1>3, Gone DEF Place, Check
<1>4. ASSUME s.pc = "checkMac", machine.admin \/ Mac
      PROVE  Quiet(Go(s, "tool"))
  BY <1>4, Gone DEF Place, Check
<1> QED
  BY <1>1, <1>3, <1>4 DEF OnMiss

LEMMA OnceMore ==
  ASSUME SwitchAssumption, NEW s, Live(s), NEW place \in Check, machine.admin \/ place = "checkMac",
         place = "checkMac" => Mac
  PROVE  Quiet(Once(s, place))
<1>1. 1 \in 0..Looks /\ place \in Place
  BY DEF SwitchAssumption, Place
<1>2. Once(s, place) \in ReqState /\ Once(s, place).pc = place /\ Once(s, place).left = 1
  BY <1>1 DEF Live, ReqState, Once
<1>3. /\ Once(s, place).kind = s.kind /\ Once(s, place).result = "none"
      /\ Once(s, place).saw = "-" /\ ~Once(s, place).due
  BY DEF Live, ReqState, Once
<1>4. Sound(Once(s, place))
  BY <1>1, <1>2, <1>3 DEF Live, Sound, Check
<1> QED
  BY <1>2, <1>3, <1>4 DEF Quiet, Fits, May

LEMMA Waited ==
  ASSUME SwitchAssumption, NEW s, Live(s), Sound(s), s.left > 1
  PROVE  Quiet(Waits(s))
<1>1. s.left - 1 \in 0..Looks /\ s.left - 1 # 0
  BY DEF Live, ReqState, SwitchAssumption
<1>2. Waits(s) \in ReqState /\ Waits(s).pc = s.pc /\ Waits(s).left = s.left - 1
  BY <1>1 DEF Live, ReqState, Waits
<1>3. /\ Waits(s).kind = s.kind /\ Waits(s).result = "none" /\ Waits(s).tries = s.tries
      /\ Waits(s).saw = "-" /\ ~Waits(s).due
  BY DEF Live, ReqState, Waits
<1>4. Sound(Waits(s))
  BY <1>1, <1>2, <1>3 DEF Live, Sound
<1> QED
  BY <1>2, <1>3, <1>4 DEF Quiet, Fits, May

LEMMA BeginGoes ==
  ASSUME SwitchAssumption, SwitchInv, NEW r \in Requester, Begin(r)
  PROVE  SwitchInv' /\ HonestStep
<1> DEFINE s == req[r]
<1>1. s \in ReqState /\ Sound(s) /\ SwitchTypeOK
  BY DEF SwitchInv, SwitchTypeOK
<1>5. Live(s) /\ s.pc = "idle"
  BY <1>1 DEF Begin, At, Sound, Check, Live
<1>2. Around(r)
  BY <1>1, <1>5 DEF Around, Begin, SwitchInv, SwitchTypeOK, ReqState
<1>7. ASSUME To(r, Go(s, IF s.kind = "tool" THEN "tool" ELSE "gate"))
     PROVE  SwitchInv' /\ HonestStep
  <2>1. Quiet(Go(s, IF s.kind = "tool" THEN "tool" ELSE "gate"))
    BY <1>1, <1>5, <1>7, Gone DEF Place, Check, Live, Sound
  <2> QED
    BY <1>2, <2>1, <1>7, OneGoes DEF Quiet
<1> QED
  BY <1>1, <1>7 DEF Begin

LEMMA MacGateGoes ==
  ASSUME SwitchAssumption, SwitchInv, NEW r \in Requester, MacGate(r)
  PROVE  SwitchInv' /\ HonestStep
<1> DEFINE s == req[r]
<1>1. s \in ReqState /\ Sound(s) /\ SwitchTypeOK
  BY DEF SwitchInv, SwitchTypeOK
<1>5. Live(s) /\ s.pc = "gate" /\ Mac
  BY <1>1 DEF MacGate, At, Sound, Check, Live
<1>2. Around(r)
  BY <1>1, <1>5 DEF Around, MacGate, SwitchInv, SwitchTypeOK, ReqState
<1>3. Quiet(Once(s, "checkMac"))
  BY <1>5, OnceMore DEF Check
<1> QED
  BY <1>2, <1>3, OneGoes DEF MacGate, Quiet

LEMMA GateGoes ==
  ASSUME SwitchAssumption, SwitchInv, NEW r \in Requester, Gate(r)
  PROVE  SwitchInv' /\ HonestStep
<1> DEFINE s == req[r]
<1>1. s \in ReqState /\ Sound(s) /\ SwitchTypeOK
  BY DEF SwitchInv, SwitchTypeOK
<1>5. Live(s) /\ s.pc = "gate"
  BY <1>1 DEF Gate, At, Sound, Check, Live
<1>2. Around(r)
  BY <1>1, <1>5 DEF Around, Gate, SwitchInv, SwitchTypeOK, ReqState
<1>7. ASSUME To(r, End(Naming(s, {"gate"}), "blocked"))
     PROVE  SwitchInv' /\ HonestStep
  <2>1. Quiet(End(Naming(s, {"gate"}), "blocked"))
    BY <1>1, <1>5, <1>7, Blocked
  <2> QED
    BY <1>2, <2>1, <1>7, OneGoes DEF Quiet
<1>8. ASSUME To(r, Go(s, IF s.kind = "master" THEN "service" ELSE "command")), machine.admin
     PROVE  SwitchInv' /\ HonestStep
  <2>1. Quiet(Go(s, IF s.kind = "master" THEN "service" ELSE "command"))
    BY <1>1, <1>5, <1>8, Gone DEF Place, Check, Live, Sound
  <2> QED
    BY <1>2, <2>1, <1>8, OneGoes DEF Quiet
<1> QED
  BY <1>1, <1>7, <1>8 DEF Gate

LEMMA DriveServiceGoes ==
  ASSUME SwitchAssumption, SwitchInv, NEW r \in Requester, DriveService(r)
  PROVE  SwitchInv' /\ HonestStep
<1> DEFINE s == req[r]
<1>1. s \in ReqState /\ Sound(s) /\ SwitchTypeOK
  BY DEF SwitchInv, SwitchTypeOK
<1>5. Live(s) /\ s.pc = "service" /\ machine.admin
  BY <1>1 DEF DriveService, At, Sound, Check, Live
<1>2. Around(r)
  BY <1>1, <1>5 DEF Around, DriveService, SwitchInv, SwitchTypeOK, ReqState
<1>7. ASSUME NEW why \in SUBSET {"services"}, To(r, Driven(s, why))
     PROVE  SwitchInv' /\ HonestStep
  <2>1. Quiet(Driven(s, why))
    BY <1>1, <1>5, <1>7, Served
  <2> QED
    BY <1>2, <2>1, <1>7, OneGoes DEF Quiet
<1>8. ASSUME To(r, End(s, "raised"))
     PROVE  SwitchInv' /\ HonestStep
  <2>1. Quiet(End(s, "raised"))
    BY <1>1, <1>5, <1>8, Ended DEF Quiet
  <2> QED
    BY <1>2, <2>1, <1>8, OneGoes DEF Quiet
<1>9. ASSUME To(r, NotDriven(s))
     PROVE  SwitchInv' /\ HonestStep
  <2>1. Quiet(NotDriven(s))
    BY <1>1, <1>5, <1>9, Unserved
  <2> QED
    BY <1>2, <2>1, <1>9, OneGoes DEF Quiet
<1> QED
  BY <1>1, <1>7, <1>8, <1>9 DEF DriveService

LEMMA CommandGoes ==
  ASSUME SwitchAssumption, SwitchInv, NEW r \in Requester, Command(r)
  PROVE  SwitchInv' /\ HonestStep
<1> DEFINE s == req[r]
<1>1. s \in ReqState /\ Sound(s) /\ SwitchTypeOK
  BY DEF SwitchInv, SwitchTypeOK
<1>5. Live(s) /\ s.pc = "command" /\ machine.admin
  BY <1>1 DEF Command, At, Sound, Check, Live
<1>2. Around(r)
  BY <1>1, <1>5 DEF Around, Command, SwitchInv, SwitchTypeOK, ReqState, Disturbs
<1>7. ASSUME To(r, Poll(Again(s), "checkCommand"))
     PROVE  SwitchInv' /\ HonestStep
  <2>1. Quiet(Poll(Again(s), "checkCommand"))
    BY <1>1, <1>5, <1>7, Retried, Polled DEF Check, Sound
  <2> QED
    BY <1>2, <2>1, <1>7, OneGoes DEF Quiet
<1>8. ASSUME To(r, Go(s, "tool"))
     PROVE  SwitchInv' /\ HonestStep
  <2>1. Quiet(Go(s, "tool"))
    BY <1>1, <1>5, <1>8, Gone DEF Place, Check
  <2> QED
    BY <1>2, <2>1, <1>8, OneGoes DEF Quiet
<1>9. ASSUME To(r, End(s, "raised"))
     PROVE  SwitchInv' /\ HonestStep
  <2>1. Quiet(End(s, "raised"))
    BY <1>1, <1>5, <1>9, Ended DEF Quiet
  <2> QED
    BY <1>2, <2>1, <1>9, OneGoes DEF Quiet
<1> QED
  BY <1>1, <1>7, <1>8, <1>9 DEF Command

LEMMA ToolGoes ==
  ASSUME SwitchAssumption, SwitchInv, NEW r \in Requester, RunTool(r)
  PROVE  SwitchInv' /\ HonestStep
<1> DEFINE s == req[r]
<1>1. s \in ReqState /\ Sound(s) /\ SwitchTypeOK
  BY DEF SwitchInv, SwitchTypeOK
<1>5. Live(s) /\ s.pc = "tool" /\ ~Mac /\ machine.admin
  BY <1>1 DEF RunTool, At, Sound, Check, Live
<1>2. Around(r)
  BY <1>1, <1>5 DEF Around, RunTool, SwitchInv, SwitchTypeOK, ReqState, Diagnosed
<1>7. ASSUME To(r, ToolFails(s))
     PROVE  SwitchInv' /\ HonestStep
  <2>1. Quiet(ToolFails(s))
    BY <1>1, <1>5, <1>7, ToolStops
  <2> QED
    BY <1>2, <2>1, <1>7, OneGoes DEF Quiet
<1>8. ASSUME To(r, Once(s, "checkNow"))
     PROVE  SwitchInv' /\ HonestStep
  <2>1. Quiet(Once(s, "checkNow"))
    BY <1>5, OnceMore DEF Check
  <2> QED
    BY <1>2, <2>1, <1>8, OneGoes DEF Quiet
<1> QED
  BY <1>1, <1>7, <1>8 DEF RunTool

LEMMA MacToolGoes ==
  ASSUME SwitchAssumption, SwitchInv, NEW r \in Requester, MacTool(r)
  PROVE  SwitchInv' /\ HonestStep
<1> DEFINE s == req[r]
<1>1. s \in ReqState /\ Sound(s) /\ SwitchTypeOK
  BY DEF SwitchInv, SwitchTypeOK
<1>5. Live(s) /\ s.pc = "tool" /\ Mac
  BY <1>1 DEF MacTool, At, Sound, Check, Live
<1>2. Around(r)
  BY <1>1, <1>5 DEF Around, MacTool, SwitchInv, SwitchTypeOK, ReqState
<1>7. ASSUME To(r, ToolFails(s))
     PROVE  SwitchInv' /\ HonestStep
  <2>1. Quiet(ToolFails(s))
    BY <1>1, <1>5, <1>7, ToolStops
  <2> QED
    BY <1>2, <2>1, <1>7, OneGoes DEF Quiet
<1>8. ASSUME To(r, Go(s, "set")), machine.admin
     PROVE  SwitchInv' /\ HonestStep
  <2>1. Quiet(Go(s, "set"))
    BY <1>1, <1>5, <1>8, Gone DEF Place, Check
  <2> QED
    BY <1>2, <2>1, <1>8, OneGoes DEF Quiet
<1> QED
  BY <1>1, <1>7, <1>8 DEF MacTool

LEMMA ToolSetGoes ==
  ASSUME SwitchAssumption, SwitchInv, NEW r \in Requester, ToolSet(r)
  PROVE  SwitchInv' /\ HonestStep
<1> DEFINE s == req[r]
<1>1. s \in ReqState /\ Sound(s) /\ SwitchTypeOK
  BY DEF SwitchInv, SwitchTypeOK
<1>5. Live(s) /\ s.pc = "set" /\ machine.admin
  BY <1>1 DEF ToolSet, At, Sound, Check, Live
<1>2. Around(r)
  BY <1>1, <1>5 DEF Around, ToolSet, SwitchInv, SwitchTypeOK, ReqState, Disturbs
<1>7. ASSUME To(r, Poll(s, "checkTool"))
     PROVE  SwitchInv' /\ HonestStep
  <2>1. Quiet(Poll(s, "checkTool"))
    BY <1>1, <1>5, <1>7, Polled DEF Check
  <2> QED
    BY <1>2, <2>1, <1>7, OneGoes DEF Quiet
<1>8. ASSUME To(r, ToolFails(s))
     PROVE  SwitchInv' /\ HonestStep
  <2>1. Quiet(ToolFails(s))
    BY <1>1, <1>5, <1>8, ToolStops
  <2> QED
    BY <1>2, <2>1, <1>8, OneGoes DEF Quiet
<1> QED
  BY <1>1, <1>7, <1>8 DEF ToolSet

LEMMA MacSetGoes ==
  ASSUME SwitchAssumption, SwitchInv, NEW r \in Requester, MacSet(r)
  PROVE  SwitchInv' /\ HonestStep
<1> DEFINE s == req[r]
<1>1. s \in ReqState /\ Sound(s) /\ SwitchTypeOK
  BY DEF SwitchInv, SwitchTypeOK
<1>5. Live(s) /\ s.pc = "set" /\ machine.admin
  BY <1>1 DEF MacSet, At, Sound, Check, Live
<1>2. Around(r)
  BY <1>1, <1>5 DEF Around, MacSet, SwitchInv, SwitchTypeOK, ReqState, Disturbs
<1>7. ASSUME To(r, Once(s, "checkTool"))
     PROVE  SwitchInv' /\ HonestStep
  <2>1. Quiet(Once(s, "checkTool"))
    BY <1>1, <1>5, <1>7, OnceMore DEF Check
  <2> QED
    BY <1>2, <2>1, <1>7, OneGoes DEF Quiet
<1>8. ASSUME To(r, ToolFails(s))
     PROVE  SwitchInv' /\ HonestStep
  <2>1. Quiet(ToolFails(s))
    BY <1>1, <1>5, <1>8, ToolStops
  <2> QED
    BY <1>2, <2>1, <1>8, OneGoes DEF Quiet
<1> QED
  BY <1>1, <1>7, <1>8 DEF MacSet

LEMMA RegistryGoes ==
  ASSUME SwitchAssumption, SwitchInv, NEW r \in Requester, Registry(r)
  PROVE  SwitchInv' /\ HonestStep
<1> DEFINE s == req[r]
<1>1. s \in ReqState /\ Sound(s) /\ SwitchTypeOK
  BY DEF SwitchInv, SwitchTypeOK
<1>5. Live(s) /\ s.pc = "registry" /\ machine.admin
  BY <1>1 DEF Registry, At, Sound, Check, Live
<1>2. Around(r)
  BY <1>1, <1>5 DEF Around, Registry, SwitchInv, SwitchTypeOK, ReqState, Disturbs
<1>7. ASSUME To(r, Once(s, "checkRegistry"))
     PROVE  SwitchInv' /\ HonestStep
  <2>1. Quiet(Once(s, "checkRegistry"))
    BY <1>1, <1>5, <1>7, OnceMore DEF Check
  <2> QED
    BY <1>2, <2>1, <1>7, OneGoes DEF Quiet
<1>8. ASSUME To(r, ToolFails(s))
     PROVE  SwitchInv' /\ HonestStep
  <2>1. Quiet(ToolFails(s))
    BY <1>1, <1>5, <1>8, ToolStops
  <2> QED
    BY <1>2, <2>1, <1>8, OneGoes DEF Quiet
<1> QED
  BY <1>1, <1>7, <1>8 DEF Registry

LEMMA LookGoes ==
  ASSUME SwitchAssumption, SwitchInv, NEW r \in Requester, Look(r)
  PROVE  SwitchInv' /\ HonestStep
<1> DEFINE s == req[r]
<1>1. s \in ReqState /\ Sound(s) /\ SwitchTypeOK /\ s.pc \in Check /\ s.result = "none"
  BY DEF SwitchInv, SwitchTypeOK, Look, Sound, Check
<1>2. Around(r) /\ UNCHANGED <<on, onRecord, machine>> /\ copied \subseteq copied'
  BY <1>1 DEF Around, Look, SwitchInv, SwitchTypeOK
<1>3. PICK answer \in {"unknown", "match", "miss"}, due \in BOOLEAN :
         /\ answer = "match" => Shows(s.want)
         /\ To(r, [s EXCEPT !.saw = answer, !.due = due])
  BY DEF Look
<1> DEFINE n == [s EXCEPT !.saw = answer, !.due = due]
<1>4. /\ n \in ReqState /\ n.pc = s.pc /\ n.result = "none" /\ n.kind = s.kind /\ n.left = s.left
      /\ n.tries = s.tries /\ n.want = s.want /\ n.saw = answer /\ n.due = due
  BY <1>1 DEF ReqState
<1>5. To(r, n)
  BY <1>3
<1> HIDE DEF n
<1>6. May(n)
  BY <1>1, <1>4 DEF May, Sound
<1>7. n.saw = "match" => on' = n.want \/ (Mac /\ (onRecord' = n.want \/ n.want \in copied'))
  BY <1>2, <1>3, <1>4 DEF Shows, Mac
<1> QED
  BY <1>2, <1>4, <1>5, <1>6, <1>7, OneSteps

LEMMA DiagnoseGoes ==
  ASSUME SwitchAssumption, SwitchInv, NEW r \in Requester, Diagnose(r)
  PROVE  SwitchInv' /\ HonestStep
<1> DEFINE s == req[r]
           n == [s EXCEPT !.due = FALSE]
<1>1. s \in ReqState /\ Sound(s) /\ SwitchTypeOK /\ s.saw # "-" /\ s.result = "none" /\ Holds(r)
  BY DEF SwitchInv, SwitchTypeOK, Diagnose, Sound, Check
<1>2. Around(r) /\ UNCHANGED <<on, onRecord, copied, machine, moved>>
  BY <1>1 DEF Around, Diagnose, Diagnosed, SwitchInv, SwitchTypeOK
<1>3. /\ n \in ReqState /\ n.pc = s.pc /\ n.result = "none" /\ n.kind = s.kind /\ n.left = s.left
      /\ n.tries = s.tries /\ n.want = s.want /\ n.saw = s.saw /\ n.due = FALSE
  BY <1>1 DEF ReqState
<1>4. To(r, n)
  BY DEF Diagnose
<1> HIDE DEF n
<1>5. May(n)
  BY <1>1, <1>3 DEF May, Sound
<1>6. n.saw = "match" => r \in moved' \/ on' = n.want \/ (Mac /\ (onRecord' = n.want \/ n.want \in copied'))
  BY <1>1, <1>2, <1>3 DEF Holds, Shows, Mac
<1> QED
  BY <1>2, <1>3, <1>4, <1>5, <1>6, OneSteps

LEMMA ReportGoes ==
  ASSUME SwitchAssumption, SwitchInv, NEW r \in Requester, Report(r)
  PROVE  SwitchInv' /\ HonestStep
<1> DEFINE q == req[r]
           s == Asking(q)
<1>1. q \in ReqState /\ Sound(q) /\ SwitchTypeOK /\ q.saw # "-" /\ ~q.due /\ Holds(r)
  BY DEF SwitchInv, SwitchTypeOK, Report, Answered
<1>2. Around(r)
  BY <1>1 DEF Around, Report, SwitchInv, SwitchTypeOK
<1>3. q.pc \in Check /\ q.result = "none"
  BY <1>1 DEF Sound, Check
<1>4. /\ s \in ReqState /\ s.pc = q.pc /\ s.result = q.result /\ s.kind = q.kind /\ s.left = q.left
      /\ s.tries = q.tries /\ s.want = q.want /\ s.saw = "-" /\ s.due = q.due
  BY <1>1 DEF ReqState, Asking
<1>5. Live(s) /\ Sound(s) /\ s.pc \in Check /\ (machine.admin \/ (Mac /\ s.pc = "checkMac"))
  BY <1>1, <1>3, <1>4 DEF Live, Sound, Check
<1> HIDE DEF s
<1>6. ASSUME q.saw = "match", To(r, OnMatch(s))
      PROVE  SwitchInv' /\ HonestStep
  BY <1>1, <1>2, <1>5, <1>6, Matched, OneGoes DEF Holds
<1>7. ASSUME s.left > 1, To(r, Waits(s))
      PROVE  SwitchInv' /\ HonestStep
  BY <1>2, <1>5, <1>7, Waited, OneGoes DEF Quiet
<1>8. ASSUME To(r, OnMiss(s))
      PROVE  SwitchInv' /\ HonestStep
  BY <1>2, <1>5, <1>8, Missed, OneGoes DEF Quiet
<1>9. ASSUME To(r, End(Naming(s, {"unknown"}), "blocked"))
      PROVE  SwitchInv' /\ HonestStep
  BY <1>2, <1>5, <1>9, Blocked, OneGoes DEF Quiet
<1>10. ASSUME To(r, ToolFails(s)), machine.admin \/ Mac
       PROVE  SwitchInv' /\ HonestStep
  BY <1>2, <1>5, <1>10, ToolStops, OneGoes DEF Quiet
<1> QED
  BY <1>5, <1>6, <1>7, <1>8, <1>9, <1>10 DEF Report, s

LEMMA CollectGoes ==
  ASSUME SwitchAssumption, SwitchInv, NEW r \in Requester, Collect(r)
  PROVE  SwitchInv' /\ HonestStep
<1> DEFINE s == req[r]
<1>1. s \in ReqState /\ Sound(s) /\ SwitchTypeOK
  BY DEF SwitchInv, SwitchTypeOK
<1>5. Live(s) /\ s.pc = "collect" /\ machine.admin
  BY <1>1 DEF Collect, At, Sound, Check, Live
<1>2. Around(r)
  BY <1>1, <1>5 DEF Around, Collect, SwitchInv, SwitchTypeOK, ReqState, Diagnosed
<1>7. ASSUME NEW why \in SUBSET (Barrier \union {"gate", "unknown"}), To(r, ControlBlocked(s, why)), why # {}
     PROVE  SwitchInv' /\ HonestStep
  <2>1. Quiet(ControlBlocked(s, why))
    BY <1>1, <1>5, <1>7, ControlStops
  <2> QED
    BY <1>2, <2>1, <1>7, OneGoes DEF Quiet
<1> QED
  BY <1>1, <1>7 DEF Collect, Found

LEMMA CollectMasterGoes ==
  ASSUME SwitchAssumption, SwitchInv, NEW r \in Requester, CollectMaster(r)
  PROVE  SwitchInv' /\ HonestStep
<1> DEFINE s == req[r]
<1>1. s \in ReqState /\ Sound(s) /\ SwitchTypeOK
  BY DEF SwitchInv, SwitchTypeOK
<1>5. Live(s) /\ s.pc = "collectMaster" /\ machine.admin
  BY <1>1 DEF CollectMaster, At, Sound, Check, Live
<1>2. Around(r)
  BY <1>1, <1>5 DEF Around, CollectMaster, SwitchInv, SwitchTypeOK, ReqState, Diagnosed
<1>7. ASSUME NEW why \in SUBSET (Barrier \union {"gate", "unknown"}), To(r, End(Naming(s, why), "blocked")), why # {}
     PROVE  SwitchInv' /\ HonestStep
  <2>1. Quiet(End(Naming(s, why), "blocked"))
    BY <1>1, <1>5, <1>7, Blocked
  <2> QED
    BY <1>2, <2>1, <1>7, OneGoes DEF Quiet
<1>8. PICK barriers \in Found(Barrier) :
           LET why == s.named \union barriers
           IN  To(r, End(Naming(s, IF why = {} THEN {"unknown"} ELSE why), "blocked"))
  BY DEF CollectMaster
<1> DEFINE why == s.named \union barriers
           named == IF why = {} THEN {"unknown"} ELSE why
<1>9. named \in SUBSET (Barrier \union {"gate", "unknown"}) /\ named # {}
  BY <1>1, <1>8 DEF Found, ReqState
<1> QED
  BY <1>7, <1>8, <1>9

LEMMA ForeignGoes ==
  ASSUME SwitchAssumption, SwitchInv, Foreign
  PROVE  SwitchInv' /\ HonestStep
<1>1. /\ foreign' \in 0..MaxForeign /\ UNCHANGED <<feature, machine, service, req, touched>>
      /\ moved' = Requester
  BY DEF Foreign, SwitchInv, SwitchTypeOK, SwitchAssumption
<1>0. on' \in BOOLEAN /\ onRecord' \in BOOLEAN /\ copied' \in SUBSET BOOLEAN
  BY DEF Foreign, SwitchInv, SwitchTypeOK
<1>2. SwitchTypeOK'
  BY <1>0, <1>1 DEF SwitchInv, SwitchTypeOK
<1>3. (\A x \in Requester : Sound(req[x]))'
  BY <1>1 DEF SwitchInv, Sound, Windows, Mac
<1>4. (\A x \in Requester : Holds(x))'
  BY <1>1 DEF Holds
<1>5. \A r \in Requester : req'[r] = req[r]
  BY <1>1
<1>6. HonestStep
  BY <1>1, <1>5 DEF HonestStep, SwitchInv
<1> QED
  BY <1>1, <1>2, <1>3, <1>4, <1>6 DEF SwitchInv

LEMMA SwitchStarts == ASSUME SwitchAssumption, SwitchInit PROVE SwitchInv
<1>1. /\ feature \in {"firewall", "defender"} /\ machine \in Machine
      /\ on \in BOOLEAN /\ service \in BOOLEAN
      /\ touched = FALSE /\ moved = {} /\ foreign = 0
  BY DEF SwitchInit
<1>0. onRecord \in BOOLEAN /\ copied \in SUBSET BOOLEAN
  <2>1. copied \in {{}, {TRUE}, {FALSE}}
    BY DEF SwitchInit
  <2>2. onRecord \in BOOLEAN
    BY DEF SwitchInit
  <2> QED
    BY <2>1, <2>2
<1>2. 0 \in 0..MaxForeign /\ 0 \in 0..Looks /\ 0 \in 0..2 /\ "idle" \in Place
  BY DEF SwitchAssumption, Place
<1>3. ASSUME NEW r \in Requester
      PROVE  req[r] \in ReqState /\ Sound(req[r]) /\ Holds(r)
  <2>1. req[r] \in [kind : Kind, want : BOOLEAN, pc : {"idle"}, left : {0}, tries : {0},
                     saw : {"-"}, due : {FALSE}, named : {{}}, result : {"none"}]
    BY DEF SwitchInit
  <2>2. req[r] \in ReqState
    BY <2>1, <1>2 DEF ReqState
  <2>3. /\ req[r].pc = "idle" /\ req[r].tries = 0 /\ req[r].result = "none"
        /\ req[r].saw = "-" /\ req[r].due = FALSE
    BY <2>1
  <2>4. req[r].kind = "tool" => Windows /\ machine.admin
    BY DEF SwitchInit
  <2> QED
    BY <2>2, <2>3, <2>4 DEF Sound, Check, Holds
<1>4. req \in [Requester -> ReqState]
  BY <1>3 DEF SwitchInit
<1> QED
  BY <1>0, <1>1, <1>2, <1>3, <1>4 DEF SwitchInv, SwitchTypeOK

LEMMA SwitchGoes ==
  ASSUME SwitchAssumption, SwitchInv, [SwitchNext]_switchVars
  PROVE  SwitchInv' /\ [HonestStep]_switchVars
<1>1. CASE UNCHANGED switchVars
  BY <1>1 DEF switchVars, SwitchInv, SwitchTypeOK, Sound, Holds, Shows, Windows, Mac
<1>2. CASE SwitchNext
  BY <1>2, BeginGoes, MacGateGoes, GateGoes, DriveServiceGoes, CommandGoes, ToolGoes, MacToolGoes,
     ToolSetGoes, MacSetGoes, RegistryGoes, LookGoes, DiagnoseGoes, ReportGoes, CollectGoes, CollectMasterGoes, ForeignGoes DEF SwitchNext
<1> QED
  BY <1>1, <1>2

LEMMA SwitchIsHonest == ASSUME SwitchAssumption PROVE SwitchSpec => HonestOutcome
<1>1. SwitchInit => SwitchInv
  BY SwitchStarts
<1>2. SwitchInv /\ [SwitchNext]_switchVars => SwitchInv' /\ [HonestStep]_switchVars
  BY SwitchGoes
<1> QED
  BY <1>1, <1>2, PTL DEF SwitchSpec, HonestOutcome

-----------------------------------------------------------------------------
(* The settings *)

\* list.remove() leaves a list of the same files, each listed once.
LEMMA WithoutIsRecent ==
  ASSUME NEW list \in Recent, NEW f \in File
  PROVE  Without(list, f) \in Recent /\ \A i \in DOMAIN Without(list, f) : Without(list, f)[i] # f
<1>1. ASSUME NEW at \in DOMAIN list, list[at] = f
      PROVE  LET rest == SubSeq(list, 1, at - 1) \o SubSeq(list, at + 1, Len(list))
             IN rest \in Recent /\ \A i \in DOMAIN rest : rest[i] # f
  <2> DEFINE one == SubSeq(list, 1, at - 1)
             two == SubSeq(list, at + 1, Len(list))
             rest == one \o two
  <2>1. list \in Seq(File) /\ at \in 1..Len(list) /\ Len(list) \in Nat
    BY <1>1 DEF Recent
  <2>2. one \in Seq(File) /\ Len(one) = at - 1 /\ \A i \in 1..(at - 1) : one[i] = list[i]
    BY <2>1
  <2>3. two \in Seq(File) /\ Len(two) = Len(list) - at /\ \A i \in 1..(Len(list) - at) : two[i] = list[at + i]
    BY <2>1
  <2> HIDE DEF one, two
  <2>4. rest \in Seq(File) /\ Len(rest) = Len(list) - 1
    BY <2>1, <2>2, <2>3
  <2>5. \A i \in 1..Len(rest) : rest[i] = IF i < at THEN list[i] ELSE list[i + 1]
    BY <2>1, <2>2, <2>3
  <2>6. \A i, j \in 1..Len(list) : list[i] = list[j] => i = j
    BY <2>1 DEF Recent, IsInjective
  <2> HIDE DEF rest
  <2>7. DOMAIN rest = 1..Len(rest) /\ Len(rest) \in Nat
    BY <2>4
  <2>8. \A i, j \in 1..Len(rest) : rest[i] = rest[j] => i = j
    BY <2>1, <2>4, <2>5, <2>6
  <2>9. \A i \in 1..Len(rest) : rest[i] # f
    BY <1>1, <2>1, <2>4, <2>5, <2>6
  <2> QED
    BY <2>4, <2>7, <2>8, <2>9 DEF Recent, IsInjective, rest, one, two
<1>2. CASE \E i \in DOMAIN list : list[i] = f
  <2> DEFINE at == CHOOSE i \in DOMAIN list : list[i] = f /\ \A j \in 1..(i - 1) : list[j] # f
  <2>1. \E i \in DOMAIN list : list[i] = f /\ \A j \in 1..(i - 1) : list[j] # f
    <3>1. PICK i \in DOMAIN list : list[i] = f
      BY <1>2
    <3>2. \A j \in 1..(i - 1) : j \in DOMAIN list /\ j # i
      BY <3>1 DEF Recent
    <3>3. \A j \in 1..(i - 1) : list[j] # f
      BY <3>1, <3>2 DEF Recent, IsInjective
    <3> QED
      BY <3>1, <3>3
  <2>2. at \in DOMAIN list /\ list[at] = f
    BY <2>1
  <2> HIDE DEF at
  <2>3. Without(list, f) = SubSeq(list, 1, at - 1) \o SubSeq(list, at + 1, Len(list))
    BY <1>2 DEF Without, at
  <2> QED
    BY <1>1, <2>2, <2>3
<1>3. CASE ~\E i \in DOMAIN list : list[i] = f
  BY <1>3 DEF Without
<1> QED
  BY <1>2, <1>3

\* A file that is not in a list goes to its front.
LEMMA FrontIsRecent ==
  ASSUME NEW list \in Recent, NEW f \in File, \A i \in DOMAIN list : list[i] # f
  PROVE  <<f>> \o list \in Recent
<1> DEFINE longer == <<f>> \o list
<1>1. list \in Seq(File) /\ longer \in Seq(File) /\ Len(longer) = Len(list) + 1
  BY DEF Recent
<1>2. /\ DOMAIN list = 1..Len(list) /\ Len(list) \in Nat
      /\ DOMAIN longer = 1..Len(longer)
  BY <1>1
<1>3. longer[1] = f /\ \A i \in 1..Len(list) : longer[i + 1] = list[i]
  BY <1>1
<1>4. \A i, j \in 1..Len(list) : list[i] = list[j] => i = j
  BY <1>1 DEF Recent, IsInjective
<1> HIDE DEF longer
<1>5. ASSUME NEW i \in 1..Len(longer), NEW j \in 1..Len(longer), longer[i] = longer[j]
      PROVE  i = j
  <2>1. CASE i = 1 /\ j = 1
    BY <2>1
  <2>2. CASE i = 1 /\ j # 1
    <3>1. j - 1 \in 1..Len(list) /\ (j - 1) + 1 = j
      BY <2>2, <1>1, <1>2
    <3> QED
      BY <3>1, <2>2, <1>3, <1>2, <1>5
  <2>3. CASE i # 1 /\ j = 1
    <3>1. i - 1 \in 1..Len(list) /\ (i - 1) + 1 = i
      BY <2>3, <1>1, <1>2
    <3> QED
      BY <3>1, <2>3, <1>3, <1>2, <1>5
  <2>4. CASE i # 1 /\ j # 1
    <3>1. i - 1 \in 1..Len(list) /\ (i - 1) + 1 = i /\ j - 1 \in 1..Len(list) /\ (j - 1) + 1 = j
      BY <2>4, <1>1, <1>2
    <3>2. longer[i] = list[i - 1] /\ longer[j] = list[j - 1]
      BY <3>1, <1>3
    <3> QED
      BY <3>1, <3>2, <1>4, <1>5
  <2> QED
    BY <2>1, <2>2, <2>3, <2>4
<1>6. IsInjective(longer)
  BY <1>2, <1>5 DEF IsInjective
<1> QED
  BY <1>1, <1>6 DEF Recent, longer

LEMMA BeginningIsRecent ==
  ASSUME ConfigAssumption, NEW list \in Recent
  PROVE  FirstOf(list) \in Recent
<1> DEFINE n == IF Len(list) < Limit THEN Len(list) ELSE Limit
           short == SubSeq(list, 1, n)
<1>1. list \in Seq(File) /\ Len(list) \in Nat /\ n \in 0..Len(list)
  BY DEF Recent, ConfigAssumption
<1> HIDE DEF n
<1>2. short \in Seq(File) /\ Len(short) = n /\ \A i \in 1..n : short[i] = list[i]
  BY <1>1
<1>3. DOMAIN short = 1..n
  BY <1>2
<1>4. \A i, j \in 1..Len(list) : list[i] = list[j] => i = j
  BY <1>1 DEF Recent, IsInjective
<1> HIDE DEF short
<1>5. IsInjective(short)
  <2>1. \A i \in 1..n : i \in 1..Len(list)
    BY <1>1
  <2> QED
    BY <2>1, <1>2, <1>3, <1>4 DEF IsInjective
<1>6. short \in Recent
  BY <1>2, <1>5 DEF Recent
<1> QED
  BY <1>6 DEF FirstOf, short, n

LEMMA PristineIsSettings == ASSUME ConfigAssumption PROVE Pristine \in Settings
<1>1. <<>> \in Recent
  BY DEF Recent, IsInjective
<1> QED
  BY <1>1 DEF Pristine, Settings, ConfigAssumption

\* The settings as they are looked at have their containers.
LEMMA Present ==
  ASSUME ConfigTypeOK
  PROVE  Listed \in Recent /\ Sections \in SUBSET Section
<1>1. <<>> \in Recent
  BY DEF Recent, IsInjective
<1>2. /\ config.recent \in {Unset} \union Recent
      /\ config.folded \in {Unset} \union SUBSET Section
  BY DEF ConfigTypeOK, Settings
<1> QED
  BY <1>1, <1>2 DEF Listed, Sections

\* Settings of a file with what they lack taken from the defaults.
LEMMA MergedIsSettings ==
  ASSUME ConfigAssumption, NEW from \in Settings
  PROVE  /\ Merged(from) \in Settings
         /\ "recent" \in Lacking(from) => Merged(from).recent = Pristine.recent
         /\ "folded" \in Lacking(from) => Merged(from).folded = Pristine.folded
         /\ Lacking(from) \subseteq Containers
<1>1. /\ Pristine.plain \in {Unset} \union Plain /\ Pristine.recent \in {Unset} \union Recent
      /\ Pristine.folded \in {Unset} \union SUBSET Section
  BY PristineIsSettings DEF Settings
<1>2. /\ from.plain \in {Unset} \union Plain /\ from.recent \in {Unset} \union Recent
      /\ from.folded \in {Unset} \union SUBSET Section
  BY DEF Settings
<1>3. Merged(from) \in Settings
  BY <1>1, <1>2 DEF Merged, Settings
<1>4. /\ "recent" \in Lacking(from) => from.recent = Unset
      /\ "folded" \in Lacking(from) => from.folded = Unset
  BY DEF Lacking
<1>5. /\ "recent" \in Lacking(from) => Merged(from).recent = Pristine.recent
      /\ "folded" \in Lacking(from) => Merged(from).folded = Pristine.folded
  BY <1>4 DEF Merged
<1>6. Lacking(from) \subseteq Containers
  BY DEF Lacking, Containers
<1> QED
  BY <1>3, <1>5, <1>6

LEMMA Saved ==
  ASSUME ConfigAssumption, ConfigTypeOK, Save, config' \in Settings
  PROVE  stored' \in Settings \union {NoFile, Broken} /\ saves' \in 0..MaxSaves
  BY DEF ConfigAssumption, ConfigTypeOK, Save

LEMMA LoadConfigKeeps ==
  ASSUME ConfigAssumption, ConfigInv, LoadConfig
  PROVE  ConfigInv'
<1>1. Pristine \in Settings
  BY PristineIsSettings
<1>2. CASE stored \notin {NoFile, Broken} /\ Loaded(stored) /\ UNCHANGED <<stored, saves>>
  <2>1. stored \in Settings
    BY <1>2 DEF ConfigInv, ConfigTypeOK
  <2>2. /\ config' = Merged(stored) /\ defaults' = Pristine
        /\ shared' = Lacking(stored) /\ took' = Lacking(stored)
    BY <1>2 DEF Loaded
  <2>3. config' \in Settings /\ shared' \subseteq Containers
    BY <2>1, <2>2, MergedIsSettings
  <2>4. widgets' \in Plain
    BY <2>3 DEF LoadConfig, ScreenBuilt, Settings, ConfigAssumption
  <2>5. ConfigTypeOK'
    BY <1>1, <1>2, <2>2, <2>3, <2>4 DEF LoadConfig, ConfigInv, ConfigTypeOK
  <2>6. SharedIsSame'
    BY <2>1, <2>2, MergedIsSettings DEF SharedIsSame
  <2> QED
    BY <2>2, <2>5, <2>6 DEF ConfigInv, FirstResetRestores, OwnContainers
<1>3. CASE FromDefaults /\ (Save \/ UNCHANGED <<stored, saves>>)
  <2>1. /\ config' = Pristine /\ defaults' = Pristine
        /\ shared' = Containers /\ took' = Containers
    BY <1>3 DEF FromDefaults
  <2>2. stored' \in Settings \union {NoFile, Broken} /\ saves' \in 0..MaxSaves
    BY <1>1, <1>3, <2>1, Saved DEF ConfigInv, ConfigTypeOK
  <2>3. widgets' \in Plain
    BY <2>1 DEF LoadConfig, ScreenBuilt, Pristine, ConfigAssumption
  <2>4. running' = TRUE /\ resets' = FALSE /\ editor' = NoFile
    BY DEF LoadConfig
  <2>5. ConfigTypeOK'
    BY <1>1, <2>1, <2>2, <2>3, <2>4 DEF ConfigTypeOK
  <2> QED
    BY <2>1, <2>5 DEF ConfigInv, FirstResetRestores, SharedIsSame, OwnContainers
<1> QED
  BY <1>2, <1>3 DEF LoadConfig

LEMMA AddRecentKeeps ==
  ASSUME ConfigAssumption, ConfigInv, NEW f \in File, AddRecent(f)
  PROVE  ConfigInv'
<1> DEFINE longer == <<f>> \o Without(Listed, f)
<1>1. ConfigTypeOK /\ Listed \in Recent
  BY Present DEF ConfigInv
<1>2. longer \in Recent
  BY <1>1, WithoutIsRecent, FrontIsRecent
<1>3. /\ config' = [config EXCEPT !.recent = FirstOf(longer)]
      /\ defaults' = IF "recent" \in shared THEN [defaults EXCEPT !.recent = longer] ELSE defaults
      /\ shared' = shared \ {"recent"} /\ Save
      /\ UNCHANGED <<widgets, editor, running, took, resets>>
  BY DEF AddRecent
<1> HIDE DEF longer
<1>4. FirstOf(longer) \in Recent
  BY <1>2, BeginningIsRecent
<1>5. config' \in Settings /\ config'.folded = config.folded
  BY <1>1, <1>3, <1>4 DEF ConfigTypeOK, Settings
<1>6. /\ defaults' \in Settings /\ defaults'.folded = defaults.folded
      /\ defaults'.plain = defaults.plain
      /\ "recent" \notin shared => defaults' = defaults
  BY <1>1, <1>2, <1>3 DEF ConfigTypeOK, Settings
<1>7. stored' \in Settings \union {NoFile, Broken} /\ saves' \in 0..MaxSaves
  BY <1>1, <1>3, <1>5, Saved
<1>8. ConfigTypeOK'
  BY <1>1, <1>3, <1>5, <1>6, <1>7 DEF ConfigTypeOK
<1> QED
  BY <1>3, <1>5, <1>6, <1>8 DEF ConfigInv, FirstResetRestores, SharedIsSame, OwnContainers

LEMMA RemoveRecentKeeps ==
  ASSUME ConfigAssumption, ConfigInv, NEW f \in File, RemoveRecent(f)
  PROVE  ConfigInv'
<1> DEFINE rest == Without(Listed, f)
<1>1. ConfigTypeOK /\ Listed \in Recent
  BY Present DEF ConfigInv
<1>2. rest \in Recent
  BY <1>1, WithoutIsRecent
<1>3. /\ config' = [config EXCEPT !.recent = rest]
      /\ defaults' = IF "recent" \in shared THEN [defaults EXCEPT !.recent = config'.recent] ELSE defaults
      /\ Save
      /\ UNCHANGED <<shared, widgets, editor, running, took, resets>>
  BY DEF RemoveRecent
<1> HIDE DEF rest
<1>5. config' \in Settings /\ config'.folded = config.folded /\ config'.recent = rest
  BY <1>1, <1>2, <1>3 DEF ConfigTypeOK, Settings
<1>6. /\ defaults' \in Settings /\ defaults'.folded = defaults.folded
      /\ defaults'.plain = defaults.plain
      /\ "recent" \notin shared => defaults' = defaults
      /\ "recent" \in shared => defaults'.recent = rest
  BY <1>1, <1>2, <1>3, <1>5 DEF ConfigTypeOK, Settings
<1>7. stored' \in Settings \union {NoFile, Broken} /\ saves' \in 0..MaxSaves
  BY <1>1, <1>3, <1>5, Saved
<1>8. ConfigTypeOK'
  BY <1>1, <1>3, <1>5, <1>6, <1>7 DEF ConfigTypeOK
<1> QED
  BY <1>3, <1>5, <1>6, <1>8 DEF ConfigInv, FirstResetRestores, SharedIsSame, OwnContainers

LEMMA FoldKeeps ==
  ASSUME ConfigAssumption, ConfigInv, NEW s \in Section, Fold(s)
  PROVE  ConfigInv'
<1> DEFINE now == (Sections \union {s}) \ (Sections \intersect {s})
<1>1. ConfigTypeOK /\ now \in SUBSET Section
  BY Present DEF ConfigInv
<1>3. /\ config' = [config EXCEPT !.folded = now]
      /\ defaults' = IF "folded" \in shared THEN [defaults EXCEPT !.folded = config'.folded] ELSE defaults
      /\ Save
      /\ UNCHANGED <<shared, widgets, editor, running, took, resets>>
  BY DEF Fold
<1> HIDE DEF now
<1>5. config' \in Settings /\ config'.recent = config.recent /\ config'.folded = now
  BY <1>1, <1>3 DEF ConfigTypeOK, Settings
<1>6. /\ defaults' \in Settings /\ defaults'.recent = defaults.recent
      /\ defaults'.plain = defaults.plain
      /\ "folded" \notin shared => defaults' = defaults
      /\ "folded" \in shared => defaults'.folded = now
  BY <1>1, <1>3, <1>5 DEF ConfigTypeOK, Settings
<1>7. stored' \in Settings \union {NoFile, Broken} /\ saves' \in 0..MaxSaves
  BY <1>1, <1>3, <1>5, Saved
<1>8. ConfigTypeOK'
  BY <1>1, <1>3, <1>5, <1>6, <1>7 DEF ConfigTypeOK
<1> QED
  BY <1>3, <1>5, <1>6, <1>8 DEF ConfigInv, FirstResetRestores, SharedIsSame, OwnContainers

\* The steps after which the settings are other ones and the defaults the same.
LEMMA Replaced ==
  ASSUME ConfigAssumption, ConfigInv, config' \in Settings, Save, UNCHANGED <<defaults, took>>,
         shared' \subseteq Containers, widgets' \in Plain, editor' \in Settings \union {NoFile},
         running' \in BOOLEAN, resets' \in BOOLEAN, SharedIsSame',
         ~resets' => ~resets /\ shared' \subseteq shared
  PROVE  ConfigInv'
<1>1. stored' \in Settings \union {NoFile, Broken} /\ saves' \in 0..MaxSaves
  BY Saved DEF ConfigInv
<1>2. ConfigTypeOK'
  BY <1>1 DEF ConfigInv, ConfigTypeOK
<1>3. FirstResetRestores'
  BY DEF ConfigInv, FirstResetRestores
<1>4. OwnContainers'
  BY DEF ConfigInv, OwnContainers
<1> QED
  BY <1>2, <1>3, <1>4 DEF ConfigInv

LEMMA LookUpSectionKeeps ==
  ASSUME ConfigAssumption, ConfigInv, LookUpSection
  PROVE  ConfigInv'
<1>1. /\ config' = [config EXCEPT !.folded = {}] /\ config \in Settings /\ config.folded = Unset
      /\ shared' = shared \ {"folded"}
      /\ UNCHANGED <<defaults, stored, widgets, editor, running, took, resets, saves>>
  BY DEF LookUpSection, ConfigInv, ConfigTypeOK
<1>2. config' \in Settings /\ config'.recent = config.recent /\ config'.folded = {}
  BY <1>1 DEF Settings
<1>3. ConfigTypeOK'
  BY <1>1, <1>2 DEF ConfigInv, ConfigTypeOK
<1>4. SharedIsSame'
  BY <1>1, <1>2 DEF ConfigInv, SharedIsSame
<1> QED
  BY <1>1, <1>3, <1>4 DEF ConfigInv, FirstResetRestores, OwnContainers

LEMMA SaveSettingsKeeps ==
  ASSUME ConfigAssumption, ConfigInv, SaveSettings
  PROVE  ConfigInv'
<1>1. config' \in Settings /\ config'.recent = config.recent /\ config'.folded = config.folded
  BY DEF SaveSettings, ConfigInv, ConfigTypeOK, Settings
<1>2. SharedIsSame'
  BY <1>1 DEF SaveSettings, ConfigInv, SharedIsSame
<1> QED
  BY <1>1, <1>2, Replaced DEF SaveSettings, ConfigInv, ConfigTypeOK

LEMMA ResetKeeps ==
  ASSUME ConfigAssumption, ConfigInv, Reset
  PROVE  ConfigInv'
<1>1. config' \in Settings /\ SharedIsSame'
  BY DEF Reset, ConfigInv, ConfigTypeOK, SharedIsSame
<1> QED
  BY <1>1, Replaced DEF Reset, ConfigInv, ConfigTypeOK

LEMMA SaveEditorKeeps ==
  ASSUME ConfigAssumption, ConfigInv, NEW v \in {Unset} \union Plain,
         NEW cut \in SUBSET Containers, SaveEditor(v, cut)
  PROVE  ConfigInv'
<1> DEFINE list == IF "recent" \in cut THEN Unset ELSE editor.recent
           set == IF "folded" \in cut THEN Unset ELSE editor.folded
<1>1. editor \in Settings
  BY DEF SaveEditor, ConfigInv, ConfigTypeOK
<1>2. list \in {Unset} \union Recent /\ set \in {Unset} \union SUBSET Section
  BY <1>1 DEF Settings
<1>3. config' = [plain |-> v, recent |-> list, folded |-> set] /\ shared' = {}
  BY DEF SaveEditor
<1> HIDE DEF list, set
<1>4. config' \in Settings
  BY <1>2, <1>3 DEF Settings
<1>5. SharedIsSame'
  BY <1>3 DEF SharedIsSame
<1> QED
  BY <1>3, <1>4, <1>5, Replaced DEF SaveEditor, ConfigInv, ConfigTypeOK

LEMMA ImportKeeps ==
  ASSUME ConfigAssumption, ConfigInv, NEW v \in {Unset} \union Plain,
         NEW cs \in SUBSET Containers, Import(v, cs)
  PROVE  ConfigInv'
<1> DEFINE chosen == IF v = Unset THEN config.plain ELSE v
           list == IF "recent" \in cs THEN <<>> ELSE config.recent
           set == IF "folded" \in cs THEN {} ELSE config.folded
<1>1. config \in Settings /\ config' = [plain |-> chosen, recent |-> list, folded |-> set]
  BY DEF Import, ConfigInv, ConfigTypeOK
<1>2. /\ chosen \in {Unset} \union Plain
      /\ list \in {Unset} \union Recent /\ set \in {Unset} \union SUBSET Section
  BY <1>1 DEF Recent, IsInjective, Settings
<1>3. /\ "recent" \notin cs => list = config.recent
      /\ "folded" \notin cs => set = config.folded
  OBVIOUS
<1> HIDE DEF chosen, list, set
<1>4. config' \in Settings /\ config'.recent = list /\ config'.folded = set
  BY <1>1, <1>2 DEF Settings
<1>5. SharedIsSame'
  BY <1>3, <1>4 DEF Import, ConfigInv, SharedIsSame
<1> QED
  BY <1>4, <1>5, Replaced DEF Import, ConfigInv, ConfigTypeOK

LEMMA CloseKeeps ==
  ASSUME ConfigAssumption, ConfigInv, Close
  PROVE  ConfigInv'
<1>1. config' \in Settings /\ SharedIsSame'
  BY DEF Close, ConfigInv, ConfigTypeOK, SharedIsSame
<1> QED
  BY <1>1, Replaced DEF Close, ConfigInv, ConfigTypeOK

\* The steps that leave the settings, the defaults and the file alone.
LEMMA OthersKeep ==
  ASSUME ConfigAssumption, ConfigInv,
         OpenEditor \/ Killed \/ UNCHANGED configVars \/ \E v \in Plain : Choose(v)
  PROVE  ConfigInv'
<1>1. UNCHANGED <<config, defaults, shared, stored, took, resets, saves>>
  BY DEF OpenEditor, Killed, Choose, configVars
<1>2. /\ widgets' \in Plain /\ editor' \in Settings \union {NoFile}
      /\ running' = running \/ running' = FALSE
  <2>1. CASE OpenEditor
    BY <2>1 DEF OpenEditor, Bare, Settings, ConfigInv, ConfigTypeOK
  <2>2. CASE Killed
    BY <2>2 DEF Killed, ConfigInv, ConfigTypeOK
  <2>3. CASE UNCHANGED configVars
    BY <2>3 DEF configVars, ConfigInv, ConfigTypeOK
  <2>4. CASE \E v \in Plain : Choose(v)
    BY <2>4 DEF Choose, ConfigInv, ConfigTypeOK
  <2> QED
    BY <2>1, <2>2, <2>3, <2>4
<1>3. ConfigTypeOK'
  BY <1>1, <1>2 DEF ConfigInv, ConfigTypeOK
<1> QED
  BY <1>1, <1>2, <1>3 DEF ConfigInv, FirstResetRestores, SharedIsSame, OwnContainers

LEMMA ConfigStarts == ASSUME ConfigAssumption, ConfigInit PROVE ConfigInv
<1>1. Pristine \in Settings /\ Bare \in Settings /\ 0 \in 0..MaxSaves
  BY PristineIsSettings DEF ConfigAssumption, Bare, Settings
<1>2. ConfigTypeOK
  BY <1>1 DEF ConfigAssumption, ConfigInit, ConfigTypeOK
<1> QED
  BY <1>2 DEF ConfigInit, ConfigInv, FirstResetRestores, SharedIsSame, OwnContainers

LEMMA ConfigGoes ==
  ASSUME ConfigAssumption, ConfigInv, [ConfigNext]_configVars
  PROVE  ConfigInv'
  BY LoadConfigKeeps, LookUpSectionKeeps, SaveSettingsKeeps, ResetKeeps, CloseKeeps, AddRecentKeeps, RemoveRecentKeeps,
     FoldKeeps, SaveEditorKeeps, ImportKeeps, OthersKeep DEF ConfigNext

LEMMA ConfigHolds == ASSUME ConfigAssumption PROVE ConfigSpec => []ConfigInv
<1>1. ConfigInit => ConfigInv
  BY ConfigStarts
<1>2. ConfigInv /\ [ConfigNext]_configVars => ConfigInv'
  BY ConfigGoes
<1> QED
  BY <1>1, <1>2, PTL DEF ConfigSpec

-----------------------------------------------------------------------------
(* The telemetry *)

\* What ClickHouse is told: the part of the invariant that a post changes.
Posts ==
  /\ batch \in Seq(Event) /\ sent \subseteq used /\ lost \subseteq used /\ used \subseteq Event
  /\ \A i \in DOMAIN batch : batch[i] \in used /\ batch[i] \notin sent \union lost
  /\ sent \intersect lost = {} /\ Len(batch) < BatchSize /\ (~Remote => batch = <<>>)

LEMMA PostsHold == ASSUME TelemetryInv PROVE Posts
  BY DEF TelemetryInv, TelemetryTypeOK, OncePerSink, Allowed, RecordedOnce, Posts

LEMMA PostKeeps ==
  ASSUME TelemetryAssumption, sent \subseteq used', lost \subseteq used', used' \subseteq Event,
         sent \intersect lost = {}, NEW events, NEW ok, Post(events, ok),
         ToSet(events) \subseteq used', ToSet(events) \intersect (sent \union lost) = {}
  PROVE  Posts' /\ batch' = <<>>
<1>1. batch' = <<>> /\ batch' \in Seq(Event) /\ Len(batch') < BatchSize /\ DOMAIN batch' = {}
  BY DEF Post, TelemetryAssumption
<1>2. /\ sent' \in {sent, sent \union ToSet(events)} /\ lost' \in {lost, lost \union ToSet(events)}
      /\ sent' = sent \/ lost' = lost
  BY DEF Post
<1>3. sent' \subseteq used' /\ lost' \subseteq used' /\ sent' \intersect lost' = {}
  BY <1>2
<1> QED
  BY <1>1, <1>3 DEF Posts

LEMMA RestKeeps ==
  ASSUME TelemetryAssumption, Posts, NEW ok, Rest(ok), used' = used
  PROVE  Posts' /\ batch' = <<>>
<1>1. CASE batch # <<>>
  <2>1. ToSet(batch) \subseteq used /\ ToSet(batch) \intersect (sent \union lost) = {}
    BY DEF Posts, ToSet
  <2> QED
    BY <1>1, <2>1, PostKeeps DEF Rest, Posts
<1>2. CASE batch = <<>>
  BY <1>2 DEF Rest, Posts
<1> QED
  BY <1>1, <1>2

LEMMA PersistKeeps ==
  ASSUME TelemetryAssumption, Posts, NEW e \in Event, NEW ok, e \notin used, used' = used \union {e},
         Persist(e, ok)
  PROVE  Posts'
<1> DEFINE more == Append(batch, e)
<1>1. batch \in Seq(Event) /\ Len(batch) \in Nat
  BY DEF Posts
<1>2. /\ more \in Seq(Event) /\ Len(more) = Len(batch) + 1 /\ DOMAIN more = 1..(Len(batch) + 1)
      /\ \A i \in 1..Len(batch) : more[i] = batch[i]
      /\ more[Len(batch) + 1] = e
  BY <1>1
<1>3. /\ Persist(e, ok) /\ DOMAIN batch = 1..Len(batch)
      /\ \A i \in 1..(Len(batch) + 1) : i \in 1..Len(batch) \/ i = Len(batch) + 1
  BY <1>1
<1> HIDE DEF more
<1>4. \A i \in DOMAIN more : more[i] \in used' /\ more[i] \notin sent \union lost
  BY <1>2, <1>3 DEF Posts
<1>5. CASE Remote /\ Len(batch) + 1 >= BatchSize
  <2>1. ToSet(more) \subseteq used' /\ ToSet(more) \intersect (sent \union lost) = {}
    BY <1>4 DEF ToSet
  <2>2. Post(more, ok)
    BY <1>5 DEF Persist, more
  <2> QED
    BY <2>1, <2>2, PostKeeps DEF Posts
<1>6. CASE Remote /\ ~(Len(batch) + 1 >= BatchSize)
  <2>1. batch' = more /\ sent' = sent /\ lost' = lost
    BY <1>6 DEF Persist, more
  <2>2. Len(batch') < BatchSize
    BY <1>1, <1>2, <1>6, <2>1 DEF TelemetryAssumption
  <2> QED
    BY <1>2, <1>4, <1>6, <2>1, <2>2 DEF Posts
<1>7. CASE ~Remote
  <2>1. batch' = batch /\ sent' = sent /\ lost' = lost
    BY <1>7 DEF Persist
  <2> QED
    BY <2>1 DEF Posts
<1> QED
  BY <1>5, <1>6, <1>7

LEMMA TroubleKeeps ==
  ASSUME TelemetryAssumption, TelemetryTypeOK, NEW n \in 0..2, Trouble(n)
  PROVE  troubles' \in 0..MaxTroubles
  BY DEF TelemetryAssumption, TelemetryTypeOK, Trouble

LEMMA CostIs == ASSUME NEW ok PROVE Cost(ok) \in 0..1 /\ 1 + Cost(ok) \in 0..2 /\ Cost(ok) \in 0..2
  BY DEF Cost

LEMMA AskKeeps ==
  ASSUME TelemetryAssumption, TelemetryInv, NEW env \in {"unset", "on", "off"}, Ask(env)
  PROVE  TelemetryInv'
<1>1. /\ stage = "asking" /\ stage' = "recording" /\ enabled' = granted'
      /\ UNCHANGED <<recorded, buffer, lines, torn, known, batch, sent, lost, before, spoilt,
                     written, used, runs, troubles>>
  BY DEF Ask
<1>2. granted' \in BOOLEAN /\ consent' \in {"none", "granted", "denied"}
  BY DEF Ask, Decision, TelemetryInv, TelemetryTypeOK
<1>3. /\ ~granted /\ recorded = <<>> /\ written = 0 /\ buffer = <<>> /\ batch = <<>> /\ sent = {}
      /\ lost = {} /\ (torn <=> spoilt) /\ Len(lines) = before
  BY <1>1 DEF TelemetryInv, TelemetryTypeOK, Allowed, ConsentRespected
<1>4. TelemetryTypeOK'
  BY <1>1, <1>2 DEF TelemetryInv, TelemetryTypeOK
<1>5. ConsentRespected'
  BY <1>1, <1>3 DEF ConsentRespected
<1>6. NothingForgotten'
  BY <1>1, <1>3 DEF TelemetryInv, NothingForgotten, LineOf
<1>7. OncePerSink'
  BY <1>1 DEF TelemetryInv, OncePerSink
<1>8. KnowsTheRun'
  BY <1>1, <1>3 DEF KnowsTheRun
<1>9. Allowed'
  BY <1>1, <1>3 DEF TelemetryInv, Allowed
<1>10. RecordedOnce'
  BY <1>1 DEF TelemetryInv, RecordedOnce
<1> QED
  BY <1>4, <1>5, <1>6, <1>7, <1>8, <1>9, <1>10 DEF TelemetryInv

LEMMA RecordKeeps ==
  ASSUME TelemetryAssumption, TelemetryInv, NEW e \in Event, NEW ok \in BOOLEAN, Record(e, ok)
  PROVE  TelemetryInv'
<1>1. /\ stage = "recording" /\ e \notin used /\ used' = used \union {e}
      /\ recorded' = Append(recorded, e) /\ Trouble(Cost(ok))
      /\ UNCHANGED <<stage, consent, granted, enabled, lines, torn, before, spoilt, written, runs>>
  BY DEF Record
<1>2. TelemetryTypeOK /\ enabled = granted /\ written = 0
  BY <1>1 DEF TelemetryInv, Allowed
<1>3. /\ recorded' \in Seq(Event) /\ Len(recorded') = Len(recorded) + 1 /\ Len(recorded) \in Nat
      /\ DOMAIN recorded = 1..Len(recorded) /\ DOMAIN recorded' = 1..(Len(recorded) + 1)
      /\ \A k \in 1..Len(recorded) : recorded'[k] = recorded[k]
      /\ recorded'[Len(recorded) + 1] = e
  BY <1>1, <1>2 DEF TelemetryTypeOK
<1>4. \A k \in DOMAIN recorded' : k \in DOMAIN recorded \/ k = Len(recorded) + 1
  BY <1>3
<1>5. troubles' \in 0..MaxTroubles
  BY <1>1, <1>2, CostIs, TroubleKeeps
<1>6. \A k \in DOMAIN recorded' : recorded'[k] \in used'
  BY <1>1, <1>3, <1>4 DEF TelemetryInv, RecordedOnce
<1>7. \A i, k \in DOMAIN recorded' : recorded'[i] = recorded'[k] => i = k
  <2>1. \A k \in DOMAIN recorded : recorded[k] # e
    BY <1>1 DEF TelemetryInv, RecordedOnce
  <2>2. \A i, k \in DOMAIN recorded : recorded[i] = recorded[k] => i = k
    BY DEF TelemetryInv, RecordedOnce
  <2> QED
    BY <2>1, <2>2, <1>3, <1>4
<1>8. \A i \in 1..before', k \in DOMAIN recorded' : lines'[i] # recorded'[k]
  <2>1. \A i \in 1..before : lines[i] # e
    <3>1. \A i \in 1..before : i \in DOMAIN lines
      BY <1>2 DEF TelemetryTypeOK
    <3> QED
      BY <3>1, <1>1 DEF TelemetryInv, RecordedOnce, TelemetryAssumption
  <2>2. \A i \in 1..before, k \in DOMAIN recorded : lines[i] # recorded[k]
    BY DEF TelemetryInv, RecordedOnce
  <2> QED
    BY <2>1, <2>2, <1>1, <1>3, <1>4
<1>9. \A i \in DOMAIN lines' : lines'[i] \in used' \union {Bad}
  BY <1>1 DEF TelemetryInv, RecordedOnce
<1>10. CASE ~enabled
  <2>1. UNCHANGED <<buffer, known, batch, sent, lost>> /\ ~granted
    BY <1>2, <1>10 DEF Record
  <2>2. TelemetryTypeOK'
    BY <1>1, <1>2, <1>3, <1>5, <2>1 DEF TelemetryTypeOK
  <2>3. ConsentRespected' /\ KnowsTheRun'
    BY <1>1, <2>1 DEF TelemetryInv, ConsentRespected, KnowsTheRun
  <2>4. NothingForgotten'
    BY <1>1, <1>2, <2>1 DEF TelemetryInv, TelemetryTypeOK, NothingForgotten
  <2>5. OncePerSink'
    BY <1>1, <2>1 DEF TelemetryInv, OncePerSink
  <2>6. Allowed'
    BY <1>1, <2>1 DEF TelemetryInv, Allowed
  <2>7. /\ \A i \in DOMAIN batch' : batch'[i] \in used'
        /\ sent' \subseteq used' /\ lost' \subseteq used'
    BY <1>1, <2>1 DEF TelemetryInv, RecordedOnce
  <2> QED
    BY <2>2, <2>3, <2>4, <2>5, <2>6, <2>7, <1>6, <1>7, <1>8, <1>9 DEF TelemetryInv, RecordedOnce
<1>11. CASE enabled
  <2>1. granted /\ known' = known \union {e} /\ Persist(e, ok) /\ buffer' = Append(buffer, e)
    BY <1>2, <1>11 DEF Record, Persist
  <2>2. buffer = recorded
    BY <1>1, <2>1 DEF TelemetryInv, NothingForgotten
  <2>3. Posts'
    BY <1>1, <2>1, PersistKeeps, PostsHold
  <2>4. used' \subseteq Event
    BY <1>1, <1>2 DEF TelemetryTypeOK
  <2>5. TelemetryTypeOK'
    BY <1>1, <1>2, <1>3, <1>5, <2>1, <2>2, <2>3, <2>4 DEF TelemetryTypeOK, Posts
  <2>6. ConsentRespected'
    BY <1>1, <2>1 DEF ConsentRespected
  <2>7. KnowsTheRun'
    BY <1>1, <1>3, <1>4, <2>1 DEF TelemetryInv, KnowsTheRun
  <2>8. NothingForgotten'
    BY <1>1, <1>2, <2>1, <2>2 DEF TelemetryInv, TelemetryTypeOK, NothingForgotten
  <2>9. OncePerSink'
    BY <1>1, <2>3 DEF TelemetryInv, OncePerSink, Posts
  <2>10. buffer' # <<>> /\ recorded' # <<>>
    BY <1>1, <2>1, <2>2, <1>3
  <2>11. Allowed'
    BY <1>1, <2>3, <2>10 DEF TelemetryInv, Allowed, Posts
  <2>12. /\ \A i \in DOMAIN batch' : batch'[i] \in used'
         /\ sent' \subseteq used' /\ lost' \subseteq used'
    BY <2>3 DEF Posts
  <2> QED
    BY <2>5, <2>6, <2>7, <2>8, <2>9, <2>11, <2>12, <1>6, <1>7, <1>8, <1>9 DEF TelemetryInv, RecordedOnce
<1> QED
  BY <1>10, <1>11

LEMMA RunEndsKeeps ==
  ASSUME TelemetryAssumption, TelemetryInv, RunEnds
  PROVE  TelemetryInv'
<1>1. /\ stage = "recording"
      /\ stage' = IF enabled /\ buffer # <<>> THEN "flushing" ELSE "ended"
      /\ UNCHANGED <<consent, granted, enabled, recorded, buffer, lines, torn, known, batch, sent,
                     lost, before, spoilt, written, used, runs, troubles>>
  BY DEF RunEnds
<1>2. /\ enabled = granted /\ written = 0 /\ (buffer = <<>> => batch = <<>>)
      /\ (torn <=> spoilt /\ written = 0)
  BY <1>1 DEF TelemetryInv, Allowed
<1>3. TelemetryTypeOK'
  BY <1>1 DEF TelemetryInv, TelemetryTypeOK
<1>4. ConsentRespected' /\ KnowsTheRun'
  BY <1>1 DEF TelemetryInv, ConsentRespected, KnowsTheRun
<1>5. NothingForgotten'
  BY <1>1 DEF TelemetryInv, NothingForgotten, LineOf
<1>6. stage' = "ended" => batch' = <<>>
  BY <1>1, <1>2 DEF TelemetryInv, ConsentRespected
<1>7. OncePerSink'
  BY <1>1, <1>6 DEF TelemetryInv, OncePerSink
<1>8. Allowed'
  BY <1>1, <1>2 DEF TelemetryInv, Allowed
<1>9. RecordedOnce'
  BY <1>1 DEF TelemetryInv, RecordedOnce
<1> QED
  BY <1>3, <1>4, <1>5, <1>7, <1>8, <1>9 DEF TelemetryInv

LEMMA WriteLineKeeps ==
  ASSUME TelemetryAssumption, TelemetryInv, WriteLine
  PROVE  TelemetryInv'
<1> DEFINE next == IF torn THEN Bad ELSE buffer[written + 1]
<1>1. /\ stage = "flushing" /\ written < Len(buffer) /\ written' = written + 1
      /\ lines' = Append(lines, next) /\ torn' = FALSE
      /\ UNCHANGED <<stage, consent, granted, enabled, recorded, buffer, known, batch, sent, lost,
                     before, spoilt, used, runs, troubles>>
  BY DEF WriteLine
<1>2. TelemetryTypeOK /\ granted /\ (torn <=> spoilt /\ written = 0)
  BY <1>1 DEF TelemetryInv, Allowed
<1>3. buffer = recorded /\ Len(lines) = before + written
  BY <1>1, <1>2 DEF TelemetryInv, NothingForgotten
<1>4. written + 1 \in DOMAIN recorded /\ written' \in 0..Len(recorded)
  BY <1>1, <1>2, <1>3 DEF TelemetryTypeOK
<1>5. next = LineOf(written + 1)
  <2>1. written + 1 = 1 <=> written = 0
    BY <1>2 DEF TelemetryTypeOK
  <2> QED
    BY <2>1, <1>2, <1>3 DEF LineOf
<1>6. next \in Event \union {Bad} /\ next \in used \union {Bad}
  BY <1>2, <1>3, <1>4 DEF TelemetryInv, TelemetryTypeOK, RecordedOnce
<1> HIDE DEF next
<1>7. /\ lines' \in Seq(Event \union {Bad}) /\ Len(lines') = Len(lines) + 1 /\ Len(lines) \in Nat
      /\ DOMAIN lines = 1..Len(lines) /\ DOMAIN lines' = 1..(Len(lines) + 1)
      /\ \A k \in 1..Len(lines) : lines'[k] = lines[k]
      /\ lines'[Len(lines) + 1] = next
  BY <1>1, <1>2, <1>6 DEF TelemetryTypeOK
<1>8. before \in Nat /\ written \in Nat
  BY <1>2 DEF TelemetryTypeOK
<1>9. TelemetryTypeOK'
  <2>1. before' \in 0..Len(lines')
    BY <1>1, <1>3, <1>7, <1>8
  <2> QED
    BY <1>1, <1>2, <1>4, <1>7, <2>1 DEF TelemetryTypeOK
<1>10. ConsentRespected' /\ KnowsTheRun'
  BY <1>1, <1>2 DEF TelemetryInv, ConsentRespected, KnowsTheRun
<1>11. NothingForgotten'
  <2>1. Len(lines') = before' + written'
    BY <1>1, <1>3, <1>7, <1>8
  <2>2. ASSUME NEW k \in 1..written' PROVE lines'[before' + k] = LineOf(k)'
    <3>1. LineOf(k)' = LineOf(k)
      BY <1>1 DEF LineOf
    <3>2. CASE k = written + 1
      <4>1. before' + k = Len(lines) + 1
        BY <3>2, <1>1, <1>3, <1>8
      <4> QED
        BY <4>1, <3>1, <3>2, <1>5, <1>7
    <3>3. CASE k \in 1..written
      <4>1. before + k \in 1..Len(lines)
        BY <3>3, <1>3, <1>8
      <4>2. lines[before + k] = LineOf(k)
        BY <3>3 DEF TelemetryInv, NothingForgotten
      <4> QED
        BY <4>1, <4>2, <3>1, <1>1, <1>7
    <3>4. k = written + 1 \/ k \in 1..written
      BY <1>1, <1>8
    <3> QED
      BY <3>2, <3>3, <3>4
  <2>3. \A k \in 1..written' : lines'[before' + k] = LineOf(k)'
    BY <2>2
  <2>4. (\A k \in 1..written : lines[before + k] = LineOf(k))'
    BY <2>3
  <2> QED
    BY <1>1, <1>3, <2>1, <2>4 DEF NothingForgotten
<1>12. next \in Event => \A i \in DOMAIN lines : lines[i] # next
  <2>1. SUFFICES ASSUME next \in Event, NEW i \in DOMAIN lines PROVE lines[i] # next
    OBVIOUS
  <2>2. next = recorded[written + 1]
    BY <2>1, <1>5 DEF LineOf, TelemetryAssumption
  <2>3. CASE i \in 1..before
    BY <2>2, <2>3, <1>4 DEF TelemetryInv, RecordedOnce
  <2>4. CASE i \in (before + 1)..(before + written)
    <3> DEFINE k == i - before
    <3>1. k \in 1..written /\ before + k = i /\ k # written + 1
      BY <2>4, <1>8
    <3> HIDE DEF k
    <3>2. lines[i] = LineOf(k)
      BY <3>1 DEF TelemetryInv, NothingForgotten
    <3>3. k \in DOMAIN recorded
      BY <3>1, <1>2 DEF TelemetryTypeOK
    <3>4. recorded[k] # recorded[written + 1]
      BY <3>1, <3>3, <1>4 DEF TelemetryInv, RecordedOnce
    <3> QED
      BY <2>1, <2>2, <3>2, <3>4 DEF LineOf, TelemetryAssumption
  <2> QED
    BY <2>3, <2>4, <1>3, <1>7, <1>8
<1>13. \A k \in DOMAIN lines' : k \in DOMAIN lines \/ k = Len(lines) + 1
  BY <1>7
<1>14. \A i, j \in DOMAIN lines' : lines'[i] = lines'[j] /\ lines'[i] \in Event => i = j
  <2>1. \A i, j \in DOMAIN lines : lines[i] = lines[j] /\ lines[i] \in Event => i = j
    BY DEF TelemetryInv, OncePerSink
  <2> QED
    BY <2>1, <1>7, <1>12, <1>13
<1>15. OncePerSink'
  BY <1>1, <1>14 DEF TelemetryInv, OncePerSink
<1>16. Allowed'
  <2>1. written' # 0 /\ ~torn' /\ stage' = "flushing"
    BY <1>1, <1>8
  <2>2. enabled' = granted' /\ granted' /\ (~Remote => batch' = <<>>)
    BY <1>1, <1>2 DEF TelemetryInv, Allowed
  <2> QED
    BY <2>1, <2>2 DEF Allowed
<1>17. \A i \in DOMAIN lines' : lines'[i] \in used' \union {Bad}
  BY <1>1, <1>6, <1>7, <1>13 DEF TelemetryInv, RecordedOnce
<1>18. \A i \in 1..before', k \in DOMAIN recorded' : lines'[i] # recorded'[k]
  <2>1. \A i \in 1..before : i \in 1..Len(lines)
    BY <1>3, <1>8
  <2> QED
    BY <2>1, <1>1, <1>7 DEF TelemetryInv, RecordedOnce
<1>19. RecordedOnce'
  BY <1>1, <1>17, <1>18 DEF TelemetryInv, RecordedOnce
<1> QED
  BY <1>9, <1>10, <1>11, <1>15, <1>16, <1>19 DEF TelemetryInv

\* The steps that end a flush.
LEMMA FlushEnds ==
  ASSUME TelemetryAssumption, TelemetryInv, stage = "flushing", stage' = "ended",
         UNCHANGED <<consent, granted, enabled, recorded, lines, known, before, spoilt, written,
                     used, runs>>,
         torn' \in BOOLEAN, NEW ok, Rest(ok), NEW n \in 0..2, Trouble(n),
         buffer' = buffer \/ (buffer' = <<>> /\ written = Len(buffer))
  PROVE  TelemetryInv'
<1>1. TelemetryTypeOK /\ granted
  BY DEF TelemetryInv, Allowed
<1>2. buffer = recorded /\ troubles' \in 0..MaxTroubles
  BY <1>1, TroubleKeeps DEF TelemetryInv, NothingForgotten
<1>3. Posts' /\ batch' = <<>>
  BY PostsHold, RestKeeps
<1>4. buffer' \in Seq(Event)
  <2>1. buffer \in Seq(Event) /\ <<>> \in Seq(Event)
    BY <1>1 DEF TelemetryTypeOK
  <2> QED
    BY <2>1
<1>5. TelemetryTypeOK'
  BY <1>1, <1>2, <1>3, <1>4 DEF TelemetryTypeOK, Posts
<1>6. ConsentRespected' /\ KnowsTheRun'
  BY <1>1 DEF TelemetryInv, ConsentRespected, KnowsTheRun
<1>7. NothingForgotten'
  BY <1>2 DEF TelemetryInv, NothingForgotten, LineOf
<1>8. OncePerSink'
  BY <1>3 DEF TelemetryInv, OncePerSink, Posts
<1>9. Allowed'
  BY <1>3 DEF Allowed
<1>10. RecordedOnce'
  BY <1>3 DEF TelemetryInv, RecordedOnce, Posts
<1> QED
  BY <1>5, <1>6, <1>7, <1>8, <1>9, <1>10 DEF TelemetryInv

LEMMA WrittenKeeps ==
  ASSUME TelemetryAssumption, TelemetryInv, NEW ok \in BOOLEAN, Written(ok)
  PROVE  TelemetryInv'
<1>1. torn' \in BOOLEAN /\ Cost(ok) \in 0..2
  BY CostIs DEF Written, TelemetryInv, TelemetryTypeOK
<1> QED
  BY <1>1, FlushEnds DEF Written

LEMMA CannotEncodeKeeps ==
  ASSUME TelemetryAssumption, TelemetryInv, NEW ok \in BOOLEAN, CannotEncode(ok)
  PROVE  TelemetryInv'
<1>1. torn' \in BOOLEAN /\ Cost(ok) \in 0..2
  BY CostIs DEF CannotEncode, TelemetryInv, TelemetryTypeOK
<1> QED
  BY <1>1, FlushEnds DEF CannotEncode

LEMMA CannotWriteKeeps ==
  ASSUME TelemetryAssumption, TelemetryInv, NEW ok \in BOOLEAN, NEW within \in BOOLEAN,
         CannotWrite(ok, within)
  PROVE  TelemetryInv'
<1>1. torn' \in BOOLEAN /\ 1 + Cost(ok) \in 0..2
  BY CostIs DEF CannotWrite
<1> QED
  BY <1>1, FlushEnds DEF CannotWrite

LEMMA DiesKeeps ==
  ASSUME TelemetryAssumption, TelemetryInv, NEW within \in BOOLEAN, Dies(within)
  PROVE  TelemetryInv'
<1>1. /\ stage # "ended" /\ stage' = "ended" /\ Trouble(1) /\ torn' = (torn \/ within)
      /\ within => stage = "flushing"
      /\ recorded' = SubSeq(recorded, 1, written)
      /\ buffer' = <<>> /\ batch' = <<>> /\ sent' = {} /\ lost' = {}
      /\ UNCHANGED <<consent, granted, enabled, lines, known, before, spoilt, written, used, runs>>
  BY DEF Dies
<1>2. TelemetryTypeOK /\ (within => granted)
  BY <1>1 DEF TelemetryInv, Allowed
<1>3. troubles' \in 0..MaxTroubles
  BY <1>1, <1>2, TroubleKeeps
<1>4. /\ recorded' \in Seq(Event) /\ Len(recorded') = written /\ written \in 0..Len(recorded)
      /\ DOMAIN recorded' = 1..written /\ \A k \in 1..written : recorded'[k] = recorded[k]
  BY <1>1, <1>2 DEF TelemetryTypeOK
<1>5. \A k \in 1..written : k \in DOMAIN recorded
  BY <1>2, <1>4 DEF TelemetryTypeOK
<1>6. batch' \in Seq(Event) /\ DOMAIN batch' = {} /\ Len(batch') < BatchSize /\ buffer' \in Seq(Event)
  BY <1>1 DEF TelemetryAssumption
<1>7. TelemetryTypeOK'
  BY <1>1, <1>2, <1>3, <1>4, <1>6 DEF TelemetryTypeOK
<1>8. ConsentRespected'
  BY <1>1, <1>2 DEF TelemetryInv, TelemetryTypeOK, ConsentRespected
<1>9. KnowsTheRun'
  BY <1>1, <1>4, <1>5 DEF TelemetryInv, KnowsTheRun
<1>10. NothingForgotten'
  BY <1>1, <1>4 DEF TelemetryInv, NothingForgotten, LineOf
<1>11. OncePerSink'
  BY <1>1, <1>6 DEF TelemetryInv, OncePerSink
<1>12. Allowed'
  BY <1>1 DEF Allowed
<1>13. RecordedOnce'
  BY <1>1, <1>4, <1>5, <1>6 DEF TelemetryInv, RecordedOnce
<1> QED
  BY <1>7, <1>8, <1>9, <1>10, <1>11, <1>12, <1>13 DEF TelemetryInv

LEMMA DecideKeeps ==
  ASSUME TelemetryAssumption, TelemetryInv,
         UNCHANGED telemetryVars \/ \E d \in {"granted", "denied"} : Decide(d)
  PROVE  TelemetryInv'
<1>1. UNCHANGED <<stage, granted, enabled, recorded, buffer, lines, torn, known, batch, sent,
                  lost, before, spoilt, written, used, runs, troubles>>
  BY DEF Decide, telemetryVars
<1>2. consent' \in {"none", "granted", "denied"}
  BY DEF Decide, telemetryVars, TelemetryInv, TelemetryTypeOK
<1>3. TelemetryTypeOK'
  BY <1>1, <1>2 DEF TelemetryInv, TelemetryTypeOK
<1>4. ConsentRespected' /\ KnowsTheRun'
  BY <1>1 DEF TelemetryInv, ConsentRespected, KnowsTheRun
<1>5. NothingForgotten'
  BY <1>1 DEF TelemetryInv, NothingForgotten, LineOf
<1>6. OncePerSink'
  BY <1>1 DEF TelemetryInv, OncePerSink
<1>7. Allowed'
  BY <1>1 DEF TelemetryInv, Allowed
<1>8. RecordedOnce'
  BY <1>1 DEF TelemetryInv, RecordedOnce
<1> QED
  BY <1>3, <1>4, <1>5, <1>6, <1>7, <1>8 DEF TelemetryInv

LEMMA NextStartKeeps ==
  ASSUME TelemetryAssumption, TelemetryInv, NextStart
  PROVE  TelemetryInv'
<1>1. /\ stage' = "asking" /\ enabled' = TRUE /\ granted' = FALSE
      /\ before' = Len(lines) /\ spoilt' = torn /\ written' = 0
      /\ recorded' = <<>> /\ buffer' = <<>> /\ batch' = <<>> /\ sent' = {} /\ lost' = {}
      /\ UNCHANGED <<consent, lines, torn, used, troubles>>
  BY DEF NextStart
<1>2. TelemetryTypeOK
  BY DEF TelemetryInv
<1>3. known' \subseteq Event
  <2>1. ToSet(lines) \subseteq Event \union {Bad}
    BY <1>2 DEF TelemetryTypeOK, ToSet
  <2> QED
    BY <2>1 DEF NextStart, Bootstrap
<1>4. runs' \in 1..MaxRuns
  BY <1>2 DEF NextStart, TelemetryTypeOK, TelemetryAssumption
<1>5. /\ batch' \in Seq(Event) /\ DOMAIN batch' = {} /\ Len(batch') < BatchSize
      /\ buffer' \in Seq(Event) /\ recorded' \in Seq(Event) /\ Len(recorded') = 0
      /\ DOMAIN recorded' = {} /\ Len(lines) \in Nat
  BY <1>1, <1>2 DEF TelemetryTypeOK, TelemetryAssumption
<1>6. TelemetryTypeOK'
  <2>1. /\ consent' \in {"none", "granted", "denied"} /\ lines' \in Seq(Event \union {Bad})
        /\ used' \subseteq Event /\ troubles' \in 0..MaxTroubles
        /\ torn' \in BOOLEAN /\ spoilt' \in BOOLEAN
    BY <1>1, <1>2 DEF TelemetryTypeOK
  <2>2. before' \in 0..Len(lines') /\ written' \in 0..Len(recorded')
    BY <1>1, <1>5
  <2>3. stage' = "asking" /\ enabled' \in BOOLEAN /\ granted' \in BOOLEAN
    BY <1>1
  <2>4. sent' \subseteq Event /\ lost' \subseteq Event
    BY <1>1
  <2> QED
    BY <1>3, <1>4, <1>5, <2>1, <2>2, <2>3, <2>4 DEF TelemetryTypeOK
<1>7. ConsentRespected' /\ KnowsTheRun'
  BY <1>1 DEF ConsentRespected, KnowsTheRun
<1>8. NothingForgotten'
  BY <1>1, <1>5 DEF NothingForgotten
<1>9. OncePerSink'
  BY <1>1, <1>5 DEF TelemetryInv, OncePerSink
<1>10. Allowed'
  <2>1. torn' <=> spoilt' /\ written' = 0
    BY <1>1, <1>2 DEF TelemetryTypeOK
  <2> QED
    BY <2>1, <1>1 DEF Allowed
<1>11. RecordedOnce'
  BY <1>1, <1>5 DEF TelemetryInv, RecordedOnce
<1> QED
  BY <1>6, <1>7, <1>8, <1>9, <1>10, <1>11 DEF TelemetryInv

LEMMA TelemetryStarts == ASSUME TelemetryAssumption, TelemetryInit PROVE TelemetryInv
<1>1. /\ stage = "asking" /\ consent \in {"none", "granted", "denied"} /\ ~granted /\ granted \in BOOLEAN
      /\ enabled = TRUE /\ recorded = <<>> /\ buffer = <<>> /\ lines = <<>> /\ torn = FALSE
      /\ known = {} /\ batch = <<>> /\ sent = {} /\ lost = {} /\ before = 0 /\ spoilt = FALSE
      /\ written = 0 /\ used = {} /\ runs = 1 /\ troubles = 0
  BY DEF TelemetryInit
<1>2. Len(<<>>) = 0 /\ DOMAIN <<>> = {} /\ 0 \in 0..0 /\ 0 \in 0..MaxTroubles /\ 1 \in 1..MaxRuns
        /\ 0 < BatchSize
  BY DEF TelemetryAssumption
<1>3. TelemetryTypeOK
  <2>1. /\ recorded \in Seq(Event) /\ buffer \in Seq(Event) /\ batch \in Seq(Event)
        /\ lines \in Seq(Event \union {Bad})
    BY <1>1
  <2>2. before \in 0..Len(lines) /\ written \in 0..Len(recorded)
    BY <1>1, <1>2
  <2>3. torn \in BOOLEAN /\ spoilt \in BOOLEAN /\ enabled \in BOOLEAN
    BY <1>1
  <2>4. known \subseteq Event /\ sent \subseteq Event /\ lost \subseteq Event /\ used \subseteq Event
    BY <1>1
  <2>5. stage = "asking" /\ runs \in 1..MaxRuns /\ troubles \in 0..MaxTroubles
    BY <1>1, <1>2
  <2> QED
    BY <1>1, <2>1, <2>2, <2>3, <2>4, <2>5 DEF TelemetryTypeOK
<1>4. ConsentRespected /\ KnowsTheRun /\ OncePerSink /\ RecordedOnce
  BY <1>1, <1>2 DEF ConsentRespected, KnowsTheRun, OncePerSink, RecordedOnce
<1>5. NothingForgotten
  BY <1>1, <1>2 DEF NothingForgotten
<1>6. Allowed
  <2>1. ~torn /\ ~spoilt
    BY <1>1
  <2> QED
    BY <2>1, <1>1 DEF Allowed
<1> QED
  BY <1>3, <1>4, <1>5, <1>6 DEF TelemetryInv

LEMMA TelemetryGoes ==
  ASSUME TelemetryAssumption, TelemetryInv, [TelemetryNext]_telemetryVars
  PROVE  TelemetryInv'
  BY AskKeeps, RecordKeeps, RunEndsKeeps, WriteLineKeeps, WrittenKeeps, CannotEncodeKeeps,
     CannotWriteKeeps, DiesKeeps, DecideKeeps, NextStartKeeps DEF TelemetryNext

LEMMA TelemetryHolds == ASSUME TelemetryAssumption PROVE TelemetrySpec => []TelemetryInv
<1>1. TelemetryInit => TelemetryInv
  BY TelemetryStarts
<1>2. TelemetryInv /\ [TelemetryNext]_telemetryVars => TelemetryInv'
  BY TelemetryGoes
<1> QED
  BY <1>1, <1>2, PTL DEF TelemetrySpec

-----------------------------------------------------------------------------
(* Permissions: the requests that are pending, what an allowance rests on, *)
(* and what the supervisor holds of a worker                               *)

(* Before a supervisor is bound nothing is held by one.                    *)
NothingApplied == ~supervised => \A w \in Worker, c \in Capability : applied[w][c] = "none"

GrantBooks == PermissionsInv /\ NothingApplied

(* what AllowanceHasBasis says of one grant *)
Grounded(g, ground) ==
  g.state = "allowed" =>
    \/ ground \in {"declared", "allow_always"}
    \/ ground = "allow_once" /\ g.once
    \/ ground = "allow_temporary" /\ g.expiry # "none"

LEMMA GrantFields ==
  /\ \A g \in Grant : /\ g.state \in States /\ g.pending \in BOOLEAN /\ g.once \in BOOLEAN
                      /\ g.expiry \in {"none", "running", "over"}
                      /\ g.used \in {"never", "recent", "long ago"}
  /\ NoGrant.state = "none" /\ NoGrant.pending = FALSE
  BY DEF Grant, NoGrant

LEMMA GrantTypes ==
  ASSUME PermissionTypeOK, NEW w \in Worker, NEW c \in Capability
  PROVE  /\ grants[w][c] \in Grant \union {NoGrant} /\ basis[w][c] \in Basis
         /\ c \in Held(w) <=> grants[w][c] \in Grant
         /\ c \notin Held(w) => grants[w][c] = NoGrant
<1>1. grants[w][c] \in Grant \union {NoGrant} /\ basis[w][c] \in Basis
  BY DEF PermissionTypeOK
<1>2. NoGrant \notin Grant
  BY DEF NoGrant, Grant, States
<1> QED
  BY <1>1, <1>2 DEF Held

LEMMA EnsuredGrant ==
  ASSUME GrantBooks, NEW w \in Worker, NEW c \in Capability
  PROVE  /\ Ensured(w, c) \in Grant /\ Based(w, c) \in Basis
         /\ Grounded(Ensured(w, c), Based(w, c))
         /\ c \in Held(w) => Ensured(w, c) = grants[w][c] /\ Based(w, c) = basis[w][c]
         /\ c \notin Held(w) => Ensured(w, c) = Fresh
<1>1. PermissionTypeOK /\ AllowanceHasBasis
  BY DEF GrantBooks, PermissionsInv
<1>2. Fresh \in Grant /\ "declared" \in Basis
  BY DEF Fresh, Grant, States, Basis
<1>3. CASE c \in Held(w)
  BY <1>1, <1>3, GrantTypes DEF Ensured, Based, Held, AllowanceHasBasis, Grounded
<1>4. CASE c \notin Held(w)
  BY <1>2, <1>4 DEF Ensured, Based, Held, Grounded
<1> QED
  BY <1>3, <1>4

(* One grant changes: the books still agree if its flag follows the set of *)
(* requests, an allowance has its basis, and the supervisor is told, or    *)
(* nothing but a request happened.                                         *)
LEMMA OneGrant ==
  ASSUME GrantBooks, NEW w \in Worker, NEW c \in Capability, NEW g \in Grant, NEW ground \in Basis,
         grants' = [grants EXCEPT ![w][c] = g], basis' = [basis EXCEPT ![w][c] = ground],
         UNCHANGED <<registered, supervised>>,
         pending' \in {pending, pending \union {<<w, c>>}, pending \ {<<w, c>>}},
         <<w, c>> \in pending' <=> g.pending,
         Grounded(g, ground),
         \/ Notify({w})
         \/ /\ UNCHANGED <<applied, orphaned>>
            /\ c \in Held(w) => g.state \in {grants[w][c].state, "pending"}
  PROVE  GrantBooks'
<1>1. PermissionTypeOK /\ RequestsAgree /\ AllowanceHasBasis /\ CopyFollows /\ NothingApplied
  BY DEF GrantBooks, PermissionsInv
<1>2. /\ grants' \in [Worker -> [Capability -> Grant \union {NoGrant}]]
      /\ basis' \in [Worker -> [Capability -> Basis]]
      /\ grants'[w][c] = g /\ basis'[w][c] = ground
      /\ \A v \in Worker, d \in Capability : v # w \/ d # c =>
           grants'[v][d] = grants[v][d] /\ basis'[v][d] = basis[v][d]
  BY <1>1 DEF PermissionTypeOK
<1>3. /\ \A v \in Worker, d \in Capability : v # w \/ d # c =>
           (d \in Held(v)' <=> d \in Held(v)) /\ (<<v, d>> \in pending' <=> <<v, d>> \in pending)
      /\ c \in Held(w)' /\ pending' \subseteq Worker \X Capability
  <2>1. g # NoGrant
    BY GrantFields DEF States
  <2>2. c \in Held(w)'
    BY <1>2, <2>1 DEF Held
  <2>3. ASSUME NEW v \in Worker, NEW d \in Capability, v # w \/ d # c
        PROVE  (d \in Held(v)' <=> d \in Held(v)) /\ (<<v, d>> \in pending' <=> <<v, d>> \in pending)
    <3>1. d \in Held(v)' <=> d \in Held(v)
      BY <1>2, <2>3 DEF Held
    <3>2. <<v, d>> # <<w, c>>
      BY <2>3
    <3> QED
      BY <3>1, <3>2
  <2>4. pending' \subseteq Worker \X Capability
    BY <1>1 DEF PermissionTypeOK
  <2> QED
    BY <2>2, <2>3, <2>4
<1>4. \/ /\ UNCHANGED <<applied, orphaned>>
         /\ ~supervised \/ (c \in Held(w) => g.state \in {grants[w][c].state, "pending"})
      \/ /\ supervised /\ orphaned' = orphaned \ {w}
         /\ applied' = [v \in Worker |-> IF v = w THEN [d \in Capability |-> grants'[v][d].state]
                                                  ELSE applied[v]]
  BY DEF Notify
<1>5. PermissionTypeOK'
  <2>1. applied' \in [Worker -> [Capability -> States \union {"none"}]]
    <3>1. \A d \in Capability : grants'[w][d].state \in States \union {"none"}
      <4> SUFFICES ASSUME NEW d \in Capability
                   PROVE  grants'[w][d].state \in States \union {"none"}
        OBVIOUS
      <4>1. grants'[w][d] \in Grant \union {NoGrant}
        BY <1>2
      <4> QED
        BY <4>1, GrantFields
    <3> QED
      BY <1>1, <1>4, <3>1 DEF PermissionTypeOK
  <2> QED
    BY <1>1, <1>2, <1>3, <1>4, <2>1 DEF PermissionTypeOK
<1>6. RequestsAgree'
  <2> SUFFICES ASSUME NEW v \in Worker, NEW d \in Capability
               PROVE  <<v, d>> \in pending' <=> d \in Held(v)' /\ grants'[v][d].pending
    BY DEF RequestsAgree
  <2>1. CASE v = w /\ d = c
    BY <1>2, <1>3, <2>1
  <2>2. CASE v # w \/ d # c
    <3>1. grants'[v][d] = grants[v][d]
      BY <1>2, <2>2
    <3> QED
      BY <1>1, <1>3, <2>2, <3>1, Zenon DEF RequestsAgree
  <2> QED
    BY <2>1, <2>2
<1>7. AllowanceHasBasis'
  <2> SUFFICES ASSUME NEW v \in Worker, NEW d \in Held(v)'
               PROVE  Grounded(grants'[v][d], basis'[v][d])
    BY DEF AllowanceHasBasis, Grounded
  <2>1. d \in Capability
    BY DEF Held
  <2>2. CASE v = w /\ d = c
    BY <1>2, <2>2
  <2>3. CASE v # w \/ d # c
    <3>1. /\ d \in Held(v) /\ grants'[v][d] = grants[v][d] /\ basis'[v][d] = basis[v][d]
      BY <1>2, <1>3, <2>1, <2>3
    <3>2. Grounded(grants[v][d], basis[v][d])
      BY <1>1, <3>1 DEF AllowanceHasBasis, Grounded
    <3> QED
      BY <3>1, <3>2
  <2> QED
    BY <2>2, <2>3
<1>8. CopyFollows' /\ NothingApplied'
  <2>1. CASE /\ UNCHANGED <<applied, orphaned>>
             /\ ~supervised \/ (c \in Held(w) => g.state \in {grants[w][c].state, "pending"})
    <3>1. NothingApplied'
      BY <1>1, <2>1 DEF NothingApplied
    <3>2. ASSUME NEW v \in Worker \ orphaned', NEW d \in Capability, applied'[v][d] # "none"
          PROVE  d \in Held(v)' /\ grants'[v][d].state \in {applied'[v][d], "pending"}
      <4>1. /\ d \in Held(v) /\ grants[v][d].state \in {applied[v][d], "pending"}
            /\ supervised /\ v \in Worker
        BY <1>1, <2>1, <3>2 DEF CopyFollows, NothingApplied
      <4>2. CASE v = w /\ d = c
        BY <1>2, <1>3, <2>1, <4>1, <4>2
      <4>3. CASE v # w \/ d # c
        BY <1>2, <1>3, <2>1, <4>1, <4>3
      <4> QED
        BY <4>2, <4>3
    <3> QED
      BY <3>1, <3>2 DEF CopyFollows
  <2>2. CASE /\ supervised /\ orphaned' = orphaned \ {w}
             /\ applied' = [v \in Worker |-> IF v = w
                              THEN [d \in Capability |-> grants'[v][d].state] ELSE applied[v]]
    <3>1. \A d \in Capability : applied'[w][d] = grants'[w][d].state
      BY <2>2
    <3>2. \A v \in Worker \ {w} : applied'[v] = applied[v]
      BY <1>1, <2>2 DEF PermissionTypeOK
    <3>3. \A d \in Capability : grants'[w][d] = NoGrant => grants'[w][d].state = "none"
      BY DEF NoGrant
    <3>4. ASSUME NEW v \in Worker \ orphaned', NEW d \in Capability, applied'[v][d] # "none"
          PROVE  d \in Held(v)' /\ grants'[v][d].state \in {applied'[v][d], "pending"}
      <4>1. CASE v = w
        BY <3>1, <3>3, <3>4, <4>1 DEF Held
      <4>2. CASE v # w
        BY <1>1, <1>2, <1>3, <2>2, <3>2, <3>4, <4>2 DEF CopyFollows
      <4> QED
        BY <4>1, <4>2
    <3> QED
      BY <2>2, <3>4 DEF CopyFollows, NothingApplied
  <2> QED
    BY <1>4, <2>1, <2>2
<1> QED
  BY <1>5, <1>6, <1>7, <1>8 DEF GrantBooks, PermissionsInv

-----------------------------------------------------------------------------
LEMMA RequestKeeps ==
  ASSUME GrantBooks, NEW w \in Worker, NEW c \in Capability, Request(w, c)
  PROVE  GrantBooks'
<1> DEFINE g == [Ensured(w, c) EXCEPT !.pending = TRUE, !.state = "pending"]
<1>1. g \in Grant /\ g.pending /\ g.state = "pending"
  BY EnsuredGrant DEF Grant, States
<1>2. /\ grants' = [grants EXCEPT ![w][c] = g] /\ basis' = [basis EXCEPT ![w][c] = Based(w, c)]
      /\ pending' = pending \union {<<w, c>>}
      /\ UNCHANGED <<registered, supervised, applied, orphaned>>
  BY DEF Request
<1> HIDE DEF g
<1>3. Grounded(g, Based(w, c))
  BY <1>1 DEF Grounded
<1> QED
  BY <1>1, <1>2, <1>3, EnsuredGrant, OneGrant

LEMMA ResolveKeeps ==
  ASSUME GrantBooks, NEW w \in Worker, NEW c \in Capability, NEW d \in Decisions, Resolve(w, c, d)
  PROVE  GrantBooks'
<1> DEFINE g == Decided(Ensured(w, c), d)
<1>1. g \in Grant /\ ~g.pending /\ Grounded(g, d) /\ d \in Basis
  <2> DEFINE e == Ensured(w, c)
  <2>1. e \in Grant
    BY EnsuredGrant
  <2>2. d \in Basis
    BY DEF Basis
  <2> HIDE DEF e
  <2>3. Decided(e, d) \in Grant
    BY <2>1 DEF Grant, States, Decided
  <2>4. ~Decided(e, d).pending
    BY <2>1 DEF Grant, Decided
  <2>5. Grounded(Decided(e, d), d)
    BY <2>1 DEF Grant, Decided, Grounded, Decisions
  <2> QED
    BY <2>2, <2>3, <2>4, <2>5 DEF e
<1>2. /\ grants' = [grants EXCEPT ![w][c] = g] /\ basis' = [basis EXCEPT ![w][c] = d]
      /\ pending' = pending \ {<<w, c>>} /\ Notify({w})
      /\ UNCHANGED <<registered, supervised>>
  BY DEF Resolve
<1> HIDE DEF g
<1> QED
  BY <1>1, <1>2, OneGrant

LEMMA ResolveRaisesKeeps ==
  ASSUME GrantBooks, NEW w \in Worker, NEW c \in Capability, ResolveRaises(w, c)
  PROVE  GrantBooks'
<1> DEFINE g == [Ensured(w, c) EXCEPT !.pending = FALSE]
<1>1. /\ g \in Grant /\ ~g.pending /\ Grounded(g, Based(w, c))
      /\ c \in Held(w) => g.state = grants[w][c].state
  BY EnsuredGrant DEF Grant, Grounded
<1>2. /\ grants' = [grants EXCEPT ![w][c] = g] /\ basis' = [basis EXCEPT ![w][c] = Based(w, c)]
      /\ pending' = pending \ {<<w, c>>}
      /\ UNCHANGED <<registered, supervised, applied, orphaned>>
  BY DEF ResolveRaises
<1> HIDE DEF g
<1> QED
  BY <1>1, <1>2, EnsuredGrant, OneGrant

LEMMA ActivityKeeps ==
  ASSUME GrantBooks, NEW w \in Worker, NEW c \in Capability, RecordActivity(w, c)
  PROVE  GrantBooks'
<1> DEFINE e == Ensured(w, c)
           g == [e EXCEPT !.used = "recent", !.once = FALSE,
                          !.state = IF UsedUp(e) THEN "revoked" ELSE @,
                          !.expiry = IF @ = "over" THEN "none" ELSE @]
           ground == IF UsedUp(e) THEN "none" ELSE Based(w, c)
<1>1. /\ e \in Grant /\ Based(w, c) \in Basis /\ Grounded(e, Based(w, c))
      /\ c \in Held(w) => e = grants[w][c]
      /\ c \notin Held(w) => ~e.pending
  BY EnsuredGrant DEF Fresh
<1>2. g \in Grant /\ g.pending = e.pending /\ Grounded(g, ground) /\ ground \in Basis
  BY <1>1 DEF Grant, States, Grounded, UsedUp, Basis
<1>3. <<w, c>> \in pending' <=> g.pending
  <2>1. RequestsAgree /\ pending' = pending
    BY DEF GrantBooks, PermissionsInv, RecordActivity
  <2> QED
    BY <1>1, <1>2, <2>1, Zenon DEF RequestsAgree
<1>4. /\ grants' = [grants EXCEPT ![w][c] = g] /\ basis' = [basis EXCEPT ![w][c] = ground]
      /\ Notify({w}) /\ UNCHANGED <<registered, pending, supervised>>
  BY DEF RecordActivity
<1> HIDE DEF g, ground
<1> QED
  BY <1>2, <1>3, <1>4, OneGrant

LEMMA TimeKeeps ==
  ASSUME GrantBooks, NEW w \in Worker, NEW c \in Capability, Expire(w, c) \/ Idle(w, c)
  PROVE  GrantBooks'
<1>1. /\ grants[w][c] \in Grant /\ basis[w][c] \in Basis
      /\ Grounded(grants[w][c], basis[w][c])
      /\ <<w, c>> \in pending <=> grants[w][c].pending
      /\ UNCHANGED <<registered, pending, supervised, applied, orphaned>> /\ basis' = basis
      /\ basis \in [Worker -> [Capability -> Basis]]
  BY GrantTypes, Zenon
     DEF Expire, Idle, GrantBooks, PermissionsInv, PermissionTypeOK, AllowanceHasBasis, RequestsAgree, Grounded
<1>2. PICK g \in Grant : /\ grants' = [grants EXCEPT ![w][c] = g]
                         /\ g.pending = grants[w][c].pending /\ g.state = grants[w][c].state
                         /\ Grounded(g, basis[w][c])
  <2>1. CASE Expire(w, c)
    <3> DEFINE g == [grants[w][c] EXCEPT !.expiry = "over"]
    <3>1. g \in Grant /\ grants' = [grants EXCEPT ![w][c] = g] /\ Grounded(g, basis[w][c])
      BY <1>1, <2>1 DEF Expire, Grant, Grounded
    <3> QED
      BY <1>1, <3>1 DEF Grant
  <2>2. CASE Idle(w, c)
    <3> DEFINE g == [grants[w][c] EXCEPT !.used = "long ago"]
    <3>1. g \in Grant /\ grants' = [grants EXCEPT ![w][c] = g] /\ Grounded(g, basis[w][c])
      BY <1>1, <2>2 DEF Idle, Grant, Grounded
    <3> QED
      BY <1>1, <3>1 DEF Grant
  <2> QED
    BY <2>1, <2>2
<1>3. basis' = [basis EXCEPT ![w][c] = basis[w][c]]
  BY <1>1
<1> QED
  BY <1>1, <1>2, <1>3, OneGrant

LEMMA RegisterKeeps ==
  ASSUME GrantBooks, NEW w \in Worker, NEW requires \in SUBSET Capability, Register(w, requires)
  PROVE  GrantBooks'
<1>1. PermissionTypeOK /\ RequestsAgree /\ AllowanceHasBasis /\ CopyFollows /\ NothingApplied
  BY DEF GrantBooks, PermissionsInv
<1>2. /\ registered' \subseteq Worker /\ UNCHANGED <<pending, supervised, applied, orphaned>>
      /\ \A c \in Capability :
           /\ grants'[w][c] = IF c \in requires THEN Ensured(w, c) ELSE grants[w][c]
           /\ basis'[w][c] = IF c \in requires THEN Based(w, c) ELSE basis[w][c]
      /\ \A v \in Worker : v # w => grants'[v] = grants[v] /\ basis'[v] = basis[v]
  BY <1>1 DEF Register, PermissionTypeOK
<1>3. PermissionTypeOK'
  <2>1. \A c \in Capability : /\ Ensured(w, c) \in Grant /\ Based(w, c) \in Basis
                             /\ grants[w][c] \in Grant \union {NoGrant} /\ basis[w][c] \in Basis
    BY <1>1, EnsuredGrant, GrantTypes
  <2>2. grants' \in [Worker -> [Capability -> Grant \union {NoGrant}]]
    BY <1>1, <2>1 DEF Register, PermissionTypeOK
  <2>3. basis' \in [Worker -> [Capability -> Basis]]
    BY <1>1, <2>1 DEF Register, PermissionTypeOK
  <2> QED
    BY <1>1, <1>2, <2>2, <2>3 DEF PermissionTypeOK
<1>4. ASSUME NEW v \in Worker, NEW c \in Capability
      PROVE  /\ <<v, c>> \in pending <=> c \in Held(v)' /\ grants'[v][c].pending
             /\ c \in Held(v)' => Grounded(grants'[v][c], basis'[v][c])
             /\ c \in Held(v) => c \in Held(v)' /\ grants'[v][c] = grants[v][c]
  <2>1. /\ c \in Held(v) => Grounded(grants[v][c], basis[v][c])
        /\ (<<v, c>> \in pending <=> c \in Held(v) /\ grants[v][c].pending)
    BY <1>1 DEF RequestsAgree, AllowanceHasBasis, Grounded
  <2>2. CASE v = w /\ c \in requires
    <3>1. grants'[v][c] = Ensured(w, c) /\ basis'[v][c] = Based(w, c)
      BY <1>2, <2>2
    <3>2. /\ Ensured(w, c) \in Grant /\ Grounded(Ensured(w, c), Based(w, c))
          /\ c \in Held(w) => Ensured(w, c) = grants[w][c]
          /\ c \notin Held(w) => Ensured(w, c).pending = FALSE
      BY EnsuredGrant DEF Fresh
    <3>3. c \in Held(v)'
      BY <3>1, <3>2, GrantFields DEF Held, States
    <3> QED
      BY <2>1, <2>2, <3>1, <3>2, <3>3
  <2>3. CASE v # w \/ c \notin requires
    <3>1. grants'[v][c] = grants[v][c] /\ basis'[v][c] = basis[v][c]
      BY <1>2, <2>3
    <3> QED
      BY <2>1, <3>1 DEF Held
  <2> QED
    BY <2>2, <2>3
<1>5. RequestsAgree'
  BY <1>2, <1>4 DEF RequestsAgree
<1>6. AllowanceHasBasis'
  BY <1>4 DEF AllowanceHasBasis, Grounded, Held
<1>7. CopyFollows' /\ NothingApplied'
  <2>1. ASSUME NEW v \in Worker \ orphaned', NEW c \in Capability, applied'[v][c] # "none"
        PROVE  c \in Held(v)' /\ grants'[v][c].state \in {applied'[v][c], "pending"}
    <3>1. c \in Held(v) /\ grants[v][c].state \in {applied[v][c], "pending"} /\ v \in Worker
      BY <1>1, <1>2, <2>1 DEF CopyFollows
    <3> QED
      BY <1>2, <1>4, <3>1
  <2> QED
    BY <1>1, <1>2, <2>1 DEF CopyFollows, NothingApplied
<1> QED
  BY <1>3, <1>5, <1>6, <1>7 DEF GrantBooks, PermissionsInv

LEMMA UnregisterKeeps ==
  ASSUME GrantBooks, NEW w \in Worker, Unregister(w)
  PROVE  GrantBooks'
<1>1. PermissionTypeOK /\ RequestsAgree /\ AllowanceHasBasis /\ CopyFollows /\ NothingApplied
  BY DEF GrantBooks, PermissionsInv
<1>2. /\ registered' \subseteq Worker /\ UNCHANGED <<supervised, applied>>
      /\ orphaned' = orphaned \union {w} /\ pending' = {r \in pending : r[1] # w}
      /\ \A c \in Capability : grants'[w][c] = NoGrant
      /\ \A v \in Worker : v # w => grants'[v] = grants[v] /\ basis'[v] = basis[v]
  BY <1>1 DEF Unregister, PermissionTypeOK
<1>3. PermissionTypeOK'
  <2>1. /\ grants' \in [Worker -> [Capability -> Grant \union {NoGrant}]]
        /\ basis' \in [Worker -> [Capability -> Basis]]
    BY <1>1 DEF Unregister, PermissionTypeOK, Basis
  <2> QED
    BY <1>1, <1>2, <2>1 DEF PermissionTypeOK
<1>4. \A v \in Worker : v # w => Held(v)' = Held(v)
  BY <1>2 DEF Held
<1>5. Held(w)' = {}
  BY <1>2 DEF Held
<1>6. RequestsAgree'
  <2> SUFFICES ASSUME NEW v \in Worker, NEW c \in Capability
               PROVE  <<v, c>> \in pending' <=> c \in Held(v)' /\ grants'[v][c].pending
    BY DEF RequestsAgree
  <2>1. <<v, c>> \in pending' <=> v # w /\ <<v, c>> \in pending
    BY <1>2
  <2>2. v # w => grants'[v][c] = grants[v][c]
    BY <1>2
  <2>3. <<v, c>> \in pending <=> c \in Held(v) /\ grants[v][c].pending
    BY <1>1 DEF RequestsAgree
  <2> QED
    BY <1>4, <1>5, <2>1, <2>2, <2>3
<1>7. AllowanceHasBasis'
  BY <1>1, <1>2, <1>4, <1>5 DEF AllowanceHasBasis
<1>8. CopyFollows' /\ NothingApplied'
  <2>1. ASSUME NEW v \in Worker \ orphaned', NEW c \in Capability, applied'[v][c] # "none"
        PROVE  c \in Held(v)' /\ grants'[v][c].state \in {applied'[v][c], "pending"}
    <3>1. v # w /\ v \in Worker \ orphaned /\ applied[v][c] # "none"
      BY <1>1, <1>2, <2>1
    <3>2. c \in Held(v) /\ grants[v][c].state \in {applied[v][c], "pending"}
      BY <1>1, <3>1 DEF CopyFollows
    <3> QED
      BY <1>2, <1>4, <3>1, <3>2
  <2> QED
    BY <1>1, <1>2, <2>1 DEF CopyFollows, NothingApplied
<1> QED
  BY <1>3, <1>6, <1>7, <1>8 DEF GrantBooks, PermissionsInv

LEMMA BindKeeps == ASSUME GrantBooks, BindSupervisor PROVE GrantBooks'
  BY DEF GrantBooks, PermissionsInv, NothingApplied, BindSupervisor, PermissionTypeOK, RequestsAgree,
         AllowanceHasBasis, CopyFollows, Held

(* The sweep takes an allowance away and touches no request.               *)
LEMMA SweptGrant ==
  ASSUME NEW g \in Grant \union {NoGrant}
  PROVE  /\ Swept(g) \in Grant \union {NoGrant} /\ (Swept(g) = NoGrant <=> g = NoGrant)
         /\ Swept(g).pending = g.pending
         /\ Swept(g).state = "allowed" => Swept(g) = g
<1>1. CASE g = NoGrant
  <2>1. Swept(NoGrant) = NoGrant
    BY DEF Swept, NoGrant
  <2> QED
    BY <1>1, <2>1
<1>2. CASE g \in Grant
  <2>1. Swept(g) \in Grant /\ Swept(g).pending = g.pending
    BY <1>2 DEF Swept, Grant, States, NoGrant
  <2>2. Swept(g).state = "allowed" => Swept(g) = g
    <3>1. CASE g.pending
      BY <1>2, <3>1, GrantFields DEF Swept, NoGrant, States
    <3>2. CASE ~g.pending /\ g.expiry = "over"
      BY <1>2, <3>2, GrantFields DEF Swept, Grant, NoGrant, States
    <3>3. CASE ~g.pending /\ g.expiry # "over" /\ g.used = "long ago" /\ g.state = "allowed"
      BY <1>2, <3>3, GrantFields DEF Swept, Grant, NoGrant, States
    <3>4. CASE ~g.pending /\ g.expiry # "over" /\ ~(g.used = "long ago" /\ g.state = "allowed")
      BY <1>2, <3>4, GrantFields DEF Swept, NoGrant, States
    <3> QED
      BY <3>1, <3>2, <3>3, <3>4
  <2> QED
    BY <1>2, <2>1, <2>2, GrantFields DEF States
<1> QED
  BY <1>1, <1>2

LEMMA SnapshotKeeps ==
  ASSUME GrantBooks, Snapshot
  PROVE  GrantBooks'
<1>1. PermissionTypeOK /\ RequestsAgree /\ AllowanceHasBasis /\ CopyFollows /\ NothingApplied
  BY DEF GrantBooks, PermissionsInv
<1>2. PICK dirty \in SUBSET Worker :
        /\ Notify(dirty)
        /\ \A w \in Worker \ dirty, c \in Capability :
             c \in Held(w) => Swept(grants[w][c]).state = grants[w][c].state
  <2> DEFINE swept == [w \in Worker |-> [c \in Capability |-> Swept(grants[w][c])]]
             dirty == {w \in Worker : \E c \in Held(w) : swept[w][c].state # grants[w][c].state}
  <2>1. Notify(dirty)
    BY DEF Snapshot
  <2>2. ASSUME NEW w \in Worker \ dirty, NEW c \in Capability, c \in Held(w)
        PROVE  Swept(grants[w][c]).state = grants[w][c].state
    BY <2>2
  <2> HIDE DEF dirty
  <2>3. dirty \in SUBSET Worker
    BY DEF dirty
  <2> QED
    BY <2>1, <2>2, <2>3
<1>3. /\ grants' = [w \in Worker |-> [c \in Capability |-> Swept(grants[w][c])]]
      /\ basis' = [w \in Worker |-> [c \in Capability |->
           IF grants[w][c] # Swept(grants[w][c]) THEN "none" ELSE basis[w][c]]]
      /\ UNCHANGED <<registered, pending, supervised>>
  BY DEF Snapshot
<1>4. ASSUME NEW w \in Worker, NEW c \in Capability
      PROVE  /\ grants'[w][c] = Swept(grants[w][c])
             /\ grants'[w][c] \in Grant \union {NoGrant} /\ basis'[w][c] \in Basis
             /\ c \in Held(w)' <=> c \in Held(w)
             /\ grants'[w][c].pending = grants[w][c].pending
             /\ grants'[w][c].state = "allowed" =>
                  grants'[w][c] = grants[w][c] /\ basis'[w][c] = basis[w][c]
  <2>1. /\ grants'[w][c] = Swept(grants[w][c])
        /\ basis'[w][c] = IF grants[w][c] # Swept(grants[w][c]) THEN "none" ELSE basis[w][c]
    BY <1>3
  <2>2. grants[w][c] \in Grant \union {NoGrant} /\ basis[w][c] \in Basis /\ "none" \in Basis
    BY <1>1, GrantTypes DEF Basis
  <2> QED
    BY <2>1, <2>2, SweptGrant DEF Held
<1>5. /\ applied' \in [Worker -> [Capability -> States \union {"none"}]] /\ orphaned' \subseteq Worker
  <2>1. \A w \in Worker, c \in Capability : grants'[w][c].state \in States \union {"none"}
    BY <1>4, GrantFields
  <2> QED
    BY <1>1, <1>2, <2>1 DEF Notify, PermissionTypeOK
<1>6. PermissionTypeOK'
  <2>1. grants' \in [Worker -> [Capability -> Grant \union {NoGrant}]]
    BY <1>3, <1>4
  <2>2. basis' \in [Worker -> [Capability -> Basis]]
    BY <1>3, <1>4
  <2> QED
    BY <1>1, <1>3, <1>5, <2>1, <2>2 DEF PermissionTypeOK
<1>7. RequestsAgree'
  <2> SUFFICES ASSUME NEW v \in Worker, NEW c \in Capability
               PROVE  <<v, c>> \in pending' <=> c \in Held(v)' /\ grants'[v][c].pending
    BY DEF RequestsAgree
  <2>1. <<v, c>> \in pending <=> c \in Held(v) /\ grants[v][c].pending
    BY <1>1 DEF RequestsAgree
  <2> QED
    BY <1>3, <1>4, <2>1
<1>8. AllowanceHasBasis'
  <2> SUFFICES ASSUME NEW v \in Worker, NEW c \in Capability, c \in Held(v)',
                      grants'[v][c].state = "allowed"
               PROVE  Grounded(grants'[v][c], basis'[v][c])
    BY DEF AllowanceHasBasis, Grounded, Held
  <2>1. c \in Held(v) /\ grants'[v][c] = grants[v][c] /\ basis'[v][c] = basis[v][c]
    BY <1>4
  <2> QED
    BY <1>1, <2>1 DEF AllowanceHasBasis, Grounded
<1>9. CopyFollows'
  <2> SUFFICES ASSUME NEW v \in Worker \ orphaned', NEW c \in Capability, applied'[v][c] # "none"
               PROVE  c \in Held(v)' /\ grants'[v][c].state \in {applied'[v][c], "pending"}
    BY DEF CopyFollows
  <2>1. CASE supervised /\ v \in dirty
    <3>1. applied'[v][c] = grants'[v][c].state
      BY <1>2, <2>1 DEF Notify
    <3> QED
      BY <3>1, GrantFields DEF Held
  <2>2. CASE ~(supervised /\ v \in dirty)
    <3>1. applied'[v] = applied[v] /\ v \notin orphaned
      BY <1>1, <1>2, <2>2 DEF Notify, PermissionTypeOK
    <3>2. c \in Held(v) /\ grants[v][c].state \in {applied[v][c], "pending"} /\ supervised
      BY <1>1, <3>1 DEF CopyFollows, NothingApplied
    <3>3. grants'[v][c].state = grants[v][c].state
      BY <1>2, <1>4, <2>2, <3>2
    <3> QED
      BY <1>4, <3>1, <3>2, <3>3
  <2> QED
    BY <2>1, <2>2
<1>10. NothingApplied'
  BY <1>1, <1>2, <1>3 DEF NothingApplied, Notify
<1> QED
  BY <1>6, <1>7, <1>8, <1>9, <1>10 DEF GrantBooks, PermissionsInv

-----------------------------------------------------------------------------
LEMMA GrantsStart == PermissionInit => GrantBooks
<1> SUFFICES ASSUME PermissionInit PROVE GrantBooks
  OBVIOUS
<1>1. \A w \in Worker, c \in Capability :
        grants[w][c] = NoGrant /\ applied[w][c] = "none" /\ <<w, c>> \notin pending
  BY DEF PermissionInit
<1>2. PermissionTypeOK
  BY DEF PermissionInit, PermissionTypeOK, Basis
<1> QED
  BY <1>1, <1>2
     DEF GrantBooks, PermissionsInv, RequestsAgree, AllowanceHasBasis, CopyFollows, NothingApplied, Held

LEMMA GrantsGo == GrantBooks /\ [PermissionNext]_permissionVars => GrantBooks'
<1> SUFFICES ASSUME GrantBooks, [PermissionNext]_permissionVars PROVE GrantBooks'
  OBVIOUS
<1>1. CASE UNCHANGED permissionVars
  BY <1>1 DEF permissionVars, GrantBooks, PermissionsInv, PermissionTypeOK, RequestsAgree, AllowanceHasBasis, CopyFollows,
              NothingApplied, Held
<1> QED
  BY <1>1, BindKeeps, SnapshotKeeps, UnregisterKeeps, RegisterKeeps, RequestKeeps,
     ResolveRaisesKeeps, ActivityKeeps, TimeKeeps, ResolveKeeps DEF PermissionNext

(* The pending count and the security center's list name the same          *)
(* requests, an allowance rests on what allowed it, and a supervisor's     *)
(* copy follows the manager, for any workers and capabilities.             *)
LEMMA PermissionsHold == PermissionSpec => []PermissionsInv
<1>1. GrantBooks => PermissionsInv
  BY DEF GrantBooks
<1> QED
  BY <1>1, GrantsStart, GrantsGo, PTL DEF PermissionSpec

-----------------------------------------------------------------------------
(* The cache of a file (FileCache) *)

(* No time is later than the last write, and no file has no entries.       *)
TimesOK ==
  /\ mtime <= clock /\ \A p \in Process : seen[p] <= clock /\ stat[p] <= clock
  /\ mtime = 0 => contents = Cache!Nothing

(* the copies, the file and the times *)
Data ==
  /\ contents \in Cache!Contents /\ mtime \in 0..MaxWrites /\ clock \in 0..MaxWrites
  /\ mem \in [Process -> Cache!Contents] /\ seen \in [Process -> 0..MaxWrites]
  /\ stat \in [Process -> 0..MaxWrites]
  /\ behind \subseteq Process /\ writers \subseteq Process /\ saveFails \in 0..MaxSaveFails
  /\ TimesOK /\ Cache!SeenIsSame /\ Cache!AloneInStep

(* A thread is at a call that names what its operation needs, and one that *)
(* has the lock is about to read the file.                                 *)
Threads ==
  /\ lock \in [Process -> Caller \union {Cache!NoLock}]
  /\ call \in [Caller -> Cache!Calls \union {Cache!Idle}] /\ calls \in 0..MaxCalls
  /\ up \in [Process -> {"new", "loaded", "up"}]
  /\ \A t \in Caller : call[t] # Cache!Idle =>
       /\ call[t] \in Cache!Calls
       /\ call[t].op \notin {"prune", "clear"} => call[t].key \in Key
       /\ call[t].op = "set" => call[t].value \in Value
  /\ \A t \in Caller : lock[CallerOf[t]] = t => call[t] # Cache!Idle /\ call[t].at = "load"

LEMMA CacheParts == Data /\ Threads => Cache!CacheInv
  BY DEF Data, Threads, Cache!CacheInv, Cache!TypeOK

LEMMA NothingType == Cache!Nothing \in Cache!Contents /\ \A k \in Key : Cache!Nothing[k] = Cache!Absent
  BY DEF Cache!Nothing, Cache!Contents

(* A thread's call goes on, or returns; nobody takes the lock.             *)
LEMMA CallGoesOn ==
  ASSUME Threads, Cache!CacheAssumption, NEW t \in Caller, call[t] # Cache!Idle,
         \/ Cache!Return(t)
         \/ \E at \in {"check", "body", "remove"} : Cache!Step(t, at),
         \/ UNCHANGED lock /\ lock[CallerOf[t]] # t
         \/ lock' = [lock EXCEPT ![CallerOf[t]] = Cache!NoLock],
         UNCHANGED <<calls, up>>
  PROVE  Threads'
<1>1. /\ CallerOf[t] \in Process /\ call[t] \in Cache!Calls
      /\ call[t].op \notin {"prune", "clear"} => call[t].key \in Key
      /\ call[t].op = "set" => call[t].value \in Value
  BY DEF Cache!CacheAssumption, Threads
<1>2. \/ call' = [call EXCEPT ![t] = Cache!Idle]
      \/ \E at \in {"check", "body", "remove"} : call' = [call EXCEPT ![t] = [call[t] EXCEPT !.at = at]]
  BY DEF Cache!Return, Cache!Step, Threads
<1>3. \/ call'[t] = Cache!Idle
      \/ /\ call'[t] \in Cache!Calls /\ call'[t].op = call[t].op /\ call'[t].key = call[t].key
         /\ call'[t].value = call[t].value
  BY <1>1, <1>2 DEF Threads, Cache!Calls
<1>4. /\ call' \in [Caller -> Cache!Calls \union {Cache!Idle}] /\ \A u \in Caller : u # t => call'[u] = call[u]
  BY <1>2, <1>3 DEF Threads
<1>5. /\ lock' \in [Process -> Caller \union {Cache!NoLock}]
      /\ lock'[CallerOf[t]] # t
      /\ \A u \in Caller : lock'[CallerOf[u]] = u => lock[CallerOf[u]] = u
  BY <1>1 DEF Threads, Cache!CacheAssumption
<1> QED
  BY <1>1, <1>3, <1>4, <1>5 DEF Threads

(* A save: either the file is the copy and later than whatever was seen,   *)
(* or the process is behind.                                               *)
LEMMA SaveKeeps ==
  ASSUME Data, Cache!CacheAssumption, NEW p \in Process, NEW copy \in Cache!Contents, Cache!Save(p, copy),
         UNCHANGED <<seen, stat>>
  PROVE  Data'
<1>1. /\ mem' = [mem EXCEPT ![p] = copy] /\ mem'[p] = copy
      /\ \A q \in Process : q # p => mem'[q] = mem[q]
      /\ mem' \in [Process -> Cache!Contents]
  BY DEF Cache!Save, Data
<1>2. CASE /\ clock < MaxWrites
           /\ contents' = copy /\ mtime' = clock + 1 /\ clock' = clock + 1
           /\ behind' = behind \ {p} /\ writers' = writers \union {p} /\ UNCHANGED saveFails
  <2>1. /\ mtime' \in 0..MaxWrites /\ clock' \in 0..MaxWrites /\ mtime' # 0
        /\ \A q \in Process : seen[q] < mtime'
    BY <1>2 DEF Data, TimesOK, Cache!CacheAssumption
  <2>2. TimesOK'
    BY <1>2, <2>1 DEF Data, TimesOK, Cache!CacheAssumption
  <2>3. Cache!SeenIsSame'
    BY <1>2, <2>1 DEF Cache!SeenIsSame, Data
  <2>4. Cache!AloneInStep'
    BY <1>1, <1>2 DEF Cache!AloneInStep
  <2> QED
    BY <1>1, <1>2, <2>1, <2>2, <2>3, <2>4 DEF Data
<1>3. CASE /\ saveFails < MaxSaveFails /\ saveFails' = saveFails + 1
           /\ behind' = behind \union {p} /\ UNCHANGED <<contents, mtime, clock, writers>>
  <2>1. saveFails' \in 0..MaxSaveFails
    BY <1>3 DEF Data, Cache!CacheAssumption
  <2>2. TimesOK'
    BY <1>3 DEF Data, TimesOK
  <2>3. Cache!SeenIsSame' /\ Cache!AloneInStep'
    BY <1>1, <1>3 DEF Data, Cache!SeenIsSame, Cache!AloneInStep
  <2> QED
    BY <1>1, <1>3, <2>1, <2>2, <2>3 DEF Data
<1> QED
  BY <1>2, <1>3 DEF Cache!Save

LEMMA SameData ==
  ASSUME Data, UNCHANGED <<contents, mtime, clock, mem, seen, stat, behind, writers, saveFails>>
  PROVE  Data'
  BY DEF Data, TimesOK, Cache!SeenIsSame, Cache!AloneInStep

(* One process has what the file has, under a time that is not later.      *)
LEMMA LookKeeps ==
  ASSUME Data, Cache!CacheAssumption, NEW p \in Process, NEW time \in 0..MaxWrites, time <= clock,
         \/ mem' = [mem EXCEPT ![p] = contents] /\ behind' \in {behind, behind \ {p}}
         \/ mem' = mem /\ behind' = IF mem[p] = contents THEN behind ELSE behind \union {p},
         seen' = [seen EXCEPT ![p] = time],
         \/ UNCHANGED stat
         \/ stat' = [stat EXCEPT ![p] = 0],
         UNCHANGED <<contents, mtime, clock, writers, saveFails>>
  PROVE  Data'
<1>1. /\ mem' \in [Process -> Cache!Contents] /\ \A q \in Process : q # p => mem'[q] = mem[q]
      /\ mem'[p] = contents \/ p \in behind'
      /\ behind' \subseteq Process /\ \A q \in Process : q # p => (q \in behind' <=> q \in behind)
  BY DEF Data
<1>2. /\ seen' \in [Process -> 0..MaxWrites] /\ seen'[p] = time
      /\ \A q \in Process : q # p => seen'[q] = seen[q]
  BY DEF Data
<1>3. stat' \in [Process -> 0..MaxWrites] /\ \A q \in Process : stat'[q] <= clock
  <2>1. 0 \in 0..MaxWrites /\ 0 <= clock
    BY DEF Data, Cache!CacheAssumption
  <2> QED
    BY <2>1 DEF Data, TimesOK
<1>4. TimesOK'
  BY <1>2, <1>3 DEF Data, TimesOK
<1>5. Cache!SeenIsSame' /\ Cache!AloneInStep'
  BY <1>1, <1>2 DEF Data, Cache!SeenIsSame, Cache!AloneInStep
<1> QED
  BY <1>1, <1>2, <1>3, <1>4, <1>5 DEF Data

-----------------------------------------------------------------------------
LEMMA ReadFirstKeeps ==
  ASSUME Data, Threads, Cache!CacheAssumption, NEW p \in Process, Cache!ReadFirst(p)
  PROVE  Data' /\ Threads'
<1>1. seen' = [seen EXCEPT ![p] = seen[p]] /\ seen[p] \in 0..MaxWrites /\ seen[p] <= clock
  BY DEF Cache!ReadFirst, Data, TimesOK
<1>2. Data'
  BY <1>1, LookKeeps DEF Cache!ReadFirst
<1>3. Threads'
  BY DEF Cache!ReadFirst, Threads
<1> QED
  BY <1>2, <1>3

LEMMA LookFirstKeeps ==
  ASSUME Data, Threads, Cache!CacheAssumption, NEW p \in Process, Cache!LookFirst(p)
  PROVE  Data' /\ Threads'
<1>1. mtime \in 0..MaxWrites /\ mtime <= clock
  BY DEF Data, TimesOK
<1>2. Data'
  BY <1>1, LookKeeps DEF Cache!LookFirst
<1>3. Threads'
  BY DEF Cache!LookFirst, Threads
<1> QED
  BY <1>2, <1>3

LEMMA BeginKeeps ==
  ASSUME Data, Threads, Cache!CacheAssumption, NEW t \in Caller, Cache!Begin(t)
  PROVE  Data' /\ Threads'
<1>1. Data'
  BY SameData DEF Cache!Begin
<1>2. PICK op \in Cache!Op, k \in Key \union {Blank}, v \in Value \union {Blank} :
        /\ k = Blank <=> op \in {"prune", "clear"}
        /\ v = Blank <=> op # "set"
        /\ call' = [call EXCEPT ![t] = [op |-> op, key |-> k, value |-> v, at |-> "check"]]
  BY DEF Cache!Begin
<1> DEFINE c == [op |-> op, key |-> k, value |-> v, at |-> "check"]
<1>3. /\ c \in Cache!Calls
      /\ c.op \notin {"prune", "clear"} => c.key \in Key
      /\ c.op = "set" => c.value \in Value
  BY <1>2 DEF Cache!Calls
<1>4. call' = [call EXCEPT ![t] = c] /\ call[t] = Cache!Idle
  BY <1>2 DEF Cache!Begin
<1>5. calls' \in 0..MaxCalls /\ UNCHANGED <<lock, up>>
  BY DEF Cache!Begin, Threads, Cache!CacheAssumption
<1> HIDE DEF c
<1>6. lock[CallerOf[t]] # t
  BY <1>4 DEF Threads
<1>7. /\ call' \in [Caller -> Cache!Calls \union {Cache!Idle}] /\ call'[t] = c
      /\ \A u \in Caller : u # t => call'[u] = call[u]
  BY <1>3, <1>4 DEF Threads
<1>8. \A u \in Caller : lock'[CallerOf[u]] = u => call'[u] # Cache!Idle /\ call'[u].at = "load"
  BY <1>5, <1>6, <1>7 DEF Threads
<1>9. Threads'
  BY <1>3, <1>5, <1>7, <1>8 DEF Threads
<1> QED
  BY <1>1, <1>9

LEMMA CheckKeeps ==
  ASSUME Data, Threads, Cache!CacheAssumption, NEW t \in Caller, Cache!FileMissing(t) \/ Cache!Stat(t)
  PROVE  Data' /\ Threads'
<1>1. /\ CallerOf[t] \in Process /\ call[t] # Cache!Idle /\ call[t].at = "check"
      /\ lock[CallerOf[t]] # t /\ "body" \in {"check", "body", "remove"}
  BY DEF Cache!FileMissing, Cache!Stat, Cache!Free, Cache!CacheAssumption
<1>2. CASE Cache!FileMissing(t)
  <2>1. mem' = [mem EXCEPT ![CallerOf[t]] = contents] /\ 0 \in 0..MaxWrites /\ 0 <= clock
    BY <1>2 DEF Cache!FileMissing, Data, TimesOK, Cache!CacheAssumption
  <2>2. Data'
    BY <1>1, <1>2, <2>1, LookKeeps DEF Cache!FileMissing
  <2>3. Threads'
    BY <1>1, <1>2, CallGoesOn DEF Cache!FileMissing
  <2> QED
    BY <2>2, <2>3
<1>3. CASE Cache!Stat(t) /\ mtime > seen[CallerOf[t]]
  <2>1. /\ lock' = [lock EXCEPT ![CallerOf[t]] = t]
        /\ stat' = [stat EXCEPT ![CallerOf[t]] = mtime]
        /\ call' = [call EXCEPT ![t] = [call[t] EXCEPT !.at = "load"]]
        /\ UNCHANGED <<contents, mtime, clock, mem, seen, calls, up, behind, writers, saveFails>>
        /\ lock[CallerOf[t]] = Cache!NoLock
    BY <1>3 DEF Cache!Stat, Cache!Step, Cache!Free
  <2>2. stat' \in [Process -> 0..MaxWrites] /\ \A p \in Process : stat'[p] <= clock
    BY <1>1, <2>1 DEF Data, TimesOK
  <2>3. Data'
    BY <2>1, <2>2 DEF Data, TimesOK, Cache!SeenIsSame, Cache!AloneInStep
  <2>4. /\ call'[t] \in Cache!Calls /\ call'[t] # Cache!Idle /\ call'[t].at = "load"
        /\ call'[t].op = call[t].op /\ call'[t].key = call[t].key /\ call'[t].value = call[t].value
    <3>1. call[t] \in Cache!Calls
      BY <1>1 DEF Threads
    <3>2. call'[t] = [call[t] EXCEPT !.at = "load"]
      BY <2>1 DEF Threads
    <3> QED
      BY <3>1, <3>2 DEF Cache!Calls, Cache!Idle
  <2>5. \A u \in Caller : u # t => call'[u] = call[u] /\ (lock'[CallerOf[u]] = u => lock[CallerOf[u]] = u)
    BY <1>1, <2>1 DEF Threads, Cache!CacheAssumption
  <2>6. call' \in [Caller -> Cache!Calls \union {Cache!Idle}] /\ lock' \in [Process -> Caller \union {Cache!NoLock}]
    BY <2>1, <2>4 DEF Threads
  <2> QED
    BY <1>1, <2>1, <2>3, <2>4, <2>5, <2>6 DEF Threads
<1>4. CASE Cache!Stat(t) /\ ~(mtime > seen[CallerOf[t]])
  <2>1. Cache!Step(t, "body")
        /\ UNCHANGED <<contents, mtime, clock, mem, seen, stat, behind, writers, saveFails, lock, calls, up>>
    BY <1>4 DEF Cache!Stat
  <2> QED
    BY <1>1, <2>1, SameData, CallGoesOn
<1> QED
  BY <1>2, <1>3, <1>4

LEMMA LoadKeeps ==
  ASSUME Data, Threads, Cache!CacheAssumption, NEW t \in Caller, Cache!Load(t)
  PROVE  Data' /\ Threads'
<1>1. /\ CallerOf[t] \in Process /\ call[t] # Cache!Idle /\ "body" \in {"check", "body", "remove"}
      /\ stat[CallerOf[t]] \in 0..MaxWrites /\ stat[CallerOf[t]] <= clock
  BY DEF Cache!Load, Threads, Cache!CacheAssumption, Data, TimesOK
<1>2. Data'
  BY <1>1, LookKeeps DEF Cache!Load
<1>3. Threads'
  BY <1>1, CallGoesOn DEF Cache!Load
<1> QED
  BY <1>2, <1>3

(* An operation proper: the copy is kept, or a copy of the same kind saved. *)
LEMMA BodyKeeps ==
  ASSUME Data, Threads, Cache!CacheAssumption, NEW t \in Caller, call[t] # Cache!Idle, call[t].at # "load",
         \/ Cache!Keep
         \/ \E copy \in Cache!Contents : Cache!Save(CallerOf[t], copy),
         Cache!Return(t) \/ Cache!Step(t, "remove"),
         UNCHANGED <<seen, lock, calls, stat, up>>
  PROVE  Data' /\ Threads'
<1>1. CallerOf[t] \in Process /\ lock[CallerOf[t]] # t
  BY DEF Cache!CacheAssumption, Threads
<1>2. Data'
  BY <1>1, SaveKeeps, SameData DEF Cache!Keep
<1>3. Threads'
  BY <1>1, CallGoesOn
<1> QED
  BY <1>2, <1>3

LEMMA OperationKeeps ==
  ASSUME Data, Threads, Cache!CacheAssumption, NEW t \in Caller,
         Cache!Get(t) \/ Cache!Set(t) \/ Cache!Delete(t) \/ Cache!PopGet(t) \/ Cache!PopRemove(t) \/ Cache!Prune(t)
  PROVE  Data' /\ Threads'
<1> DEFINE p == CallerOf[t]
           without == [mem[p] EXCEPT ![call[t].key] = Cache!Absent]
<1>1. /\ call[t] # Cache!Idle /\ call[t].at # "load" /\ call[t].op \in Cache!Op
      /\ UNCHANGED <<seen, lock, calls, stat, up>>
      /\ p \in Process /\ mem[p] \in Cache!Contents
      /\ call[t].op \notin {"prune", "clear"} => call[t].key \in Key
      /\ call[t].op = "set" => call[t].value \in Value
  BY DEF Cache!Get, Cache!Set, Cache!Delete, Cache!PopGet, Cache!PopRemove, Cache!Prune, Cache!At, Cache!CacheAssumption, Threads, Data, Cache!Calls
<1>2. without \in Cache!Contents
  BY <1>1 DEF Cache!Contents
<1>3. CASE Cache!Get(t) \/ Cache!Delete(t) \/ Cache!PopGet(t) \/ Cache!PopRemove(t)
  <2>1. Cache!Keep \/ Cache!Save(p, without)
    BY <1>3 DEF Cache!Get, Cache!Delete, Cache!PopGet, Cache!PopRemove
  <2>2. Cache!Return(t) \/ Cache!Step(t, "remove")
    BY <1>3 DEF Cache!Get, Cache!Delete, Cache!PopGet, Cache!PopRemove
  <2> QED
    BY <1>1, <1>2, <2>1, <2>2, BodyKeeps
<1>4. CASE Cache!Set(t)
  <2> DEFINE entry == [value |-> call[t].value, fresh |-> TRUE]
  <2>1. entry \in Cache!Entry
    BY <1>1, <1>4 DEF Cache!Set, Cache!At, Cache!Entry
  <2>2. [mem[p] EXCEPT ![call[t].key] = entry] \in Cache!Contents
    BY <1>1, <2>1 DEF Cache!Contents
  <2>3. Cache!Save(p, [mem[p] EXCEPT ![call[t].key] = entry]) /\ Cache!Return(t)
    BY <1>4 DEF Cache!Set
  <2> QED
    BY <1>1, <2>2, <2>3, BodyKeeps
<1>5. CASE Cache!Prune(t)
  <2> DEFINE left == [k \in Key |-> IF Cache!Fresh(mem[p][k]) THEN mem[p][k] ELSE Cache!Absent]
  <2>1. left \in Cache!Contents
    BY <1>1 DEF Cache!Contents
  <2>2. (Cache!Keep \/ Cache!Save(p, left)) /\ Cache!Return(t)
    BY <1>5 DEF Cache!Prune
  <2> QED
    BY <1>1, <2>1, <2>2, BodyKeeps
<1> QED
  BY <1>3, <1>4, <1>5

LEMMA ClearKeeps ==
  ASSUME Data, Threads, Cache!CacheAssumption, NEW t \in Caller, Cache!Clear(t)
  PROVE  Data' /\ Threads'
<1> DEFINE p == CallerOf[t]
<1>1. /\ p \in Process /\ call[t] # Cache!Idle /\ lock[p] # t
      /\ mem' = [mem EXCEPT ![p] = Cache!Nothing] /\ seen' = [seen EXCEPT ![p] = 0]
      /\ contents' = Cache!Nothing /\ mtime' = 0 /\ Cache!Return(t)
      /\ behind' = behind \ {p} /\ writers' = writers \union {p}
      /\ UNCHANGED <<clock, lock, calls, stat, up, saveFails>>
  BY DEF Cache!Clear, Cache!At, Cache!Free, Cache!CacheAssumption
<1>2. Threads'
  BY <1>1, CallGoesOn
<1>3. /\ mem' \in [Process -> Cache!Contents] /\ mem'[p] = Cache!Nothing
      /\ seen' \in [Process -> 0..MaxWrites] /\ \A q \in Process : seen'[q] <= clock
      /\ 0 \in 0..MaxWrites /\ 0 <= clock
  BY <1>1, NothingType DEF Data, TimesOK, Cache!CacheAssumption
<1>4. TimesOK'
  BY <1>1, <1>3 DEF Data, TimesOK
<1>5. Cache!SeenIsSame' /\ Cache!AloneInStep'
  BY <1>1, <1>3 DEF Cache!SeenIsSame, Cache!AloneInStep
<1>6. Data'
  BY <1>1, <1>3, <1>4, <1>5, NothingType DEF Data
<1> QED
  BY <1>2, <1>6

(* What is held in two places runs out in both.                            *)
LEMMA ExpireKeeps ==
  ASSUME Data, Threads, NEW k \in Key, Cache!Expire(k)
  PROVE  Data' /\ Threads'
<1> DEFINE Old(copy) == IF copy[k] = Cache!Absent THEN copy ELSE [copy EXCEPT ![k].fresh = FALSE]
<1>1. /\ mem' = [p \in Process |-> Old(mem[p])] /\ contents' = Old(contents)
      /\ UNCHANGED <<mtime, clock, seen, lock, call, calls, stat, up, behind, writers, saveFails>>
  BY DEF Cache!Expire
<1>2. ASSUME NEW copy \in Cache!Contents
      PROVE  Old(copy) \in Cache!Contents
  <2>1. CASE copy[k] = Cache!Absent
    BY <2>1
  <2>2. CASE copy[k] # Cache!Absent
    <3>1. copy[k] \in Cache!Entry
      BY <2>2 DEF Cache!Contents
    <3>2. [copy[k] EXCEPT !.fresh = FALSE] \in Cache!Entry
      BY <3>1 DEF Cache!Entry
    <3> QED
      BY <2>2, <3>2 DEF Cache!Contents
  <2> QED
    BY <2>1, <2>2
<1>3. Old(Cache!Nothing) = Cache!Nothing
  BY NothingType
<1> HIDE DEF Old
<1>4. TimesOK'
  BY <1>1, <1>3 DEF Data, TimesOK
<1>5. Cache!SeenIsSame' /\ Cache!AloneInStep'
  BY <1>1 DEF Data, Cache!SeenIsSame, Cache!AloneInStep
<1>6. Data'
  BY <1>1, <1>2, <1>4, <1>5 DEF Data
<1>7. Threads'
  BY <1>1 DEF Threads
<1> QED
  BY <1>6, <1>7

-----------------------------------------------------------------------------
LEMMA CacheBegins ==
  ASSUME Cache!CacheAssumption, Cache!Init
  PROVE  Data /\ Threads
<1>1. 0 \in 0..MaxWrites /\ 0 \in 0..MaxCalls /\ 0 \in 0..MaxSaveFails
  BY DEF Cache!CacheAssumption
<1>2. Data
  BY <1>1, NothingType DEF Cache!Init, Data, TimesOK, Cache!SeenIsSame, Cache!AloneInStep
<1>3. Threads
  BY <1>1 DEF Cache!Init, Threads, Cache!CacheAssumption
<1> QED
  BY <1>2, <1>3

LEMMA CacheGoes ==
  ASSUME Cache!CacheAssumption, Data, Threads, [Cache!Next]_(Cache!vars)
  PROVE  Data' /\ Threads'
<1>1. CASE UNCHANGED Cache!vars
  BY <1>1, SameData DEF Cache!vars, Threads
<1> QED
  BY <1>1, ReadFirstKeeps, LookFirstKeeps, BeginKeeps, CheckKeeps, LoadKeeps, OperationKeeps,
     ClearKeeps, ExpireKeeps DEF Cache!Next

(* A process that has looked since the last write holds what the file      *)
(* holds, unless a save of its own failed; one that is alone with the file *)
(* always does.                                                            *)
LEMMA CacheHolds ==
  ASSUME Cache!CacheAssumption
  PROVE  Cache!Spec => []Cache!CacheInv
<1>1. Cache!Init => Data /\ Threads
  BY CacheBegins
<1>2. Data /\ Threads /\ [Cache!Next]_(Cache!vars) => (Data /\ Threads)'
  BY CacheGoes
<1> QED
  BY <1>1, <1>2, CacheParts, PTL DEF Cache!Spec
-----------------------------------------------------------------------------
(* The error popups (ErrorPopups) *)

Frame == Pop!Dialog \cup {Pop!Polling}

(* What is queued or waits for its probe was reported; where _poll has     *)
(* taken something since an error of the queue came, it is still at work.  *)
Queued ==
  /\ taken \subseteq probes /\ probes \subseteq reported /\ Pop!ToSet(queue) \subseteq reported
  /\ \A e \in taken : e \in Pop!ToSet(queue) => Pop!Polling \in Pop!ToSet(stack)

PopupBooks == Pop!TypeOK /\ Pop!NobodyForgotten /\ Pop!LostWithWindow /\ Pop!DialogsHaveWindows /\ Queued

-----------------------------------------------------------------------------
(* Sequences *)

LEMMA Appended ==
  ASSUME NEW S, NEW s \in Seq(S), NEW x \in S
  PROVE  /\ Append(s, x) \in Seq(S) /\ Pop!ToSet(Append(s, x)) = Pop!ToSet(s) \cup {x}
         /\ DOMAIN Append(s, x) = DOMAIN s \cup {Len(s) + 1}
         /\ Append(s, x)[Len(s) + 1] = x
         /\ \A i \in DOMAIN s : Append(s, x)[i] = s[i]
BY DEF Pop!ToSet

LEMMA HeadTailSet ==
  ASSUME NEW S, NEW s \in Seq(S), s # <<>>
  PROVE  /\ Head(s) \in S /\ Tail(s) \in Seq(S)
         /\ Pop!ToSet(s) \subseteq {Head(s)} \cup Pop!ToSet(Tail(s)) /\ Pop!ToSet(Tail(s)) \subseteq Pop!ToSet(s)
<1>1. /\ Len(s) \in Nat \ {0} /\ DOMAIN s = 1..Len(s) /\ Head(s) = s[1] /\ Tail(s) \in Seq(S)
      /\ Len(Tail(s)) = Len(s) - 1 /\ DOMAIN Tail(s) = 1..Len(s) - 1
      /\ \A i \in 1..Len(s) - 1 : Tail(s)[i] = s[i + 1]
  OBVIOUS
<1>2. \A i \in DOMAIN s : s[i] \in S
  OBVIOUS
<1>3. ASSUME NEW i \in DOMAIN s, i # 1
      PROVE  s[i] \in Pop!ToSet(Tail(s))
  <2>1. i - 1 \in 1..Len(s) - 1 /\ Tail(s)[i - 1] = s[i]
    BY <1>1, <1>3
  <2> QED
    BY <1>1, <2>1 DEF Pop!ToSet
<1>4. Pop!ToSet(Tail(s)) \subseteq Pop!ToSet(s)
  BY <1>1 DEF Pop!ToSet
<1>5. Pop!ToSet(s) \subseteq {Head(s)} \cup Pop!ToSet(Tail(s))
  BY <1>1, <1>3 DEF Pop!ToSet
<1> QED
  BY <1>1, <1>2, <1>4, <1>5

LEMMA FrontLastSet ==
  ASSUME NEW S, NEW s \in Seq(S), s # <<>>
  PROVE  /\ Pop!Last(s) \in S /\ Pop!Front(s) \in Seq(S)
         /\ Pop!ToSet(s) = Pop!ToSet(Pop!Front(s)) \cup {Pop!Last(s)}
         /\ DOMAIN Pop!Front(s) \subseteq DOMAIN s
         /\ \A i \in DOMAIN Pop!Front(s) : Pop!Front(s)[i] = s[i]
<1> DEFINE n == Len(s)
<1>1. n \in Nat \ {0} /\ DOMAIN s = 1..n /\ \A i \in 1..n : s[i] \in S
  OBVIOUS
<1>2. Pop!Last(s) = s[n] /\ Pop!Front(s) = [i \in 1..n - 1 |-> s[i]]
  BY <1>1 DEF Pop!Last, Pop!Front
<1> HIDE DEF n
<1>3. Pop!Front(s) \in Seq(S) /\ DOMAIN Pop!Front(s) = 1..n - 1
  BY <1>1, <1>2
<1>4. Pop!ToSet(s) = Pop!ToSet(Pop!Front(s)) \cup {Pop!Last(s)}
  BY <1>1, <1>2, <1>3 DEF Pop!ToSet
<1> QED
  BY <1>1, <1>2, <1>3, <1>4

LEMMA Frames ==
  /\ Pop!Polling \in Frame /\ Pop!Polling.kind = "poll"
  /\ \A f \in Frame : f.kind = "dialog" => f \in Pop!Dialog /\ f # Pop!Polling
  /\ \A f \in Frame : f.kind # "dialog" => f = Pop!Polling
BY DEF Frame, Pop!Dialog, Pop!Polling

LEMMA ClosedFrames ==
  ASSUME NEW s \in Seq(Frame), NEW w \in Pop!Window
  PROVE  /\ Pop!Closed(s, w) \in Seq(Frame)
         /\ Pop!Polling \in Pop!ToSet(s) => Pop!Polling \in Pop!ToSet(Pop!Closed(s, w))
         /\ DOMAIN Pop!Closed(s, w) = DOMAIN s
         /\ \A i \in DOMAIN s : Pop!Closed(s, w)[i].kind = "dialog" /\ Pop!Closed(s, w)[i].open =>
              s[i].kind = "dialog" /\ s[i].open /\ Pop!Closed(s, w)[i].root = s[i].root /\ s[i].root # w
<1> DEFINE c == Pop!Closed(s, w)
<1>1. /\ DOMAIN c = DOMAIN s /\ DOMAIN s = 1..Len(s) /\ Len(s) \in Nat
      /\ \A i \in DOMAIN s : s[i] \in Frame
      /\ \A i \in DOMAIN s : c[i] = IF s[i].kind = "dialog" /\ s[i].root = w
                                    THEN [s[i] EXCEPT !.open = FALSE] ELSE s[i]
  BY DEF Pop!Closed
<1> HIDE DEF c
<1>2. ASSUME NEW i \in DOMAIN s
      PROVE  /\ c[i] \in Frame
             /\ s[i] = Pop!Polling => c[i] = Pop!Polling
             /\ c[i].kind = "dialog" /\ c[i].open =>
                  s[i].kind = "dialog" /\ s[i].open /\ c[i].root = s[i].root /\ s[i].root # w
  <2>1. CASE s[i].kind = "dialog" /\ s[i].root = w
    <3>1. s[i] \in Pop!Dialog /\ s[i] # Pop!Polling
      BY <1>1, <2>1, Frames
    <3>2. c[i] = [s[i] EXCEPT !.open = FALSE]
      BY <1>1, <2>1
    <3>3. c[i] \in Pop!Dialog /\ c[i].open = FALSE
      BY <3>1, <3>2 DEF Pop!Dialog
    <3> QED
      BY <3>1, <3>3 DEF Frame
  <2>2. CASE ~(s[i].kind = "dialog" /\ s[i].root = w)
    BY <1>1, <2>2
  <2> QED
    BY <2>1, <2>2
<1>3. c \in Seq(Frame)
  <2>1. c = [i \in 1..Len(s) |-> c[i]]
    BY <1>1 DEF c, Pop!Closed
  <2> QED
    BY <1>1, <1>2, <2>1
<1>4. Pop!Polling \in Pop!ToSet(s) => Pop!Polling \in Pop!ToSet(c)
  BY <1>1, <1>2 DEF Pop!ToSet
<1> QED
  BY <1>1, <1>2, <1>3, <1>4 DEF c

-----------------------------------------------------------------------------
(* What a step does, whatever it is: every error reported is told, lost    *)
(* with the window or still on its way, as it was before.                  *)

(* Windows and dialogs that a step of the main thread leaves.              *)
Standing(frames) ==
  \A i \in DOMAIN frames :
    frames[i].kind = "dialog" /\ frames[i].open => Pop!Alive(frames[i].root)

LEMMA Reached ==
  ASSUME Pop!TypeOK
  PROVE  /\ Pop!Current \in Pop!Window \cup {"none"}
         /\ Pop!Current # "none" => Pop!Alive(Pop!Current)
BY DEF Pop!Current, Pop!Alive, Pop!TypeOK, Pop!Window

LEMMA ShowIs ==
  ASSUME Pop!TypeOK, NEW e \in Error, NEW below \in Seq(Frame), Standing(below), UNCHANGED app,
         Pop!Show(e, below)
  PROVE  /\ stack' \in Seq(Frame) /\ Pop!ToSet(below) \subseteq Pop!ToSet(stack') /\ Pop!DialogsHaveWindows'
         /\ e \in shown' \cup native' /\ shown \subseteq shown' /\ native \subseteq native'
         /\ shown' \subseteq Error /\ native' \subseteq Error
         /\ hidden' \in BOOLEAN /\ rootRef' \in Pop!Window \cup {"none"} /\ pump' \in BOOLEAN
         /\ polls' \in [Pop!Window -> 0..4]
<1>1. /\ hidden' \in BOOLEAN /\ rootRef' \in Pop!Window \cup {"none"} /\ pump' \in BOOLEAN
      /\ polls' \in [Pop!Window -> 0..4]
  <2>1. \/ UNCHANGED <<hidden, rootRef, pump, polls>>
        \/ /\ hidden' = TRUE /\ rootRef' = "hidden" /\ pump' = TRUE
           /\ polls' = [polls EXCEPT !["hidden"] = 4]
    BY DEF Pop!Show
  <2>2. [polls EXCEPT !["hidden"] = 4] \in [Pop!Window -> 0..4]
    <3>1. polls \in [Pop!Window -> 0..4] /\ 4 \in 0..4
      BY DEF Pop!TypeOK
    <3> QED
      BY <3>1
  <2> QED
    BY <2>1, <2>2 DEF Pop!TypeOK, Pop!Window
<1>2. CASE Pop!Current = "none" /\ native' = native \cup {e} /\ stack' = below /\ UNCHANGED <<hidden, shown>>
  <2>1. Pop!DialogsHaveWindows'
    BY <1>2 DEF Pop!DialogsHaveWindows, Standing, Pop!Alive
  <2> QED
    BY <1>1, <1>2, <2>1 DEF Pop!TypeOK
<1>3. ASSUME NEW w \in Pop!Window, Pop!Over(e, w, below), Pop!Alive(w)', hidden => hidden'
      PROVE  /\ stack' \in Seq(Frame) /\ Pop!ToSet(below) \subseteq Pop!ToSet(stack') /\ Pop!DialogsHaveWindows'
             /\ e \in shown' \cup native' /\ shown \subseteq shown' /\ native \subseteq native'
             /\ shown' \subseteq Error /\ native' \subseteq Error
  <2>1. PICK made \in BOOLEAN :
          /\ stack' = Append(below, [kind |-> "dialog", error |-> e, root |-> w, open |-> made])
          /\ shown' = IF made THEN shown \union {e} ELSE shown
          /\ native' = IF made THEN native ELSE native \union {e}
    BY <1>3 DEF Pop!Over
  <2> DEFINE d == [kind |-> "dialog", error |-> e, root |-> w, open |-> made]
  <2>2. d \in Frame /\ d.root = w
    BY DEF Frame, Pop!Dialog
  <2> HIDE DEF d
  <2>3. /\ stack' \in Seq(Frame) /\ Pop!ToSet(below) \subseteq Pop!ToSet(stack')
        /\ DOMAIN stack' = DOMAIN below \cup {Len(below) + 1} /\ stack'[Len(below) + 1] = d
        /\ \A i \in DOMAIN below : stack'[i] = below[i]
    BY <2>1, <2>2, Appended DEF d
  <2>4. \A v : Pop!Alive(v) => Pop!Alive(v)'
    BY <1>3 DEF Pop!Alive
  <2>5. Pop!DialogsHaveWindows'
    BY <1>3, <2>2, <2>3, <2>4 DEF Pop!DialogsHaveWindows, Standing
  <2> QED
    BY <2>1, <2>3, <2>5 DEF Pop!TypeOK
<1>4. CASE Pop!Current # "none" /\ Pop!Over(e, Pop!Current, below) /\ UNCHANGED <<hidden, rootRef, pump, polls>>
  <2>1. Pop!Current \in Pop!Window /\ Pop!Alive(Pop!Current)
    BY <1>4, Reached
  <2>2. PICK w \in Pop!Window : w = Pop!Current /\ Pop!Over(e, w, below) /\ Pop!Alive(w)
    BY <1>4, <2>1
  <2>3. Pop!Alive(w)' /\ hidden' = hidden
    BY <1>4, <2>2 DEF Pop!Alive
  <2>4. shown \subseteq shown' /\ native \subseteq native'
    BY <1>3, <2>2, <2>3
  <2> QED
    BY <1>1, <1>3, <2>2, <2>3, <2>4
<1>5. CASE hidden' = TRUE /\ Pop!Over(e, "hidden", below)
  <2>1. "hidden" \in Pop!Window /\ Pop!Alive("hidden")'
    BY <1>5 DEF Pop!Window, Pop!Alive
  <2> QED
    BY <1>1, <1>3, <1>5, <2>1
<1> QED
  BY <1>2, <1>4, <1>5 DEF Pop!Show

LEMMA DestroyIs ==
  ASSUME Pop!TypeOK, NEW w \in Pop!Window, NEW frames \in Seq(Frame), Standing(frames), Pop!Destroy(w, frames)
  PROVE  /\ stack' \in Seq(Frame) /\ Pop!DialogsHaveWindows'
         /\ Pop!Polling \in Pop!ToSet(frames) => Pop!Polling \in Pop!ToSet(stack')
         /\ polls' \in [Pop!Window -> 0..4] /\ rootRef' \in Pop!Window \cup {"none"}
         /\ app' \in {"none", "open", "gone"} /\ hidden' \in BOOLEAN
         /\ \/ app' = "gone" /\ posted' = {} /\ astray' = astray \cup posted
            \/ UNCHANGED <<app, posted, astray>>
<1>1. stack' = Pop!Closed(frames, w)
  BY DEF Pop!Destroy
<1>2. Pop!DialogsHaveWindows'
  <2>1. ASSUME NEW i \in DOMAIN frames, stack'[i].kind = "dialog", stack'[i].open
        PROVE  \/ stack'[i].root = "app" /\ app' = "open"
               \/ stack'[i].root = "hidden" /\ hidden'
    <3>1. /\ frames[i].kind = "dialog" /\ frames[i].open /\ stack'[i].root = frames[i].root
          /\ frames[i].root # w
      BY <1>1, <2>1, ClosedFrames
    <3>2. Pop!Alive(frames[i].root)
      BY <3>1 DEF Standing
    <3>3. w = "app" \/ w = "hidden"
      BY DEF Pop!Window
    <3> QED
      BY <3>1, <3>2, <3>3 DEF Pop!Alive, Pop!Destroy
  <2>2. DOMAIN stack' = DOMAIN frames
    BY <1>1, ClosedFrames
  <2> QED
    BY <2>1, <2>2 DEF Pop!DialogsHaveWindows, Pop!Alive
<1>3. polls' \in [Pop!Window -> 0..4]
  <2>1. polls \in [Pop!Window -> 0..4] /\ 0 \in 0..4 /\ polls' = [polls EXCEPT ![w] = 0]
    BY DEF Pop!TypeOK, Pop!Destroy
  <2> QED
    BY <2>1
<1>4. rootRef' \in Pop!Window \cup {"none"} /\ app' \in {"none", "open", "gone"} /\ hidden' \in BOOLEAN
  BY DEF Pop!Destroy, Pop!TypeOK
<1>5. \/ app' = "gone" /\ posted' = {} /\ astray' = astray \cup posted
      \/ UNCHANGED <<app, posted, astray>>
  BY DEF Pop!Destroy
<1> QED
  BY <1>1, <1>2, <1>3, <1>4, <1>5, ClosedFrames

(* The news of the errors, from the sets alone.                            *)
LEMMA NewsKept ==
  ASSUME PopupBooks, ~over', shown \subseteq shown', native \subseteq native', astray \subseteq astray',
         \A e \in reported' \ reported :
            \/ e \in shown' \cup native'
            \/ e \in posted' /\ app' = "open"
            \/ e \in Pop!ToSet(queue') /\ e \in probes',
         \A e \in posted : app = "open" =>
             e \in shown' \cup native' \cup astray' \/ (e \in posted' /\ app' = "open"),
         \A e \in Pop!ToSet(queue) : e \in Pop!ToSet(queue') \/ e \in shown' \cup native',
         \A e \in probes : e \in probes' \/ e \in native' \/ e \in taken,
         Pop!Polling \in Pop!ToSet(stack) => Pop!Polling \in Pop!ToSet(stack') \/ queue = <<>>,
         reported \subseteq reported', ~over
  PROVE  Pop!NobodyForgotten'
<1>1. SUFFICES ASSUME NEW e \in reported', e \notin shown' \cup native' \cup astray'
               PROVE  \/ e \in posted' /\ app' = "open"
                      \/ e \in Pop!ToSet(queue') /\ (e \in probes' \/ Pop!Polling \in Pop!ToSet(stack'))
  BY DEF Pop!NobodyForgotten
<1>2. queue = <<>> => Pop!ToSet(queue) = {}
  BY DEF Pop!ToSet
<1>3. CASE e \in reported
  <2>1. \/ e \in posted /\ app = "open"
        \/ e \in Pop!ToSet(queue) /\ (e \in probes \/ Pop!Polling \in Pop!ToSet(stack))
    BY <1>1, <1>3 DEF PopupBooks, Pop!NobodyForgotten
  <2>2. e \in Pop!ToSet(queue) /\ e \in taken => Pop!Polling \in Pop!ToSet(stack)
    BY DEF PopupBooks, Queued
  <2> QED
    BY <1>1, <1>2, <2>1, <2>2
<1>4. CASE e \notin reported
  BY <1>1, <1>4
<1> QED
  BY <1>3, <1>4

-----------------------------------------------------------------------------
(* The steps *)

LEMMA Now ==
  ASSUME PopupBooks
  PROVE  /\ stack \in Seq(Frame) /\ queue \in Seq(Error) /\ Standing(stack)
         /\ Pop!Polling \in Frame /\ \A i \in DOMAIN stack : stack[i] \in Frame
BY Frames DEF PopupBooks, Pop!TypeOK, Frame, Standing, Pop!DialogsHaveWindows

LEMMA OpenStep == ASSUME PopupBooks, Pop!OpenApp PROVE PopupBooks'
<1>1. /\ app = "none" /\ app' = "open" /\ rootRef' = "app" /\ pump' = TRUE
      /\ polls' = [polls EXCEPT !["app"] = 4]
      /\ UNCHANGED <<keep, hidden, queue, posted, stack, probes, taken, shown, native, astray, reported, over>>
  BY DEF Pop!OpenApp
<1>2. polls' \in [Pop!Window -> 0..4]
  <2>1. polls \in [Pop!Window -> 0..4] /\ 4 \in 0..4
    BY DEF PopupBooks, Pop!TypeOK
  <2> QED
    BY <1>1, <2>1
<1>3. Pop!TypeOK'
  BY <1>1, <1>2 DEF PopupBooks, Pop!TypeOK, Pop!Window
<1>4. Pop!LostWithWindow' /\ Pop!DialogsHaveWindows' /\ Queued' /\ Pop!NobodyForgotten'
  BY <1>1 DEF PopupBooks, Pop!LostWithWindow, Pop!DialogsHaveWindows, Pop!Alive, Queued, Pop!NobodyForgotten
<1> QED
  BY <1>3, <1>4 DEF PopupBooks

LEMMA RaiseStep == ASSUME PopupBooks, NEW e \in Error, Pop!MainRaises(e) PROVE PopupBooks'
<1>1. /\ reported' = reported \union {e} /\ Pop!Show(e, stack) /\ ~over
      /\ UNCHANGED <<keep, app, queue, posted, probes, taken, astray, over>>
  BY DEF Pop!MainRaises
<1>2. /\ stack' \in Seq(Frame) /\ Pop!ToSet(stack) \subseteq Pop!ToSet(stack') /\ Pop!DialogsHaveWindows'
      /\ e \in shown' \cup native' /\ shown \subseteq shown' /\ native \subseteq native'
      /\ shown' \subseteq Error /\ native' \subseteq Error
      /\ hidden' \in BOOLEAN /\ rootRef' \in Pop!Window \cup {"none"} /\ pump' \in BOOLEAN
      /\ polls' \in [Pop!Window -> 0..4]
  BY <1>1, ShowIs, Now DEF PopupBooks
<1>3. Pop!TypeOK'
  BY <1>1, <1>2 DEF PopupBooks, Pop!TypeOK, Frame
<1>4. Pop!NobodyForgotten'
  BY <1>1, <1>2, NewsKept
<1>5. Queued'
  BY <1>1, <1>2 DEF PopupBooks, Queued
<1>6. Pop!LostWithWindow'
  BY <1>1 DEF PopupBooks, Pop!LostWithWindow
<1> QED
  BY <1>2, <1>3, <1>4, <1>5, <1>6 DEF PopupBooks

LEMMA PostedStep == ASSUME PopupBooks, NEW e \in Error, Pop!RunPosted(e) PROVE PopupBooks'
<1>1. /\ posted' = posted \ {e} /\ Pop!Show(e, stack) /\ ~over
      /\ UNCHANGED <<keep, app, queue, probes, taken, astray, reported, over>>
  BY DEF Pop!RunPosted
<1>2. /\ stack' \in Seq(Frame) /\ Pop!ToSet(stack) \subseteq Pop!ToSet(stack') /\ Pop!DialogsHaveWindows'
      /\ e \in shown' \cup native' /\ shown \subseteq shown' /\ native \subseteq native'
      /\ shown' \subseteq Error /\ native' \subseteq Error
      /\ hidden' \in BOOLEAN /\ rootRef' \in Pop!Window \cup {"none"} /\ pump' \in BOOLEAN
      /\ polls' \in [Pop!Window -> 0..4]
  BY <1>1, ShowIs, Now DEF PopupBooks
<1>3. Pop!TypeOK'
  BY <1>1, <1>2 DEF PopupBooks, Pop!TypeOK, Frame
<1>4. Pop!NobodyForgotten'
  BY <1>1, <1>2, NewsKept
<1>5. Queued'
  BY <1>1, <1>2 DEF PopupBooks, Queued
<1>6. Pop!LostWithWindow'
  BY <1>1 DEF PopupBooks, Pop!LostWithWindow
<1> QED
  BY <1>2, <1>3, <1>4, <1>5, <1>6 DEF PopupBooks

LEMMA PollStartStep == ASSUME PopupBooks, NEW w \in Pop!Window, Pop!PollStarts(w) PROVE PopupBooks'
<1>1. /\ polls[w] > 0 /\ polls' = [polls EXCEPT ![w] = @ - 1] /\ stack' = Append(stack, Pop!Polling) /\ ~over
      /\ UNCHANGED <<keep, app, hidden, rootRef, pump, queue, posted, probes, taken, shown, native,
                     astray, reported, over>>
  BY DEF Pop!PollStarts
<1>2. /\ stack' \in Seq(Frame) /\ Pop!ToSet(stack) \subseteq Pop!ToSet(stack')
      /\ DOMAIN stack' = DOMAIN stack \cup {Len(stack) + 1} /\ stack'[Len(stack) + 1] = Pop!Polling
      /\ \A i \in DOMAIN stack : stack'[i] = stack[i]
  BY <1>1, Now, Appended
<1>3. polls' \in [Pop!Window -> 0..4]
  <2>1. polls \in [Pop!Window -> 0..4] /\ polls[w] - 1 \in 0..4
    BY <1>1 DEF PopupBooks, Pop!TypeOK
  <2> QED
    BY <1>1, <2>1
<1>4. Pop!TypeOK'
  BY <1>1, <1>2, <1>3 DEF PopupBooks, Pop!TypeOK, Frame
<1>5. Pop!DialogsHaveWindows'
  BY <1>1, <1>2, Frames DEF PopupBooks, Pop!DialogsHaveWindows, Pop!Alive
<1>6. Pop!NobodyForgotten'
  BY <1>1, <1>2, NewsKept
<1>7. Queued' /\ Pop!LostWithWindow'
  BY <1>1, <1>2 DEF PopupBooks, Queued, Pop!LostWithWindow
<1> QED
  BY <1>4, <1>5, <1>6, <1>7 DEF PopupBooks

LEMMA PollTakesStep == ASSUME PopupBooks, Pop!PollTakes PROVE PopupBooks'
<1>1. /\ stack # <<>> /\ Pop!Last(stack) = Pop!Polling /\ queue # <<>> /\ ~over
      /\ queue' = Tail(queue) /\ taken' = taken \union probes /\ Pop!Show(Head(queue), stack)
      /\ UNCHANGED <<keep, app, posted, probes, astray, reported, over>>
  BY DEF Pop!PollTakes
<1>2. /\ Head(queue) \in Error /\ queue' \in Seq(Error)
      /\ Pop!ToSet(queue) \subseteq {Head(queue)} \cup Pop!ToSet(queue') /\ Pop!ToSet(queue') \subseteq Pop!ToSet(queue)
  BY <1>1, Now, HeadTailSet
<1>3. /\ stack' \in Seq(Frame) /\ Pop!ToSet(stack) \subseteq Pop!ToSet(stack') /\ Pop!DialogsHaveWindows'
      /\ Head(queue) \in shown' \cup native' /\ shown \subseteq shown' /\ native \subseteq native'
      /\ shown' \subseteq Error /\ native' \subseteq Error
      /\ hidden' \in BOOLEAN /\ rootRef' \in Pop!Window \cup {"none"} /\ pump' \in BOOLEAN
      /\ polls' \in [Pop!Window -> 0..4]
  BY <1>1, <1>2, ShowIs, Now DEF PopupBooks
<1>4. Pop!Polling \in Pop!ToSet(stack')
  BY <1>1, <1>3, Now, FrontLastSet
<1>5. Pop!TypeOK'
  BY <1>1, <1>2, <1>3 DEF PopupBooks, Pop!TypeOK, Frame
<1>6. Pop!NobodyForgotten'
  BY <1>1, <1>2, <1>3, <1>4, NewsKept
<1>7. Queued' /\ Pop!LostWithWindow'
  BY <1>1, <1>2, <1>4 DEF PopupBooks, Queued, Pop!LostWithWindow
<1> QED
  BY <1>3, <1>5, <1>6, <1>7 DEF PopupBooks

LEMMA PollEndStep == ASSUME PopupBooks, Pop!PollEnds PROVE PopupBooks'
<1>1. /\ stack # <<>> /\ queue = <<>> /\ stack' = Pop!Front(stack) /\ ~over
      /\ UNCHANGED <<keep, app, hidden, rootRef, pump, polls, queue, posted, probes, taken, shown,
                     native, astray, reported, over>>
  BY DEF Pop!PollEnds
<1>2. /\ stack' \in Seq(Frame) /\ DOMAIN stack' \subseteq DOMAIN stack
      /\ \A i \in DOMAIN stack' : stack'[i] = stack[i]
  BY <1>1, Now, FrontLastSet
<1>3. Pop!ToSet(queue) = {}
  BY <1>1 DEF Pop!ToSet
<1>4. Pop!TypeOK'
  BY <1>1, <1>2 DEF PopupBooks, Pop!TypeOK, Frame
<1>5. Pop!DialogsHaveWindows'
  BY <1>1, <1>2 DEF PopupBooks, Pop!DialogsHaveWindows, Pop!Alive
<1>6. Pop!NobodyForgotten' /\ Queued' /\ Pop!LostWithWindow'
  BY <1>1, <1>3 DEF PopupBooks, Pop!NobodyForgotten, Queued, Pop!LostWithWindow
<1> QED
  BY <1>4, <1>5, <1>6 DEF PopupBooks

LEMMA CloseDialogStep == ASSUME PopupBooks, NEW i \in DOMAIN stack, Pop!CloseDialog(i) PROVE PopupBooks'
<1>1. /\ stack[i].kind = "dialog" /\ stack' = [stack EXCEPT ![i].open = FALSE] /\ ~over
      /\ UNCHANGED <<keep, app, hidden, rootRef, pump, polls, queue, posted, probes, taken, shown,
                     native, astray, reported, over>>
  BY DEF Pop!CloseDialog
<1>2. stack[i] \in Pop!Dialog /\ stack[i] # Pop!Polling
  BY <1>1, Now, Frames
<1> DEFINE d == [stack[i] EXCEPT !.open = FALSE]
<1>3. d \in Pop!Dialog /\ d.open = FALSE /\ stack' = [stack EXCEPT ![i] = d]
  BY <1>1, <1>2 DEF Pop!Dialog
<1> HIDE DEF d
<1>4. /\ DOMAIN stack' = DOMAIN stack /\ stack'[i] = d
      /\ \A j \in DOMAIN stack : j # i => stack'[j] = stack[j]
  BY <1>3
<1>5. stack' \in Seq(Frame)
  BY <1>3, Now DEF Frame
<1>6. Pop!Polling \in Pop!ToSet(stack) => Pop!Polling \in Pop!ToSet(stack')
  BY <1>2, <1>4 DEF Pop!ToSet
<1>7. Pop!TypeOK'
  BY <1>1, <1>5 DEF PopupBooks, Pop!TypeOK, Frame
<1>8. Pop!DialogsHaveWindows'
  BY <1>1, <1>3, <1>4 DEF PopupBooks, Pop!DialogsHaveWindows, Pop!Alive
<1>9. Pop!NobodyForgotten'
  BY <1>1, <1>6, NewsKept
<1>10. Queued' /\ Pop!LostWithWindow'
  BY <1>1, <1>6 DEF PopupBooks, Queued, Pop!LostWithWindow
<1> QED
  BY <1>7, <1>8, <1>9, <1>10 DEF PopupBooks

LEMMA ReturnStep == ASSUME PopupBooks, Pop!Return PROVE PopupBooks'
<1> DEFINE w == Pop!Last(stack).root
<1>1. /\ stack # <<>> /\ Pop!Last(stack).kind = "dialog" /\ ~over
      /\ \/ stack' = Pop!Front(stack) /\ UNCHANGED <<app, hidden, rootRef, polls, posted, astray>>
         \/ Pop!Destroy(w, Pop!Front(stack))
      /\ native' = native \/ native' = native \cup {Pop!Last(stack).error}
      /\ UNCHANGED <<keep, pump, queue, probes, taken, shown, reported, over>>
  BY DEF Pop!Return
<1>2. /\ Pop!Last(stack) \in Pop!Dialog /\ Pop!Last(stack) # Pop!Polling
      /\ Pop!Front(stack) \in Seq(Frame) /\ Pop!ToSet(stack) = Pop!ToSet(Pop!Front(stack)) \cup {Pop!Last(stack)}
      /\ DOMAIN Pop!Front(stack) \subseteq DOMAIN stack
      /\ \A i \in DOMAIN Pop!Front(stack) : Pop!Front(stack)[i] = stack[i]
  BY <1>1, Now, Frames, FrontLastSet
<1>3. w \in Pop!Window /\ Pop!Last(stack).error \in Error
  BY <1>2 DEF Pop!Dialog
<1>4. Standing(Pop!Front(stack))
  BY <1>2, Now DEF Standing
<1>5. /\ stack' \in Seq(Frame) /\ Pop!DialogsHaveWindows'
      /\ Pop!Polling \in Pop!ToSet(stack) => Pop!Polling \in Pop!ToSet(stack')
      /\ polls' \in [Pop!Window -> 0..4] /\ rootRef' \in Pop!Window \cup {"none"}
      /\ app' \in {"none", "open", "gone"} /\ hidden' \in BOOLEAN
      /\ \/ app' = "gone" /\ posted' = {} /\ astray' = astray \cup posted
         \/ UNCHANGED <<app, posted, astray>>
  <2>1. CASE stack' = Pop!Front(stack) /\ UNCHANGED <<app, hidden, rootRef, polls, posted, astray>>
    <3>1. Pop!DialogsHaveWindows'
      BY <1>4, <2>1 DEF Pop!DialogsHaveWindows, Standing, Pop!Alive
    <3> QED
      BY <1>2, <2>1, <3>1 DEF PopupBooks, Pop!TypeOK
  <2>2. CASE Pop!Destroy(w, Pop!Front(stack))
    <3>1. PICK v \in Pop!Window : v = w /\ Pop!Destroy(v, Pop!Front(stack))
      BY <1>3, <2>2
    <3> QED
      BY <1>2, <1>4, <3>1, DestroyIs DEF PopupBooks
  <2> QED
    BY <1>1, <2>1, <2>2
<1> HIDE DEF w
<1>6. native \subseteq native' /\ native' \subseteq Error
  BY <1>1, <1>3 DEF PopupBooks, Pop!TypeOK
<1>7. Pop!TypeOK'
  BY <1>1, <1>5, <1>6 DEF PopupBooks, Pop!TypeOK, Frame
<1>8. Pop!NobodyForgotten'
  <2>1. \A e \in posted : app = "open" =>
             e \in shown' \cup native' \cup astray' \/ (e \in posted' /\ app' = "open")
    BY <1>5
  <2>2. ~over' /\ astray \subseteq astray'
    BY <1>1, <1>5
  <2> QED
    BY <1>1, <1>5, <1>6, <2>1, <2>2, NewsKept
<1>9. Queued' /\ Pop!LostWithWindow'
  BY <1>1, <1>5 DEF PopupBooks, Queued, Pop!LostWithWindow
<1> QED
  BY <1>5, <1>7, <1>8, <1>9 DEF PopupBooks

LEMMA CloseAppStep == ASSUME PopupBooks, Pop!CloseApp PROVE PopupBooks'
<1>1. /\ Pop!Destroy("app", stack) /\ ~over
      /\ UNCHANGED <<keep, pump, queue, probes, taken, shown, native, reported, over>>
  BY DEF Pop!CloseApp
<1>2. /\ stack' \in Seq(Frame) /\ Pop!DialogsHaveWindows'
      /\ Pop!Polling \in Pop!ToSet(stack) => Pop!Polling \in Pop!ToSet(stack')
      /\ polls' \in [Pop!Window -> 0..4] /\ rootRef' \in Pop!Window \cup {"none"}
      /\ app' \in {"none", "open", "gone"} /\ hidden' \in BOOLEAN
      /\ \/ app' = "gone" /\ posted' = {} /\ astray' = astray \cup posted
         \/ UNCHANGED <<app, posted, astray>>
  <2>1. "app" \in Pop!Window
    BY DEF Pop!Window
  <2> QED
    BY <1>1, <2>1, Now, DestroyIs DEF PopupBooks
<1>3. Pop!TypeOK'
  BY <1>1, <1>2 DEF PopupBooks, Pop!TypeOK, Frame
<1>4. Pop!NobodyForgotten'
  <2>1. \A e \in posted : app = "open" =>
             e \in shown' \cup native' \cup astray' \/ (e \in posted' /\ app' = "open")
    BY <1>2
  <2>2. ~over' /\ astray \subseteq astray'
    BY <1>1, <1>2
  <2> QED
    BY <1>1, <1>2, <2>1, <2>2, NewsKept
<1>5. Queued' /\ Pop!LostWithWindow'
  BY <1>1, <1>2 DEF PopupBooks, Queued, Pop!LostWithWindow
<1> QED
  BY <1>2, <1>3, <1>4, <1>5 DEF PopupBooks

LEMMA EnqueueIs ==
  ASSUME PopupBooks, NEW e \in Error, Pop!Enqueue(e)
  PROVE  /\ queue' \in Seq(Error) /\ Pop!ToSet(queue') = Pop!ToSet(queue) \cup {e}
         /\ probes' = probes \cup {e} /\ rootRef' \in Pop!Window \cup {"none"}
BY Now, Appended, Reached DEF Pop!Enqueue, PopupBooks, Pop!TypeOK

LEMMA ThreadStep == ASSUME PopupBooks, NEW e \in Error, Pop!ThreadRaises(e) \/ Pop!ToolFails(e) PROVE PopupBooks'
<1>1. /\ e \notin reported /\ reported' = reported \cup {e} /\ ~over
      /\ \/ posted' = posted \cup {e} /\ app = "open" /\ UNCHANGED <<queue, probes, rootRef>>
         \/ Pop!Enqueue(e) /\ UNCHANGED posted
      /\ UNCHANGED <<keep, app, hidden, pump, polls, stack, taken, shown, native, astray, over>>
  BY DEF Pop!ThreadRaises, Pop!ToolFails
<1>2. /\ queue' \in Seq(Error) /\ Pop!ToSet(queue) \subseteq Pop!ToSet(queue')
      /\ Pop!ToSet(queue') \subseteq Pop!ToSet(queue) \cup {e}
      /\ probes \subseteq probes' /\ probes' \subseteq probes \cup {e}
      /\ rootRef' \in Pop!Window \cup {"none"}
      /\ posted \subseteq posted' /\ posted' \subseteq posted \cup {e}
      /\ \/ e \in posted' /\ app' = "open"
         \/ e \in Pop!ToSet(queue') /\ e \in probes'
  <2>1. CASE posted' = posted \cup {e} /\ app = "open" /\ UNCHANGED <<queue, probes, rootRef>>
    BY <1>1, <2>1 DEF PopupBooks, Pop!TypeOK
  <2>2. CASE Pop!Enqueue(e) /\ UNCHANGED posted
    BY <1>1, <2>2, EnqueueIs
  <2> QED
    BY <1>1, <2>1, <2>2
<1>3. Pop!TypeOK'
  BY <1>1, <1>2 DEF PopupBooks, Pop!TypeOK
<1>4. Pop!NobodyForgotten'
  <2>1. \A f \in reported' \ reported : f = e
    BY <1>1
  <2>2. \A f \in posted : app = "open" => f \in posted' /\ app' = "open"
    BY <1>1, <1>2
  <2>3. /\ ~over /\ ~over' /\ astray \subseteq astray' /\ reported \subseteq reported'
        /\ shown \subseteq shown' /\ native \subseteq native' /\ stack' = stack
    BY <1>1
  <2> QED
    BY <1>2, <2>1, <2>2, <2>3, NewsKept
<1>5. Queued'
  BY <1>1, <1>2 DEF PopupBooks, Queued
<1>6. Pop!LostWithWindow' /\ Pop!DialogsHaveWindows'
  BY <1>1 DEF PopupBooks, Pop!LostWithWindow, Pop!DialogsHaveWindows, Pop!Alive
<1> QED
  BY <1>3, <1>4, <1>5, <1>6 DEF PopupBooks

LEMMA ProbeStep == ASSUME PopupBooks, NEW e \in Error, Pop!Probe(e) PROVE PopupBooks'
<1>1. /\ e \in probes /\ probes' = probes \ {e} /\ taken' = taken \ {e} /\ ~over
      /\ native' = native \cup {e} \/ (native' = native /\ e \in taken)
      /\ UNCHANGED <<keep, app, hidden, rootRef, pump, polls, queue, posted, stack, shown, astray,
                     reported, over>>
  BY DEF Pop!Probe
<1>2. Pop!TypeOK'
  BY <1>1 DEF PopupBooks, Pop!TypeOK
<1>3. Pop!NobodyForgotten'
  <2>1. \A f \in probes : f \in probes' \/ f \in native' \/ f \in taken
    BY <1>1
  <2>2. /\ ~over /\ ~over' /\ astray \subseteq astray' /\ reported' = reported
        /\ shown \subseteq shown' /\ native \subseteq native' /\ stack' = stack
        /\ queue' = queue /\ posted' = posted /\ app' = app
    BY <1>1
  <2> QED
    BY <2>1, <2>2, NewsKept
<1>4. Queued' /\ Pop!LostWithWindow' /\ Pop!DialogsHaveWindows'
  BY <1>1 DEF PopupBooks, Queued, Pop!LostWithWindow, Pop!DialogsHaveWindows, Pop!Alive
<1> QED
  BY <1>2, <1>3, <1>4 DEF PopupBooks

-----------------------------------------------------------------------------
(* The theorem *)

LEMMA PopupsBegin == Pop!Init => PopupBooks
<1> SUFFICES ASSUME Pop!Init PROVE PopupBooks
  OBVIOUS
<1>1. Pop!ToSet(stack) = {} /\ Pop!ToSet(queue) = {}
  BY DEF Pop!Init, Pop!ToSet
<1>2. polls \in [Pop!Window -> 0..4]
  BY DEF Pop!Init
<1>3. Pop!TypeOK
  <2>1. <<>> \in Seq(Error) /\ <<>> \in Seq(Pop!Dialog \cup {Pop!Polling})
    OBVIOUS
  <2>2. /\ polls \in [Pop!Window -> 0..4] /\ queue \in Seq(Error)
        /\ stack \in Seq(Pop!Dialog \cup {Pop!Polling})
    BY <1>2, <2>1 DEF Pop!Init
  <2> QED
    BY <2>2 DEF Pop!Init, Pop!TypeOK
<1>4. Pop!NobodyForgotten /\ Pop!LostWithWindow /\ Pop!DialogsHaveWindows /\ Queued
  BY <1>1 DEF Pop!Init, Pop!NobodyForgotten, Pop!LostWithWindow, Pop!DialogsHaveWindows, Queued
<1> QED
  BY <1>3, <1>4 DEF PopupBooks

LEMMA PopupsGo == PopupBooks /\ [Pop!Next]_(Pop!vars) => PopupBooks'
<1> SUFFICES ASSUME PopupBooks, [Pop!Next]_(Pop!vars) PROVE PopupBooks'
  OBVIOUS
<1>1. CASE UNCHANGED Pop!vars
  BY <1>1 DEF Pop!vars, PopupBooks, Pop!TypeOK, Pop!NobodyForgotten, Pop!LostWithWindow, Pop!DialogsHaveWindows, Pop!Alive, Queued
<1>2. CASE Pop!Exit
  <2>1. /\ over' = TRUE
        /\ UNCHANGED <<keep, app, hidden, rootRef, pump, polls, queue, posted, stack, probes, taken,
                       shown, native, astray, reported>>
    BY <1>2 DEF Pop!Exit
  <2> QED
    BY <2>1 DEF PopupBooks, Pop!TypeOK, Pop!NobodyForgotten, Pop!LostWithWindow, Pop!DialogsHaveWindows, Pop!Alive, Queued
<1>3. CASE \E e \in Error : Pop!MainRaises(e) \/ Pop!RunPosted(e) \/ Pop!ThreadRaises(e) \/ Pop!ToolFails(e) \/ Pop!Probe(e)
  BY <1>3, RaiseStep, PostedStep, ThreadStep, ProbeStep
<1>4. CASE \E w \in Pop!Window : Pop!PollStarts(w)
  BY <1>4, PollStartStep
<1>5. CASE \E i \in DOMAIN stack : Pop!CloseDialog(i)
  BY <1>5, CloseDialogStep
<1> QED
  BY <1>1, <1>2, <1>3, <1>4, <1>5, OpenStep, PollTakesStep, PollEndStep, ReturnStep, CloseAppStep
  DEF Pop!Next

(* However the main thread's dialogs nest and whoever fails where, an      *)
(* error is told, lost with the application's window or on its way.        *)
LEMMA PopupsHold == Pop!Spec => []Pop!PopupsInv
<1>1. PopupBooks => Pop!PopupsInv
  BY DEF PopupBooks, Pop!PopupsInv
<1> QED
  BY <1>1, PopupsBegin, PopupsGo, PTL DEF Pop!Spec
-----------------------------------------------------------------------------
(* The composition *)

all == <<part, Owned, After0>>

LEMMA SwitchRuns == AllSpec => SwitchSpec
<1>1. AllInit => SwitchInit
  BY DEF AllInit
<1>2. [AllNext]_all => [SwitchNext]_switchVars
  BY DEF AllNext, all, Only, Owned
<1>3. QED
  BY <1>1, <1>2, PTL DEF AllSpec, all, SwitchSpec

(* A request reports what holds, and changes nothing without an             *)
(* administrator (set_firewall_enabled, set_defender_realtime,              *)
(* set_defender_enabled).                                                   *)
THEOREM RequestsAreHonest == ASSUME SwitchAssumption PROVE AllSpec => HonestOutcome
  BY SwitchRuns, SwitchIsHonest

LEMMA ConfigRuns == AllSpec => ConfigSpec
<1>1. AllInit => ConfigInit
  BY DEF AllInit
<1>2. [AllNext]_all => [ConfigNext]_configVars
  BY DEF AllNext, all, Only, Owned
<1>3. QED
  BY <1>1, <1>2, PTL DEF AllSpec, all, ConfigSpec

(* The plain defaults stay as shipped, and until the first reset so does each *)
(* container that the run has from its file, whatever is typed, imported and  *)
(* changed in place; a file is listed once (Config).                          *)
THEOREM DefaultsAreKept == ASSUME ConfigAssumption PROVE AllSpec => []ConfigInv
  BY ConfigRuns, ConfigHolds

LEMMA TelemetryRuns == AllSpec => TelemetrySpec
<1>1. AllInit => TelemetryInit
  BY DEF AllInit
<1>2. [AllNext]_all => [TelemetryNext]_telemetryVars
  BY DEF AllNext, all, Only, Owned
<1>3. QED
  BY <1>1, <1>2, PTL DEF AllSpec, all, TelemetrySpec

(* Without consent nothing is kept, and with it nothing that was recorded is *)
(* forgotten or told twice (TelemetryClient and its storages).              *)
THEOREM NothingIsForgotten == ASSUME TelemetryAssumption PROVE AllSpec => []TelemetryInv
  BY TelemetryRuns, TelemetryHolds

LEMMA PermRuns == AllSpec => PermissionSpec
<1>1. AllInit => PermissionInit
  BY DEF AllInit
<1>2. [AllNext]_all => [PermissionNext]_permissionVars
  BY DEF AllNext, all, Only, Owned
<1>3. QED
  BY <1>1, <1>2, PTL DEF AllSpec, all, PermissionSpec

(* What the manager, the security center's list and the supervisor's copy    *)
(* hold of a grant agrees (PermissionManager).                              *)
THEOREM GrantsAgree == AllSpec => []PermissionsInv
  BY PermRuns, PermissionsHold

LEMMA PlugRuns == AllSpec /\ part = "plugins" => Plug!Spec
<1>1. AllInit /\ part = "plugins" => Plug!Init
  BY DEF AllInit
<1>2. part = "plugins" /\ [AllNext]_all => (part = "plugins")' /\ [Plug!Next]_(Plug!vars)
  BY DEF AllNext, all, Only, Owned, After0, After12, After18, After21, Plug!vars, Plug!hooks, Plug!loading, Plug!dispatch
<1>3. QED
  BY <1>1, <1>2, PTL DEF AllSpec, all, Plug!Spec

(* What the manager, its supervisor, the tool bus and the permissions hold  *)
(* of a plugin agrees whenever nothing registers it (register_plugin,       *)
(* _remove_handle, clear).                                                  *)
THEOREM PluginsAgree == ASSUME Plug!PluginAssumption PROVE AllSpec => []ManagerInv
<1>1. Plug!Spec => []Plug!ManagerInv
  BY Plug!ManagerHolds
<1>2. Plug!ManagerInv => ManagerInv
  BY DEF ManagerInv
<1>3. ~(part = "plugins") => ManagerInv
  BY DEF ManagerInv
<1>4. ~(part = "plugins") /\ [AllNext]_all => (~(part = "plugins"))'
  BY DEF AllNext, all, Only
<1>5. QED
  BY <1>1, <1>2, <1>3, <1>4, PlugRuns, PTL DEF AllSpec, all

(* A worker is shut down before another takes its place                     *)
(* (WorkerSupervisor.register).                                             *)
THEOREM WorkersLast == ASSUME Plug!PluginAssumption PROVE AllSpec => NoWorkerLost
<1>1. Plug!Spec => Plug!NoWorkerLost
  BY Plug!NoneLost
<1>2. ~(part = "plugins") /\ [AllNext]_all => (~(part = "plugins"))'
  BY DEF AllNext, all, Only
<1>3. [AllNext]_all /\ [Plug!WorkersKept]_(Plug!vars) => [part = "plugins" => Plug!WorkersKept]_After0
  BY DEF AllNext, all, Only, Owned, After0, After12, After18, After21, Plug!vars, Plug!hooks, Plug!loading, Plug!dispatch
<1>4. ~(part = "plugins") => [part = "plugins" => Plug!WorkersKept]_After0
  OBVIOUS
<1>5. QED
  BY <1>1, <1>2, <1>3, <1>4, PlugRuns, PTL DEF NoWorkerLost, Plug!NoWorkerLost, AllSpec, all

LEMMA UpdRuns == AllSpec /\ part = "updates" => Upd!Spec
<1>1. AllInit /\ part = "updates" => Upd!Init
  BY DEF AllInit
<1>2. part = "updates" /\ [AllNext]_all => (part = "updates")' /\ [Upd!Next]_(Upd!vars)
  BY DEF AllNext, all, Only, Owned, After0, After12, After18, After21, Upd!vars, Upd!memory, Upd!disk
<1>3. QED
  BY <1>1, <1>2, PTL DEF AllSpec, all, Upd!Spec

(* Memory and disk name the same releases, and what they name exists        *)
(* (PluginUpdater).                                                         *)
THEOREM ReleasesAgree == ASSUME Upd!UpdaterAssumption PROVE AllSpec => []UpdaterInv
<1>1. Upd!Spec => []Upd!UpdaterInv
  BY Upd!UpdaterHolds
<1>2. Upd!UpdaterInv => UpdaterInv
  BY DEF UpdaterInv
<1>3. ~(part = "updates") => UpdaterInv
  BY DEF UpdaterInv
<1>4. ~(part = "updates") /\ [AllNext]_all => (~(part = "updates"))'
  BY DEF AllNext, all, Only
<1>5. QED
  BY <1>1, <1>2, <1>3, <1>4, UpdRuns, PTL DEF AllSpec, all

(* A rollback reverts to a release of another version                       *)
(* (PluginUpdater.rollback).                                                *)
THEOREM RollbacksChange == ASSUME Upd!UpdaterAssumption PROVE AllSpec => RollbackReverts
<1>1. Upd!Spec => Upd!RollbackReverts
  BY Upd!RollbacksRevert
<1>2. ~(part = "updates") /\ [AllNext]_all => (~(part = "updates"))'
  BY DEF AllNext, all, Only
<1>3. [AllNext]_all /\ [Upd!Reverts]_(Upd!vars) => [part = "updates" => Upd!Reverts]_After0
  BY DEF AllNext, all, Only, Owned, After0, After12, After18, After21, Upd!vars, Upd!memory, Upd!disk
<1>4. ~(part = "updates") => [part = "updates" => Upd!Reverts]_After0
  OBVIOUS
<1>5. QED
  BY <1>1, <1>2, <1>3, <1>4, UpdRuns, PTL DEF RollbackReverts, Upd!RollbackReverts, AllSpec, all

LEMMA ServRuns == AllSpec /\ part = "services" => Serv!Spec
<1>1. AllInit /\ part = "services" => Serv!Init
  BY DEF AllInit
<1>2. part = "services" /\ [AllNext]_all => (part = "services")' /\ [Serv!Next]_(Serv!vars)
  BY DEF AllNext, all, Only, Owned, After0, After12, After18, After21,
         Serv!vars, Serv!tables, Serv!containers, Serv!history
<1>3. QED
  BY <1>1, <1>2, PTL DEF AllSpec, all, Serv!Spec

(* A singleton is one, a service never waits for itself, an instance is      *)
(* disposed of once, by whichever of its owners goes first, and shutdown()   *)
(* leaves only what came too late (ServiceRegistry, ServiceScope).           *)
THEOREM InstancesAreDisposedOf == ASSUME Serv!RegistryAssumption PROVE AllSpec => []RegistryInv
<1>1. Serv!Spec => []Serv!RegistryInv
  BY Serv!RegistryHolds
<1>2. Serv!RegistryInv => RegistryInv
  BY DEF RegistryInv
<1>3. ~(part = "services") => RegistryInv
  BY DEF RegistryInv
<1>4. ~(part = "services") /\ [AllNext]_all => (~(part = "services"))'
  BY DEF AllNext, all, Only
<1>5. QED
  BY <1>1, <1>2, <1>3, <1>4, ServRuns, PTL DEF AllSpec, all

LEMMA CacheRuns == AllSpec => Cache!Spec
<1>1. AllInit => Cache!Init
  BY DEF AllInit
<1>2. [AllNext]_all => [Cache!Next]_(Cache!vars)
  BY DEF AllNext, all, Only, Owned, fileVars, Cache!vars
<1>3. QED
  BY <1>1, <1>2, PTL DEF AllSpec, all, Cache!Spec

(* What a process of the cache holds is what the file holds, as far as it    *)
(* has looked and saved (FileCacheManager).                                  *)
THEOREM CachesAgree == ASSUME Cache!CacheAssumption PROVE AllSpec => []CacheInv
<1>1. Cache!Spec => []Cache!CacheInv
  BY CacheHolds
<1>2. Cache!CacheInv => CacheInv
  BY DEF CacheInv
<1>3. QED
  BY <1>1, <1>2, CacheRuns, PTL

LEMMA PopRuns == AllSpec => Pop!Spec
<1>1. AllInit => Pop!Init
  BY DEF AllInit
<1>2. [AllNext]_all => [Pop!Next]_(Pop!vars)
  BY DEF AllNext, all, Only, Owned, popupVars, Pop!vars
<1>3. QED
  BY <1>1, <1>2, PTL DEF AllSpec, all, Pop!Spec

(* An error nobody was told of is on its way (handle_exception).            *)
THEOREM ErrorsAreTold == AllSpec => []PopupsInv
<1>1. Pop!Spec => []Pop!PopupsInv
  BY PopupsHold
<1>2. Pop!PopupsInv => PopupsInv
  BY DEF PopupsInv
<1>3. QED
  BY <1>1, <1>2, PopRuns, PTL

LEMMA BuiltRuns == AllSpec /\ part = "tasks" => Built!Spec
<1>1. AllInit /\ part = "tasks" => Built!Init
  BY DEF AllInit
<1>2. part = "tasks" /\ [AllNext]_all => (part = "tasks")' /\ [Built!Next]_(Built!vars)
  BY DEF AllNext, all, Only, Owned, After0, After12, After18, After21, Built!vars, Built!files, Built!process, Built!counts
<1>3. QED
  BY <1>1, <1>2, PTL DEF AllSpec, all, Built!Spec

(* The sentinel, the installer and the verification agree: a sentinel that  *)
(* matches vouches for what was installed or found, and an undisturbed run  *)
(* ends well only with everything there, in the environment or the          *)
(* interpreter, and the sentinel written unless its write failed            *)
(* (register_builtin_tasks).                                                *)
THEOREM SentinelIsTrue == ASSUME Built!BuiltinAssumption PROVE AllSpec => []BuiltinInv
<1>1. Built!Spec => []Built!BuiltinInv
  BY Built!SetupIsHonest
<1>2. Built!BuiltinInv => BuiltinInv
  BY DEF BuiltinInv
<1>3. ~(part = "tasks") => BuiltinInv
  BY DEF BuiltinInv
<1>4. ~(part = "tasks") /\ [AllNext]_all => (~(part = "tasks"))'
  BY DEF AllNext, all, Only
<1>5. QED
  BY <1>1, <1>2, <1>3, <1>4, BuiltRuns, PTL DEF AllSpec, all
=============================================================================
