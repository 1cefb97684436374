------------------------------ MODULE MCDesktop ------------------------------
(* Four components that dialogs are built on and the Security Center, each with
   its own variables: a behaviour is one of the overlay, of Kill by Click over
   what the overlay promises, of the process watcher and its list, of a network
   scan or of the Security Center (part), and the other variables stay as they
   begin. *)
EXTENDS ClickOverlay, FiniteSetTheorems, SequenceTheorems, TLAPS

CONSTANTS Error, Timeout, Watched, MaxReuses, Pid, Sizes, MaxBirths, MaxRefreshes,
          HostSets, Modes, Port, Pings, Scans, Fetches, Scale, MaxErrors,
          MaxClicks, MaxForeign

VARIABLES
  part,
  asks, nested, awaiting, closed, hits, picked, result,
  developer, skipped, visible, paused, watching, session, ctx, thread, done, runner, held,
  read, poller, items, prompt, process, killed, joining, cancelled, missed, raised, robbed,
  running, young, births, snapshot, made, listing, left, newPids, size, step, hand, queue,
  pauseEvent, stopEvent, shown, refresh, scheduled, present, suspended, lost,
  mode, candidates, web, kept, scanning, cancel, dialog, bar, pings, active, hosts, scan, todo,
  unmarked, ports, fetch, stage, results, given, errors,
  real, admin, states, switches, button, tokens, jobs, boxes, busy, auto, timer, submitted,
  superseded, failed, hides, clicks, foreign

sessions == <<asks, nested, awaiting, closed, hits, picked, result, developer, skipped, visible, paused,
              watching, session, ctx, thread, done, runner, held, read, poller, items, prompt,
              process, killed, joining, cancelled, missed, raised, robbed>>
watcher == <<running, young, births, snapshot, made, listing, left, newPids, size, step, hand,
              queue, pauseEvent, stopEvent, shown, refresh, scheduled, present, suspended, lost>>
scans == <<mode, candidates, web, kept, scanning, cancel, dialog, bar, pings, active, hosts, scan,
           todo, unmarked, ports, fetch, stage, results, given, errors>>
center == <<real, admin, states, switches, button, tokens, jobs, boxes, busy, auto, timer,
            submitted, superseded, failed, hides, clicks, foreign>>

Kill == INSTANCE KillByClick WITH
  asked <- asks, open <- nested, waiting <- awaiting, clicked <- hits, answer <- result,
  skip <- skipped, posted <- items
Watch == INSTANCE ProcessWatcher WITH open <- present, paused <- suspended
Net == INSTANCE NetworkScan WITH phase <- scanning, window <- dialog, shown <- bar, open <- ports
Center == INSTANCE SecurityCenter WITH
  shown <- states, current <- tokens, made <- submitted, lost <- superseded

ASSUME DesktopAssumption ==
  Kill!DialogAssumption /\ Watch!WatcherAssumption /\ Net!ScanAssumption /\ Center!CenterAssumption

AllInit ==
  /\ part \in {"overlay", "session", "watcher", "scan", "center"}
  /\ OverlayInit /\ (part # "overlay" => ~skip)
  /\ Kill!DialogInit /\ (part # "session" => ~developer /\ ~skipped)
  /\ Watch!WatcherInit /\ (part # "watcher" => running = {} /\ size = 1)
  /\ Net!ScanInit
  /\ part # "scan" => mode = "auto" /\ candidates = <<>> /\ ~web /\ kept = {}
  /\ Center!Init /\ (part # "center" => ~admin /\ \A f \in DOMAIN real : real[f])
AllNext ==
  \/ part = "overlay" /\ OverlayNext /\ UNCHANGED <<part, sessions, watcher, scans, center>>
  \/ part = "session" /\ Kill!DialogNext /\ UNCHANGED <<part, overlayVars, watcher, scans, center>>
  \/ part = "watcher" /\ Watch!WatcherNext /\ UNCHANGED <<part, overlayVars, sessions, scans, center>>
  \/ part = "scan" /\ Net!ScanNext /\ UNCHANGED <<part, overlayVars, sessions, watcher, center>>
  \/ part = "center" /\ Center!Next /\ UNCHANGED <<part, overlayVars, sessions, watcher, scans>>
AllSpec == AllInit /\ [][AllNext]_<<part, overlayVars, sessions, watcher, scans, center>>

\* OverlayFairness, DialogFairness, the fairness of FairWatcher and FairScan and
\* that of the Security Center, each where its part is under way
AllFair ==
  /\ AllSpec
  /\ WF_overlayVars(part = "overlay" /\ Callback)
  /\ WF_overlayVars(part = "overlay" /\ Choosing)
  /\ WF_overlayVars(part = "overlay" /\ Process)
  /\ WF_overlayVars(part = "overlay" /\ Finish)
  /\ WF_overlayVars(part = "overlay" /\ Tick)
  /\ WF_sessions(part = "session" /\ Kill!Tk)
  /\ WF_sessions(part = "session" /\ Kill!Returns)
  /\ \A s \in Kill!Session :
       /\ WF_sessions(part = "session" /\ Kill!Thread(s))
       /\ WF_sessions(part = "session" /\ Kill!Poller(s))
  /\ WF_watcher(part = "watcher" /\ Watch!Going)
  /\ WF_scans(part = "scan" /\ Net!Working)
  /\ WF_center(part = "center" /\ Center!Progress)

\* What the overlay holds is what its handlers expect (ClickOverlay).
OverlayInv == part = "overlay" => OverlayTypeOK
\* The dialog is away exactly while a session lasts, and no overlay outlives its
\* session, unless it was closed while choose() still showed it (KillByClick).
SessionInv == part = "session" => Kill!SessionInv
\* The differences the watcher passes on add up to its snapshot (ProcessWatcher).
WatchInv == part = "watcher" => Watch!WatchInv
\* Every host of a scan has one place, and a result says all there is
\* (NetworkScan).
ScanInv == part = "scan" => Net!ScanInv
\* The switches, the jobs and the busy messages agree (SecurityCenter).
CenterInv == part = "center" => Center!SecurityInv
\* The five of them.
DesktopInv == OverlayInv /\ SessionInv /\ WatchInv /\ ScanInv /\ CenterInv
\* What is killed was clicked for the session that kills it (KillByClick).
KillsChosen == Kill!KillsChosen
\* The progress of a scan never goes back (NetworkScan).
ProgressClimbs == Net!ProgressClimbs
\* A click ends the overlay, the end of choose() the session, the end of the
\* dialog its watcher, a scan that nothing disturbs ends by itself, and the
\* refresh button comes back (ClickOverlay, KillByClick, ProcessWatcher,
\* NetworkScan, SecurityCenter).
AllEnd ==
  (\/ part = "overlay" /\ Hit
   \/ part = "session" /\ Kill!Ending
   \/ part = "watcher" /\ stopEvent
   \/ part = "scan" \/ part = "center")
  ~> (\/ part = "overlay" /\ (phase = "away" \/ Closed)
      \/ part = "session" /\ Kill!Ended
      \/ part = "watcher" /\ step = "ended"
      \/ part = "scan" /\ (scanning = "ended" \/ Net!Disturbed)
      \/ part = "center" /\ button)

-----------------------------------------------------------------------------
(* Proofs.  The overlay: what the runs leave to the number of windows, calls
   and clicks. *)

\* The listener is held by the dialog and by each choose() that started it
\* (GlobalMouseListener._ref_count).
Holders == refs <= (IF Owner THEN 1 ELSE 0) + Cardinality(started)

\* The phase is that of the innermost call, and the calls around it have got as
\* far as one of the two loops.
Nested ==
  /\ phase = "waiting" <=> Waits
  /\ \A c \in started : c \in waiting \/ (phase = "starting" /\ Inner(c))

\* A call of choose() is posted once, by a caller, and is not under way yet.
Calls ==
  /\ \A i \in 1..Len(posted) : posted[i] = Call => asked > 0 /\ asked \notin open
  /\ \A i, j \in 1..Len(posted) : posted[i] = Call /\ posted[j] = Call => i = j

\* A click that is on its way was made since every call was asked for that is
\* under way or will be when it comes.
Fresh ==
  \A i \in 1..Len(posted) :
    posted[i] \in Window =>
      /\ \A c \in open : posted[i] \in clicked[c]
      /\ \A j \in 1..Len(posted) : j < i /\ posted[j] = Call => posted[i] \in clicked[asked]

\* _closed is written during a wait only.
Unwritten == phase # "waiting" => ~written

OverlayBooks == OverlayTypeOK /\ Holders /\ Nested /\ Calls /\ Fresh /\ Unwritten

Posts == Window \cup {Nobody, Call}

\* The two halves of the type invariant: what is true or false, and the rest.
Switches ==
  /\ hook \in BOOLEAN /\ wired \in BOOLEAN /\ ping \in BOOLEAN
  /\ pinged \in BOOLEAN /\ written \in BOOLEAN /\ bound \in BOOLEAN /\ skip \in BOOLEAN
  /\ own \in BOOLEAN
Figures ==
  /\ asked \in 0..MaxAsks /\ clicked \in [1..MaxAsks -> SUBSET Window]
  /\ answer \in Window \cup {Nobody} /\ phase \in {"away", "showing", "starting", "waiting"}
  /\ open \subseteq 1..asked /\ waiting \subseteq open /\ started \subseteq open
  /\ refs \in 0..MaxAsks + 1
  /\ posted \in Seq(Posts) /\ Len(posted) <= MaxPosted
  /\ update \in {"IDLE", "PENDING", "RUNNING"}
  /\ queued \in 0..MaxLoops /\ queries \in 0..MaxLoops /\ ticks \in 0..MaxLoops
  /\ state \in {"INIT", "POLLING", "HOOKED"} /\ pid \in Window \cup {Nobody}

LEMMA TypeHalves == OverlayTypeOK <=> Figures /\ Switches
BY DEF OverlayTypeOK, Figures, Switches, Posts

LEMMA PostedAppends ==
  ASSUME NEW q \in Seq(Posts), NEW x \in Posts
  PROVE  /\ Append(q, x) \in Seq(Posts) /\ Len(Append(q, x)) = Len(q) + 1
         /\ \A i \in 1..Len(q) : Append(q, x)[i] = q[i]
         /\ Append(q, x)[Len(q) + 1] = x
OBVIOUS

LEMMA PostedServed ==
  ASSUME NEW q \in Seq(Posts), q # <<>>
  PROVE  /\ Tail(q) \in Seq(Posts) /\ Len(Tail(q)) = Len(q) - 1 /\ Len(q) >= 1
         /\ Head(q) = q[1] /\ Head(q) \in Posts
         /\ \A i \in 1..Len(Tail(q)) : Tail(q)[i] = q[i + 1] /\ i + 1 \in 1..Len(q)
OBVIOUS

\* What a step that leaves the calls and the posted alone leaves as it was.
LEMMA QueueStays ==
  ASSUME Nested, Calls, Fresh, UNCHANGED <<posted, asked, open, waiting, started, phase, clicked>>
  PROVE  Nested' /\ Calls' /\ Fresh'
BY DEF Nested, Calls, Fresh, Waits, Inner

\* How often the listener can be held.
LEMMA Holds ==
  ASSUME NEW n \in 0..MaxAsks, NEW S \in SUBSET (1..n)
  PROVE  /\ IsFiniteSet(S) /\ Cardinality(S) \in Nat /\ Cardinality(S) <= MaxAsks
         /\ \A c \in 1..MaxAsks :
              /\ c \notin S => Cardinality(S \cup {c}) = Cardinality(S) + 1
              /\ c \in S => Cardinality(S \ {c}) = Cardinality(S) - 1
              /\ IsFiniteSet(S \cup {c}) /\ IsFiniteSet(S \ {c})
<1> USE OverlayAssumption DEF OverlayAssumption
<1>1. IsFiniteSet(1..MaxAsks) /\ Cardinality(1..MaxAsks) = MaxAsks
  BY FS_Interval
<1>2. IsFiniteSet(S) /\ Cardinality(S) <= MaxAsks
  <2>1. S \subseteq 1..MaxAsks
    OBVIOUS
  <2> QED BY <1>1, <2>1, FS_Subset
<1>3. Cardinality(S) \in Nat
  BY <1>2, FS_CardinalityType
<1>4. ASSUME NEW c
      PROVE  /\ c \notin S => Cardinality(S \cup {c}) = Cardinality(S) + 1
             /\ c \in S => Cardinality(S \ {c}) = Cardinality(S) - 1
             /\ IsFiniteSet(S \cup {c}) /\ IsFiniteSet(S \ {c})
  BY <1>2, FS_AddElement, FS_RemoveElement
<1> QED BY <1>2, <1>3, <1>4

LEMMA LoopCounts ==
  ASSUME MaxLoops \in Nat \ {0}, NEW n \in 0..MaxLoops
  PROVE  More(n) \in 0..MaxLoops /\ (n > 0 => Fewer(n) \subseteq 0..MaxLoops)
BY DEF More, Fewer

LEMMA OverlayBegins == OverlayInit => OverlayBooks
<1> SUFFICES ASSUME OverlayInit PROVE OverlayBooks
  OBVIOUS
<1> USE DEF OverlayInit
<1>1. OverlayTypeOK
  <2>1. <<>> \in Seq(Posts) /\ Len(<<>>) = 0
    OBVIOUS
  <2>2. refs \in 0..MaxAsks + 1
    BY OverlayAssumption DEF OverlayAssumption
  <2>3. Figures
    BY <2>1, <2>2, OverlayAssumption DEF Figures, OverlayAssumption
  <2>4. Switches
    BY OverlayAssumption, Zenon DEF Switches, OverlayAssumption
  <2> QED BY <2>3, <2>4, TypeHalves
<1>2. Holders
  <2>1. Cardinality(started) = 0
    BY FS_EmptySet
  <2> QED BY <2>1 DEF Holders
<1>3. Nested /\ Calls /\ Fresh /\ Unwritten
  BY DEF Nested, Waits, Calls, Fresh, Unwritten
<1> QED BY <1>1, <1>2, <1>3 DEF OverlayBooks

LEMMA AskKeeps == OverlayBooks /\ Ask => OverlayBooks'
<1> SUFFICES ASSUME OverlayBooks, Ask PROVE OverlayBooks'
  OBVIOUS
<1> USE DEF Ask, calls, listener, loop, monitor, window, Posted
<1>1. posted \in Seq(Posts) /\ Call \in Posts
  BY DEF OverlayBooks, OverlayTypeOK, Posts
<1>2. /\ posted' \in Seq(Posts) /\ Len(posted') = Len(posted) + 1 /\ Len(posted) \in Nat
      /\ \A i \in 1..Len(posted) : posted'[i] = posted[i]
      /\ posted'[Len(posted) + 1] = Call
  BY <1>1, PostedAppends
<1>3. Figures /\ Switches
  BY TypeHalves DEF OverlayBooks
<1>4. asked \in Nat /\ asked' = asked + 1 /\ asked' \in 1..MaxAsks /\ open \subseteq 1..asked
  BY <1>3, OverlayAssumption DEF Figures, OverlayAssumption
<1>5. /\ clicked' \in [1..MaxAsks -> SUBSET Window]
      /\ \A c \in open : clicked'[c] = clicked[c]
  BY <1>3, <1>4, OverlayAssumption DEF ClickedFor, Figures, OverlayAssumption
<1>6. OverlayTypeOK'
  <2>1. Figures'
    BY <1>2, <1>3, <1>4, <1>5, OverlayAssumption DEF Figures, OverlayAssumption
  <2>2. Switches'
    BY <1>3, Zenon DEF Switches
  <2> QED BY <2>1, <2>2 DEF OverlayTypeOK, Figures, Switches, Posts
<1>7. Holders' /\ Nested' /\ Unwritten'
  BY DEF OverlayBooks, Holders, Nested, Waits, Inner, Unwritten
<1>8. \A i \in 1..Len(posted') : posted'[i] = Call => i = Len(posted) + 1
  BY <1>2
<1>9. Calls'
  BY <1>4, <1>8 DEF Calls
<1>10. Fresh'
  <2> SUFFICES ASSUME NEW i \in 1..Len(posted'), posted'[i] \in Window
               PROVE  /\ \A c \in open : posted'[i] \in clicked'[c]
                      /\ \A j \in 1..Len(posted') : ~(j < i /\ posted'[j] = Call)
    BY DEF Fresh
  <2>1. i # Len(posted) + 1
    BY <1>2, OverlayAssumption DEF OverlayAssumption
  <2>2. i \in 1..Len(posted) /\ posted[i] \in Window
    BY <2>1, <1>2
  <2>3. \A j \in 1..Len(posted') : ~(j < i /\ posted'[j] = Call)
    BY <2>2, <1>2, <1>8
  <2> QED BY <2>2, <2>3, <1>2, <1>5 DEF OverlayBooks, Fresh
<1> QED BY <1>6, <1>7, <1>9, <1>10 DEF OverlayBooks

LEMMA BeginKeeps == OverlayBooks /\ Begin => OverlayBooks'
<1> SUFFICES ASSUME OverlayBooks, Begin PROVE OverlayBooks'
  OBVIOUS
<1> USE DEF Begin, listener, loop
<1>1. posted \in Seq(Posts)
  BY DEF OverlayBooks, OverlayTypeOK, Posts
<1>2. /\ posted' \in Seq(Posts) /\ Len(posted') = Len(posted) - 1 /\ Len(posted) \in Nat \ {0}
      /\ posted[1] = Call
      /\ \A i \in 1..Len(posted') : posted'[i] = posted[i + 1] /\ i + 1 \in 1..Len(posted)
  BY <1>1, PostedServed
<1>3. Figures /\ Switches
  BY TypeHalves DEF OverlayBooks
<1>4. asked > 0 /\ asked \notin open /\ open \subseteq 1..asked /\ asked \in 1..MaxAsks
  BY <1>2, <1>3 DEF OverlayBooks, Calls, Figures
<1>5. OverlayTypeOK'
  <2>1. Figures'
    BY <1>2, <1>3, <1>4, OverlayAssumption DEF Figures, OverlayAssumption
  <2>2. Switches'
    BY <1>3, Zenon DEF Switches
  <2> QED BY <2>1, <2>2 DEF OverlayTypeOK, Figures, Switches, Posts
<1>6. Nested'
  <2>1. phase \in {"away", "showing", "waiting"}
    BY DEF Free
  <2>2. ~Waits'
    BY <1>3, <1>4 DEF Waits, Inner, Figures
  <2> QED BY <2>1, <2>2 DEF OverlayBooks, Nested
<1>7. \A i \in 1..Len(posted') : posted'[i] # Call
  BY <1>2 DEF OverlayBooks, Calls
<1>8. Holders' /\ Calls' /\ Unwritten'
  BY <1>7 DEF OverlayBooks, Holders, Calls, Unwritten
<1>9. Fresh'
  <2> SUFFICES ASSUME NEW i \in 1..Len(posted'), posted'[i] \in Window,
                      NEW c \in open \cup {asked}
               PROVE  posted'[i] \in clicked[c]
    BY <1>7 DEF Fresh
  <2>1. i + 1 \in 1..Len(posted) /\ posted[i + 1] \in Window /\ 1 \in 1..Len(posted) /\ 1 < i + 1
    BY <1>2
  <2> QED BY <2>1, <1>2 DEF OverlayBooks, Fresh
<1> QED BY <1>5, <1>6, <1>8, <1>9 DEF OverlayBooks

LEMMA AppearKeeps == OverlayBooks /\ Appear => OverlayBooks'
<1> SUFFICES ASSUME OverlayBooks, Appear PROVE OverlayBooks'
  OBVIOUS
<1> USE DEF Appear, listener, loop, monitor, window
<1>1. Figures /\ Switches
  BY TypeHalves DEF OverlayBooks
<1>2. phase = "showing" /\ phase' = "starting" /\ started \subseteq waiting /\ ~Waits
  BY DEF OverlayBooks, Nested
<1>3. CASE UNCHANGED <<started, listener>>
  <2>1. Figures' /\ Switches'
    BY <1>1, <1>3 DEF Figures, Switches
  <2>2. OverlayTypeOK'
    BY <2>1 DEF OverlayTypeOK, Figures, Switches, Posts
  <2>3. Holders' /\ Nested' /\ Calls' /\ Fresh' /\ Unwritten'
    BY <1>2, <1>3 DEF OverlayBooks, Holders, Nested, Waits, Inner, Calls, Fresh, Unwritten
  <2> QED BY <2>2, <2>3 DEF OverlayBooks
<1>4. ASSUME NEW c \in open, Inner(c), started' = started \cup {c},
             refs' = refs + 1 /\ hook' = TRUE /\ wired' = TRUE
      PROVE  OverlayBooks'
  <2>1. c \notin waiting /\ c \notin started /\ c \in 1..MaxAsks
    BY <1>1, <1>2, <1>4, OverlayAssumption DEF Waits, Figures, OverlayAssumption
  <2>2. Cardinality(started') = Cardinality(started) + 1 /\ Cardinality(started) \in Nat
    BY <1>1, <1>4, <2>1, Holds DEF Figures
  <2>3. started' \in SUBSET (1..asked) /\ Cardinality(started') <= MaxAsks
    BY <1>1, <1>4, Holds DEF Figures
  <2>4. Holders' /\ refs' \in 0..MaxAsks + 1
    BY <1>1, <1>4, <2>2, <2>3, OverlayAssumption
    DEF OverlayBooks, Holders, Figures, OverlayAssumption
  <2>5. Figures'
    BY <1>1, <1>4, <2>4 DEF Figures
  <2>6. Switches'
    BY <1>1, <1>4, Zenon DEF Switches
  <2>7. OverlayTypeOK'
    BY <2>5, <2>6 DEF OverlayTypeOK, Figures, Switches, Posts
  <2>8. Nested'
    BY <1>2, <1>4 DEF OverlayBooks, Nested, Waits, Inner
  <2>9. Calls' /\ Fresh' /\ Unwritten'
    BY <1>2 DEF OverlayBooks, Calls, Fresh, Unwritten
  <2> QED BY <2>4, <2>7, <2>8, <2>9 DEF OverlayBooks
<1> QED BY <1>3, <1>4

LEMMA WaitKeeps == OverlayBooks /\ Wait => OverlayBooks'
<1> SUFFICES ASSUME OverlayBooks, Wait PROVE OverlayBooks'
  OBVIOUS
<1> USE DEF Wait, listener
<1>1. Figures /\ Switches
  BY TypeHalves DEF OverlayBooks
<1>2. PICK c \in open : Inner(c) /\ waiting' = waiting \cup {c}
  OBVIOUS
<1>3. OverlayTypeOK'
  <2>1. Figures'
    BY <1>1, <1>2, LoopCounts, OverlayAssumption DEF Figures, OverlayAssumption
  <2>2. Switches'
    BY <1>1 DEF Switches
  <2> QED BY <2>1, <2>2 DEF OverlayTypeOK, Figures, Switches, Posts
<1>4. Nested'
  <2>1. Waits'
    BY <1>2 DEF Waits, Inner
  <2>2. \A d \in started : d \in waiting'
    <3> SUFFICES ASSUME NEW d \in started, d \notin waiting PROVE d = c
      BY <1>2
    <3>1. Inner(d)
      BY DEF OverlayBooks, Nested
    <3> QED BY <3>1, <1>1, <1>2 DEF Inner, Figures
  <2> QED BY <2>1, <2>2 DEF Nested
<1>5. Holders' /\ Unwritten' /\ Calls' /\ Fresh'
  BY DEF OverlayBooks, Holders, Unwritten, Calls, Fresh
<1> QED BY <1>3, <1>4, <1>5 DEF OverlayBooks

LEMMA ReturnKeeps == OverlayBooks /\ Return => OverlayBooks'
<1> SUFFICES ASSUME OverlayBooks, Return PROVE OverlayBooks'
  OBVIOUS
<1> USE DEF Return, listener, StopListener
<1>1. Figures /\ Switches
  BY TypeHalves DEF OverlayBooks
<1>2. PICK c \in open : /\ Inner(c) /\ open' = open \ {c} /\ waiting' = waiting \ {c}
                       /\ started' = started \ {c}
                       /\ IF c \in started THEN StopListener ELSE UNCHANGED listener
  OBVIOUS
<1>3. c \in 1..MaxAsks /\ started \in SUBSET (1..asked)
  BY <1>1, OverlayAssumption DEF Figures, OverlayAssumption
<1>4. refs' \in 0..MaxAsks + 1 /\ hook' \in BOOLEAN /\ wired' = wired /\ Holders'
  <2>1. CASE c \in started
    <3>1. Cardinality(started') = Cardinality(started) - 1 /\ Cardinality(started) \in Nat
      BY <1>1, <1>2, <1>3, <2>1, Holds DEF Figures
    <3>2. Cardinality(started') \in Nat
      BY <1>1, <1>2, <1>3, Holds DEF Figures
    <3>3. refs' = IF refs > 0 THEN refs - 1 ELSE 0
      BY <1>2, <2>1
    <3> QED BY <1>1, <1>2, <2>1, <3>1, <3>2, <3>3, OverlayAssumption
            DEF OverlayBooks, Holders, Figures, Switches, OverlayAssumption
  <2>2. CASE c \notin started
    <3>1. started' = started
      BY <1>2, <2>2
    <3> QED BY <1>1, <1>2, <2>2, <3>1 DEF OverlayBooks, Holders, Figures, Switches
  <2> QED BY <2>1, <2>2
<1>5. clicked' \in [1..MaxAsks -> SUBSET Window]
      /\ \A d \in open' \cup ({asked} \cap 1..MaxAsks) : clicked'[d] = clicked[d]
  BY <1>1, <1>2, OverlayAssumption DEF ClickedFor, Figures, OverlayAssumption
<1>6. phase' \in {"away", "showing", "waiting"} /\ (phase' = "waiting" <=> Waits')
  <2>1. open' = {} => ~Waits'
    BY DEF Waits, Inner
  <2> QED BY <2>1
<1>7. OverlayTypeOK'
  <2>1. Figures'
    BY <1>1, <1>2, <1>4, <1>5, <1>6, OverlayAssumption DEF Figures, OverlayAssumption
  <2>2. written' \in BOOLEAN
    BY DEF Waits
  <2>3. Switches'
    BY <1>1, <1>4, <2>2, OverlayAssumption, Zenon DEF Switches, OverlayAssumption
  <2> QED BY <2>1, <2>3 DEF OverlayTypeOK, Figures, Switches, Posts
<1>8. Nested' /\ Unwritten'
  BY <1>2, <1>6 DEF OverlayBooks, Nested, Unwritten
<1>9. Calls'
  BY <1>2 DEF OverlayBooks, Calls
<1>10. Fresh'
  <2> SUFFICES ASSUME NEW i \in 1..Len(posted), posted[i] \in Window
               PROVE  /\ \A d \in open' : posted[i] \in clicked'[d]
                      /\ \A j \in 1..Len(posted) :
                           j < i /\ posted[j] = Call => posted[i] \in clicked'[asked]
    BY DEF Fresh
  <2>1. \A d \in open' : posted[i] \in clicked'[d]
    BY <1>2, <1>5 DEF OverlayBooks, Fresh
  <2>2. ASSUME NEW j \in 1..Len(posted), j < i, posted[j] = Call
        PROVE  posted[i] \in clicked'[asked]
    <3>1. asked \in 1..MaxAsks
      BY <1>1, <2>2 DEF OverlayBooks, Calls, Figures
    <3> QED BY <1>5, <2>2, <3>1 DEF OverlayBooks, Fresh
  <2> QED BY <2>1, <2>2
<1> QED BY <1>4, <1>7, <1>8, <1>9, <1>10 DEF OverlayBooks

LEMMA CloseChanges ==
  ASSUME OverlayBooks, NEW w \in Window \cup {Nobody}, CloseTo(w), UNCHANGED <<phase, queued, queries>>
  PROVE  /\ written' \in BOOLEAN /\ state' = "INIT" /\ bound' = FALSE /\ own' = FALSE
         /\ skip' \in BOOLEAN /\ pid' = w /\ update' = "IDLE" /\ ping' = FALSE
         /\ ticks' \in 0..MaxLoops /\ (phase # "waiting" => ~written')
<1> USE DEF CloseTo, ResetTo
<1>1. written' \in BOOLEAN /\ (phase # "waiting" => ~written')
  BY DEF OverlayBooks, OverlayTypeOK
<1>2. skip' \in BOOLEAN
  BY OverlayAssumption, Zenon DEF OverlayAssumption
<1>3. ticks' \in 0..MaxLoops
  BY OverlayAssumption DEF OverlayBooks, OverlayTypeOK, OverlayAssumption
<1>4. state' = "INIT" /\ bound' = FALSE /\ own' = FALSE /\ pid' = w /\ update' = "IDLE" /\ ping' = FALSE
  BY Zenon
<1> QED BY <1>1, <1>2, <1>3, <1>4

LEMMA OnClickKeeps == OverlayBooks /\ OnClick => OverlayBooks'
<1> SUFFICES ASSUME OverlayBooks, OnClick PROVE OverlayBooks'
  OBVIOUS
<1> USE DEF OnClick, listener, call, calls
<1>1. posted \in Seq(Posts)
  BY DEF OverlayBooks, OverlayTypeOK, Posts
<1>2. /\ posted' \in Seq(Posts) /\ Len(posted') = Len(posted) - 1 /\ Len(posted) \in Nat \ {0}
      /\ posted[1] # Call /\ Head(posted) \in Window \cup {Nobody}
      /\ \A i \in 1..Len(posted') : posted'[i] = posted[i + 1] /\ i + 1 \in 1..Len(posted)
  BY <1>1, PostedServed DEF Posts
<1> DEFINE w == IF skip THEN Nobody ELSE Head(posted)
<1>3. w \in Window \cup {Nobody} /\ CloseTo(w)
  BY <1>2
<1> HIDE DEF w
<1>4. /\ written' \in BOOLEAN /\ state' = "INIT" /\ bound' = FALSE /\ own' = FALSE
      /\ skip' \in BOOLEAN /\ pid' = w /\ update' = "IDLE" /\ ping' = FALSE
      /\ ticks' \in 0..MaxLoops /\ (phase # "waiting" => ~written')
  BY <1>3, CloseChanges
<1>5. OverlayTypeOK'
  <2>0. Figures /\ Switches
    BY TypeHalves DEF OverlayBooks
  <2>1. Figures'
    BY <2>0, <1>2, <1>3, <1>4, OverlayAssumption DEF Figures, OverlayAssumption
  <2>2. Switches'
    BY <2>0, <1>4, Zenon DEF Switches, Posts
  <2> QED BY <2>1, <2>2 DEF OverlayTypeOK, Figures, Switches, Posts
<1>6. Holders' /\ Nested' /\ Unwritten'
  BY <1>4 DEF OverlayBooks, Holders, Nested, Waits, Inner, Unwritten
<1>7. Calls'
  BY <1>2 DEF OverlayBooks, Calls
<1>8. Fresh'
  <2> SUFFICES ASSUME NEW i \in 1..Len(posted'), posted'[i] \in Window
               PROVE  /\ \A c \in open : posted'[i] \in clicked[c]
                      /\ \A j \in 1..Len(posted') :
                           j < i /\ posted'[j] = Call => posted'[i] \in clicked[asked]
    BY DEF Fresh
  <2>1. i + 1 \in 1..Len(posted) /\ posted[i + 1] \in Window /\ posted'[i] = posted[i + 1]
    BY <1>2
  <2>2. ASSUME NEW j \in 1..Len(posted'), j < i, posted'[j] = Call
        PROVE  j + 1 \in 1..Len(posted) /\ j + 1 < i + 1 /\ posted[j + 1] = Call
    BY <2>2, <1>2
  <2> QED BY <2>1, <2>2 DEF OverlayBooks, Fresh
<1> QED BY <1>5, <1>6, <1>7, <1>8 DEF OverlayBooks

LEMMA CloseKeeps == OverlayBooks /\ Close => OverlayBooks'
<1> SUFFICES ASSUME OverlayBooks, Close PROVE OverlayBooks'
  OBVIOUS
<1> USE DEF Close, listener, call, calls
<1>1. /\ written' \in BOOLEAN /\ state' = "INIT" /\ bound' = FALSE /\ own' = FALSE
      /\ skip' \in BOOLEAN /\ pid' = Nobody /\ update' = "IDLE" /\ ping' = FALSE
      /\ ticks' \in 0..MaxLoops /\ (phase # "waiting" => ~written')
  BY CloseChanges
<1>2. OverlayTypeOK'
  BY <1>1 DEF OverlayTypeOK, OverlayBooks
<1>3. Holders' /\ Unwritten'
  BY <1>1 DEF OverlayBooks, Holders, Unwritten
<1>4. Nested' /\ Calls' /\ Fresh'
  BY QueueStays DEF OverlayBooks
<1> QED BY <1>2, <1>3, <1>4 DEF OverlayBooks

LEMMA ClickKeeps ==
  ASSUME OverlayBooks, NEW w \in Window \cup {Nobody}, Clicked(w), UNCHANGED <<asked, phase, calls>>
  PROVE  /\ posted' \in Seq(Posts) /\ Len(posted') <= MaxPosted /\ clicked' \in [1..MaxAsks -> SUBSET Window]
         /\ Nested' /\ Calls' /\ Fresh'
<1> USE DEF Clicked, Posted, calls
<1>1. posted \in Seq(Posts) /\ w \in Posts /\ w # Call
  BY OverlayAssumption DEF OverlayBooks, OverlayTypeOK, Posts, OverlayAssumption
<1>2. /\ posted' \in Seq(Posts) /\ Len(posted') = Len(posted) + 1 /\ Len(posted) \in Nat
      /\ \A i \in 1..Len(posted) : posted'[i] = posted[i]
      /\ posted'[Len(posted) + 1] = w
  BY <1>1, PostedAppends
<1>3. Len(posted') <= MaxPosted
  BY <1>2, OverlayAssumption DEF OverlayAssumption
<1>4. /\ clicked' \in [1..MaxAsks -> SUBSET Window]
      /\ \A c \in 1..MaxAsks : /\ clicked[c] \subseteq clicked'[c]
                              /\ c \in open \cup {asked} /\ w \in Window => w \in clicked'[c]
  BY OverlayAssumption DEF OverlayBooks, OverlayTypeOK, OverlayAssumption
<1>5. Nested' /\ Calls'
  BY <1>1, <1>2 DEF OverlayBooks, Nested, Waits, Inner, Calls
<1>6. Fresh'
  <2> SUFFICES ASSUME NEW i \in 1..Len(posted'), posted'[i] \in Window
               PROVE  /\ \A c \in open : posted'[i] \in clicked'[c]
                      /\ \A j \in 1..Len(posted') :
                           j < i /\ posted'[j] = Call => posted'[i] \in clicked'[asked]
    BY DEF Fresh
  <2>1. open \subseteq 1..MaxAsks /\ asked \in 0..MaxAsks
    BY OverlayAssumption DEF OverlayBooks, OverlayTypeOK, OverlayAssumption
  <2>2. ASSUME NEW j \in 1..Len(posted'), posted'[j] = Call
        PROVE  j \in 1..Len(posted) /\ posted[j] = Call /\ asked \in 1..MaxAsks
    <3>1. j # Len(posted) + 1
      BY <1>1, <1>2, <2>2
    <3>2. j \in 1..Len(posted) /\ posted[j] = Call
      BY <1>2, <2>2, <3>1
    <3> QED BY <2>1, <3>2 DEF OverlayBooks, Calls
  <2>3. CASE i = Len(posted) + 1
    BY <1>2, <1>4, <2>1, <2>2, <2>3
  <2>4. CASE i \in 1..Len(posted)
    <3>1. posted'[i] = posted[i] /\ posted[i] \in Window
      BY <1>2, <2>4
    <3>2. \A c \in open : posted[i] \in clicked[c]
      BY <2>4, <3>1 DEF OverlayBooks, Fresh
    <3>3. ASSUME NEW j \in 1..Len(posted'), j < i, posted'[j] = Call
          PROVE  posted[i] \in clicked[asked] /\ asked \in 1..MaxAsks
      BY <2>2, <2>4, <3>1, <3>3 DEF OverlayBooks, Fresh
    <3>4. \A c \in open : posted[i] \in clicked'[c]
      BY <1>4, <2>1, <3>2
    <3>5. ASSUME NEW j \in 1..Len(posted'), j < i, posted'[j] = Call
          PROVE  posted[i] \in clicked'[asked]
      BY <1>4, <3>3, <3>5
    <3> QED BY <3>1, <3>4, <3>5
  <2>5. i = Len(posted) + 1 \/ i \in 1..Len(posted)
    BY <1>2
  <2> QED BY <2>3, <2>4, <2>5
<1> QED BY <1>2, <1>3, <1>4, <1>5, <1>6

LEMMA PointerClickKeeps ==
  ASSUME OverlayBooks, NEW w \in Window \cup {Nobody}, HookClick(w) \/ WindowClick(w)
  PROVE  OverlayBooks'
<1> USE DEF HookClick, WindowClick, listener, loop, window, calls
<1>1. /\ posted' \in Seq(Posts) /\ Len(posted') <= MaxPosted /\ clicked' \in [1..MaxAsks -> SUBSET Window]
      /\ Nested' /\ Calls' /\ Fresh'
  BY ClickKeeps
<1>2. OverlayTypeOK'
  <2>0. Figures /\ Switches
    BY TypeHalves DEF OverlayBooks
  <2>1. Figures'
    BY <2>0, <1>1 DEF Figures, EnsureHooked, Posts
  <2>2. Switches'
    BY <2>0, Zenon DEF Switches, EnsureHooked, Posts
  <2> QED BY <2>1, <2>2 DEF OverlayTypeOK, Figures, Switches, Posts
<1>3. Holders' /\ Unwritten'
  BY DEF OverlayBooks, Holders, Unwritten
<1> QED BY <1>1, <1>2, <1>3 DEF OverlayBooks

LEMMA PointerKeeps ==
  ASSUME OverlayBooks, HookMove \/ WindowMove \/ WindowChange \/ HookDies
  PROVE  OverlayBooks'
<1> USE DEF HookMove, WindowMove, WindowChange, HookDies, call, calls, listener, loop, monitor, window
<1>1. OverlayTypeOK'
  <2>0. Figures /\ Switches
    BY TypeHalves DEF OverlayBooks
  <2>1. Figures'
    BY <2>0, LoopCounts, OverlayAssumption DEF Figures, QueueUpdate, OverlayAssumption
  <2>2. Switches'
    <3>1. CASE HookMove
      <4>1. pinged' \in BOOLEAN /\ ping' \in BOOLEAN
        BY <2>0, <3>1 DEF Switches
      <4> QED BY <2>0, <3>1, <4>1, Zenon DEF Switches
    <3>2. CASE WindowMove \/ WindowChange
      BY <2>0, <3>2, Zenon DEF Switches, QueueUpdate
    <3>3. CASE HookDies
      BY <2>0, <3>3, Zenon DEF Switches
    <3> QED BY <3>1, <3>2, <3>3
  <2> QED BY <2>1, <2>2 DEF OverlayTypeOK, Figures, Switches, Posts
<1>2. Holders' /\ Unwritten'
  BY DEF OverlayBooks, Holders, Unwritten
<1>3. Nested' /\ Calls' /\ Fresh'
  BY QueueStays DEF OverlayBooks
<1> QED BY <1>1, <1>2, <1>3 DEF OverlayBooks

LEMMA LoopKeeps ==
  ASSUME OverlayBooks, Process \/ Finish \/ Tick \/ Monitor
  PROVE  OverlayBooks'
<1> USE DEF call, calls, listener, monitor, window
<1>1. queued' \in 0..MaxLoops /\ queries' \in 0..MaxLoops /\ ticks' \in 0..MaxLoops
  BY LoopCounts, OverlayAssumption
  DEF OverlayBooks, OverlayTypeOK, Process, Finish, Tick, Monitor, QueueUpdate, OverlayAssumption
<1>2. /\ refs' \in 0..MaxAsks + 1 /\ refs' <= refs /\ hook' \in BOOLEAN
      /\ UNCHANGED <<asked, clicked, answer, phase, open, waiting, started, wired, posted, written, pid, skip>>
  BY OverlayAssumption
  DEF OverlayBooks, OverlayTypeOK, Process, Finish, Tick, Monitor, StopListener, OverlayAssumption
<1>3. /\ update' \in {"IDLE", "PENDING", "RUNNING"} /\ ping' \in BOOLEAN /\ pinged' \in BOOLEAN
      /\ state' \in {"INIT", "POLLING", "HOOKED"} /\ bound' \in BOOLEAN /\ own' \in BOOLEAN
  BY DEF OverlayBooks, OverlayTypeOK, Process, Finish, Tick, Monitor, QueueUpdate
<1>4. OverlayTypeOK'
  BY <1>1, <1>2, <1>3 DEF OverlayTypeOK, OverlayBooks
<1>5. Holders' /\ Unwritten'
  <2>1. started \in SUBSET (1..asked)
    BY DEF OverlayBooks, OverlayTypeOK
  <2>2. Cardinality(started) \in Nat
    BY <2>1, Holds DEF OverlayBooks, OverlayTypeOK
  <2> QED BY <1>2, <2>2 DEF OverlayBooks, OverlayTypeOK, Holders, Unwritten
<1>6. Nested' /\ Calls' /\ Fresh'
  BY <1>2, QueueStays DEF OverlayBooks
<1> QED BY <1>4, <1>5, <1>6 DEF OverlayBooks

LEMMA OverlayStays == OverlayBooks /\ UNCHANGED overlayVars => OverlayBooks'
BY QueueStays
DEF OverlayBooks, OverlayTypeOK, Holders, Unwritten, overlayVars, call, calls, listener, loop,
    monitor, window

LEMMA OverlayGoes == OverlayBooks /\ [OverlayNext]_overlayVars => OverlayBooks'
BY AskKeeps, BeginKeeps, AppearKeeps, WaitKeeps, ReturnKeeps, OnClickKeeps, CloseKeeps,
   PointerClickKeeps, PointerKeeps, LoopKeeps, OverlayStays
DEF OverlayNext, Callback, Choosing

\* Every step of the overlay is one of what it promises, or none.
LEMMA PromiseBegins == OverlayInit => Promise!ChooserInit
BY DEF OverlayInit, Promise!ChooserInit, Promise!Asks, Closed

LEMMA PromiseGoes ==
  OverlayBooks /\ [OverlayNext]_overlayVars => [Promise!ChooserNext]_(Promise!chooser)
<1> SUFFICES ASSUME OverlayBooks, [OverlayNext]_overlayVars
             PROVE  Promise!ChooserNext \/ UNCHANGED Promise!chooser
  OBVIOUS
<1> USE DEF call, calls, listener, loop, monitor, window, Promise!chooser, Promise!Asks
<1>1. /\ open \subseteq 1..asked /\ waiting \subseteq open /\ asked \in 0..MaxAsks
      /\ MaxAsks \in Nat
  BY OverlayAssumption DEF OverlayBooks, OverlayTypeOK, OverlayAssumption
<1>2. (\A c : Promise!Inner(c) <=> Inner(c)) /\ (Promise!Waits <=> Waits) /\ (Promise!Waits' <=> Waits')
  BY DEF Promise!Inner, Inner, Promise!Waits, Waits
<1>3. CASE Ask
  BY <1>3 DEF Ask, Closed, ClickedFor, Promise!ChooserNext, Promise!Ask, Promise!Asked,
              Promise!ClickedFor
<1>4. CASE Begin
  <2>1. asked > 0 /\ asked \notin open
    <3>1. posted \in Seq(Posts)
      BY DEF OverlayBooks, OverlayTypeOK, Posts
    <3>2. posted[1] = Call /\ 1 \in 1..Len(posted)
      BY <1>4, <3>1, PostedServed DEF Begin
    <3> QED BY <3>2 DEF OverlayBooks, Calls
  <2>2. asked \in 1..MaxAsks /\ \A d \in open : d < asked
    BY <1>1, <2>1
  <2>3. Promise!Open(asked)
    BY <1>4, <2>2 DEF Begin, Free, Closed, Promise!Open
  <2> QED BY <2>2, <2>3 DEF Promise!ChooserNext
<1>5. CASE Appear
  BY <1>5 DEF Appear, Closed
<1>6. CASE Wait
  <2>1. PICK c \in open : Inner(c) /\ waiting' = waiting \cup {c}
    BY <1>6 DEF Wait
  <2>2. ~written /\ written' = written /\ c \in 1..MaxAsks
    BY <1>1, <1>6 DEF Wait, OverlayBooks, Unwritten
  <2>3. c \notin waiting
    BY <1>6, <2>1 DEF Wait, OverlayBooks, Nested, Waits
  <2>4. Promise!Show(c)
    BY <1>2, <1>6, <2>1, <2>2, <2>3 DEF Wait, Closed, Promise!Show
  <2> QED BY <2>2, <2>4 DEF Promise!ChooserNext
<1>7. CASE Return
  <2>1. phase' = "waiting" <=> Waits'
    <3>1. open' = {} => ~Waits'
      BY DEF Waits, Inner
    <3> QED BY <1>7, <3>1 DEF Return
  <2>2. Promise!Return
    BY <1>7, <2>1 DEF Return, Closed, ClickedFor, Waits, Inner, Promise!Return, Promise!ClickedFor,
                      Promise!Waits, Promise!Inner
  <2> QED BY <2>2 DEF Promise!ChooserNext
<1>8. ASSUME NEW w \in Window \cup {Nobody}, Free, CloseTo(w), UNCHANGED call,
             \A c \in open : w \in clicked[c] \cup {Nobody}
      PROVE  Promise!ChooserNext \/ UNCHANGED Promise!chooser
  <2>1. CASE phase # "waiting"
    BY <1>8, <2>1 DEF Closed
  <2>2. CASE phase = "waiting" /\ ~written
    <3>1. PICK c \in waiting : Inner(c)
      BY <2>2 DEF OverlayBooks, Nested, Waits
    <3>2. ~Closed /\ Closed' /\ pid' = w
      BY <1>8, <2>2 DEF Closed, CloseTo, ResetTo
    <3>3. Promise!CloseOn(w)
      BY <1>1, <1>2, <1>8, <3>1, <3>2 DEF Promise!CloseOn
    <3> QED BY <3>3 DEF Promise!ChooserNext
  <2> QED BY <1>8, <2>1, <2>2 DEF Free
<1>9. CASE OnClick
  <2>1. posted \in Seq(Posts)
    BY DEF OverlayBooks, OverlayTypeOK, Posts
  <2>2. posted[1] = Head(posted) /\ 1 \in 1..Len(posted) /\ Head(posted) \in Window \cup {Nobody}
    BY <1>9, <2>1, PostedServed DEF OnClick, Posts
  <2>3. \A c \in open : Head(posted) \in clicked[c] \cup {Nobody}
    BY <2>2 DEF OverlayBooks, Fresh
  <2> QED BY <1>9, <2>2, <2>3, <1>8 DEF OnClick
<1>10. CASE Close
  BY <1>10, <1>8 DEF Close
<1>11. ASSUME NEW w \in Window \cup {Nobody}, HookClick(w) \/ WindowClick(w)
      PROVE  Promise!ChooserNext \/ UNCHANGED Promise!chooser
  <2>1. /\ UNCHANGED <<asked, answer, phase, calls, written, pid>> /\ Clicked(w)
    BY <1>11 DEF HookClick, WindowClick
  <2>2. CASE w = Nobody
    <3>1. clicked' = clicked
      BY <2>1, <2>2 DEF Clicked, OverlayBooks, OverlayTypeOK
    <3> QED BY <2>1, <3>1 DEF Closed
  <2>3. CASE w \in Window
    <3>1. {w} \ {Nobody} = {w}
      BY <2>3, OverlayAssumption DEF OverlayAssumption
    <3>2. Promise!ClickOn(w)
      BY <2>1, <3>1 DEF Clicked, Closed, Promise!ClickOn
    <3> QED BY <3>2, <2>3 DEF Promise!ChooserNext
  <2> QED BY <2>2, <2>3
<1>12. CASE HookMove \/ WindowMove \/ WindowChange \/ HookDies \/ Process \/ Finish \/ Tick \/ Monitor
  <2>1. UNCHANGED <<call, written, pid>>
    BY <1>12 DEF HookMove, WindowMove, WindowChange, HookDies, Process, Finish, Tick, Monitor
  <2> QED BY <2>1 DEF Closed
<1>13. CASE UNCHANGED overlayVars
  BY <1>13 DEF overlayVars, Closed
<1> QED BY <1>3, <1>4, <1>5, <1>6, <1>7, <1>9, <1>10, <1>11, <1>12, <1>13
        DEF OverlayNext, Callback, Choosing

-----------------------------------------------------------------------------
(* Kill by Click. *)

Runs == {"unborn", "starting", "waiting", "ended"}
Polls == {"unborn", "listening", "closing", "reporting", "ended"}
Held == Window \cup {Nobody, Error}
Items == [kind : {"choose", "end"}, of : Kill!Session, res : Held \cup {Timeout}]

DialogTypes ==
  /\ developer \in BOOLEAN /\ skipped \in BOOLEAN /\ visible \in BOOLEAN /\ paused \in BOOLEAN
  /\ session \in 0..MaxAsks /\ asks = session /\ ctx \in {0, session}
  /\ prompt \in {0, session} /\ done \subseteq 1..session /\ cancelled \in 0..session
  /\ nested \subseteq 1..session
  /\ runner \in [Kill!Session -> Runs] /\ poller \in [Kill!Session -> Polls]
  /\ held \in [Kill!Session -> Held] /\ hits \in [Kill!Session -> SUBSET Window]
  /\ items \in Seq(Items) /\ picked \in Window \cup {Nobody}

\* A session that is over stays so: its thread is told, what it left was left
\* then, and its number is not given again.
Over ==
  /\ \A s \in 1..session : s # ctx => s \in done
  /\ ctx # 0 => ctx # cancelled
  /\ joining => ctx # 0
  /\ \A s \in Kill!Session : s > session => runner[s] = "unborn" /\ poller[s] = "unborn"
  /\ \A s \in Kill!Session : s \notin done => held[s] = Nobody

\* A call under way has left nothing yet, and what is posted is of a session
\* that began.
Served ==
  /\ \A s \in nested : held[s] \notin Window
  /\ \A i \in 1..Len(items) : items[i].of <= session

\* A target was clicked for the session that ends with it, from the overlay over
\* the thread to the end that is posted and the prompt.
Picked == closed /\ picked \in Window => \A s \in nested : Kill!Inner(s) => picked \in hits[s]
Aimed ==
  /\ Picked
  /\ session # 0 /\ held[session] \in Window => held[session] \in hits[session]
  /\ \A i \in 1..Len(items) :
       items[i].kind = "end" /\ items[i].of = ctx /\ items[i].res \in Window =>
         ctx \in done /\ held[ctx] = items[i].res
  /\ prompt # 0 => ctx = 0 /\ ~skipped /\ prompt # cancelled /\ held[prompt] \in Window

SessionBooks == DialogTypes /\ Over /\ Served /\ Aimed /\ Kill!SessionInv

LEMMA SessionFacts ==
  /\ Nobody \notin Window /\ Error \notin Window /\ Timeout \notin Window
  /\ MaxAsks \in Nat /\ Kill!Session = 1..MaxAsks /\ Kill!Asks = 1..MaxAsks
BY DesktopAssumption DEF Kill!DialogAssumption, Kill!Session, Kill!Asks

LEMMA ItemIs ==
  ASSUME NEW x \in Items
  PROVE  /\ x.kind \in {"choose", "end"} /\ x.of \in Kill!Session /\ x.of # 0
         /\ x.res \in Held \cup {Timeout}
BY SessionFacts DEF Items

LEMMA ItemsOf ==
  ASSUME DialogTypes
  PROVE  \A i \in 1..Len(items) : items[i] \in Items /\ items[i].of \in Kill!Session /\ items[i].of # 0
<1>1. items \in Seq(Items)
  BY DEF DialogTypes
<1>2. ASSUME NEW i \in 1..Len(items) PROVE items[i] \in Items
  BY <1>1, <1>2
<1> QED BY <1>2, ItemIs

\* What is posted is of a session that began, and an end with a target has it
\* from the thread.
LEMMA PostsOne ==
  ASSUME DialogTypes, Served, Aimed, NEW kind \in {"choose", "end"}, NEW s \in 1..session,
         NEW res \in Held \cup {Timeout}, items' = Append(items, Kill!Item(kind, s, res)),
         kind = "end" /\ res \in Window => s \in done /\ held[s] = res,
         UNCHANGED <<session, ctx, done, held>>
  PROVE  /\ items' \in Seq(Items)
         /\ \A i \in 1..Len(items') :
              /\ items'[i].of <= session'
              /\ items'[i].kind = "end" /\ items'[i].of = ctx' /\ items'[i].res \in Window =>
                   ctx' \in done' /\ held'[ctx'] = items'[i].res
<1> USE SessionFacts
<1> DEFINE x == Kill!Item(kind, s, res)
<1>1. x \in Items /\ x.kind = kind /\ x.of = s /\ x.res = res
  BY DEF Kill!Item, Items, DialogTypes
<1> HIDE DEF x
<1>2. items \in Seq(Items) /\ items' = Append(items, x)
  BY DEF DialogTypes, x
<1>3. /\ items' \in Seq(Items) /\ Len(items') = Len(items) + 1 /\ Len(items) \in Nat
      /\ \A i \in 1..Len(items) : items'[i] = items[i]
      /\ items'[Len(items) + 1] = x
  BY <1>1, <1>2
<1>4. ASSUME NEW i \in 1..Len(items')
      PROVE  /\ items'[i].of <= session'
             /\ items'[i].kind = "end" /\ items'[i].of = ctx' /\ items'[i].res \in Window =>
                  ctx' \in done' /\ held'[ctx'] = items'[i].res
  <2>1. CASE i \in 1..Len(items)
    BY <1>3, <2>1 DEF Served, Aimed
  <2>2. CASE i = Len(items) + 1
    BY <1>1, <1>3, <2>2 DEF DialogTypes
  <2>3. i \in 1..Len(items) \/ i = Len(items) + 1
    BY <1>3
  <2> QED BY <2>1, <2>2, <2>3
<1> QED BY <1>3, <1>4

\* What is served is gone from what is posted, and the rest stays.
LEMMA ServeLeaves ==
  ASSUME DialogTypes, NEW kind, Kill!Serve(kind)
  PROVE  /\ items' \in Seq(Items) /\ 1 \in 1..Len(items) /\ Head(items) = items[1]
         /\ Head(items) \in Items /\ Head(items).kind = kind /\ ~closed /\ ~joining
         /\ \A i \in 1..Len(items') : \E k \in 1..Len(items) : items'[i] = items[k]
<1>1. items \in Seq(Items) /\ items # <<>> /\ items' = Tail(items) /\ Head(items).kind = kind
      /\ ~closed /\ ~joining
  BY DEF DialogTypes, Kill!Serve, Kill!Free
<1>2. /\ items' \in Seq(Items) /\ Len(items') = Len(items) - 1 /\ Len(items) \in Nat \ {0}
      /\ Head(items) = items[1] /\ Head(items) \in Items
      /\ \A i \in 1..Len(items') : items'[i] = items[i + 1]
  BY <1>1
<1>3. ASSUME NEW i \in 1..Len(items') PROVE \E k \in 1..Len(items) : items'[i] = items[k]
  <2>1. i + 1 \in 1..Len(items)
    BY <1>2
  <2> QED BY <1>2, <2>1
<1> QED BY <1>1, <1>2, <1>3

LEMMA SessionBegins == Kill!DialogInit => SessionBooks
<1> SUFFICES ASSUME Kill!DialogInit PROVE SessionBooks
  OBVIOUS
<1> USE SessionFacts DEF Kill!DialogInit, Kill!ChooserInit
<1>1. DialogTypes
  <2>1. items \in Seq(Items)
    OBVIOUS
  <2>2. /\ runner \in [Kill!Session -> Runs] /\ poller \in [Kill!Session -> Polls]
        /\ held \in [Kill!Session -> Held] /\ hits \in [Kill!Session -> SUBSET Window]
    BY DEF Held, Runs, Polls
  <2>3. developer \in BOOLEAN /\ skipped \in BOOLEAN /\ paused \in BOOLEAN /\ visible \in BOOLEAN
    BY Zenon
  <2>4. /\ session \in 0..MaxAsks /\ asks = session /\ ctx \in {0, session}
        /\ prompt \in {0, session} /\ done \subseteq 1..session /\ cancelled \in 0..session
        /\ nested \subseteq 1..session /\ picked \in Window \cup {Nobody}
    OBVIOUS
  <2> QED BY <2>1, <2>2, <2>3, <2>4 DEF DialogTypes
<1>2. Over /\ Served /\ Aimed
  BY DEF Over, Served, Aimed, Picked
<1>3. Kill!SessionInv
  <2>1. Kill!Restored
    BY Zenon DEF Kill!Restored
  <2>2. Kill!NoOrphan
    BY DEF Kill!NoOrphan
  <2> QED BY <2>1, <2>2 DEF Kill!SessionInv
<1> QED BY <1>1, <1>2, <1>3 DEF SessionBooks

LEMMA TogglePauseKeeps == SessionBooks /\ Kill!TogglePause => SessionBooks'
<1> SUFFICES ASSUME SessionBooks, Kill!TogglePause PROVE SessionBooks'
  OBVIOUS
<1> USE DEF Kill!TogglePause, SessionBooks, Kill!threads, Kill!chooser, Kill!results, Kill!target,
            Kill!history
<1>1. DialogTypes'
  BY DEF DialogTypes
<1>2. Over' /\ Served' /\ Aimed'
  BY DEF Over, Served, Aimed, Picked, Kill!Inner
<1>3. Kill!SessionInv'
  BY DEF Kill!SessionInv, Kill!Restored, Kill!NoOrphan, Kill!Inner, DialogTypes
<1> QED BY <1>1, <1>2, <1>3

LEMMA StartKeeps == SessionBooks /\ Kill!Start => SessionBooks'
<1> SUFFICES ASSUME SessionBooks, Kill!Start PROVE SessionBooks'
  OBVIOUS
<1> USE SessionFacts DEF Kill!Start, Kill!Asked, Kill!results, Kill!target
<1>1. DialogTypes /\ Over /\ Served /\ Aimed /\ Kill!SessionInv
  BY DEF SessionBooks
<1>2. ctx = 0 /\ prompt = 0 /\ ~closed /\ ~joining
  BY <1>1 DEF Kill!SessionInv, Kill!Restored, Kill!Free, DialogTypes
<1>3. session \in Nat /\ session + 1 \in Kill!Session /\ session' = session + 1
  BY <1>1 DEF DialogTypes
<1>4. /\ runner' \in [Kill!Session -> Runs] /\ poller' \in [Kill!Session -> Polls]
      /\ hits' \in [Kill!Session -> SUBSET Window]
      /\ \A s \in Kill!Session \ {session + 1} : runner'[s] = runner[s] /\ poller'[s] = poller[s]
  BY <1>1, <1>3 DEF DialogTypes, Runs, Polls, Kill!ClickedFor
<1>5. DialogTypes'
  <2>1. /\ session' \in 0..MaxAsks /\ asks' = session' /\ ctx' \in {0, session'}
        /\ prompt' \in {0, session'} /\ done' \subseteq 1..session'
        /\ cancelled' \in 0..session' /\ nested' \subseteq 1..session'
    BY <1>1, <1>2, <1>3 DEF DialogTypes
  <2>2. developer' \in BOOLEAN /\ skipped' \in BOOLEAN /\ visible' \in BOOLEAN /\ paused' \in BOOLEAN
    BY <1>1, Zenon DEF DialogTypes
  <2>3. held' \in [Kill!Session -> Held] /\ items' \in Seq(Items) /\ picked' \in Window \cup {Nobody}
    BY <1>1 DEF DialogTypes
  <2> QED BY <1>4, <2>1, <2>2, <2>3 DEF DialogTypes
<1>6. Over'
  BY <1>1, <1>2, <1>3, <1>4 DEF Over, DialogTypes
<1>7. Served'
  BY <1>1, <1>3, ItemsOf DEF Served
<1>8. Aimed'
  <2>1. \A i \in 1..Len(items) : items[i].of # ctx'
    BY <1>1, <1>3, ItemsOf DEF Served
  <2>2. held[session'] = Nobody
    BY <1>1, <1>3 DEF Over, DialogTypes
  <2>3. Picked'
    BY <1>2 DEF Picked
  <2> QED BY <1>2, <2>1, <2>2, <2>3 DEF Aimed
<1>9. Kill!SessionInv'
  <2>1. Kill!Restored'
    BY <1>3 DEF Kill!Restored
  <2>2. Kill!NoOrphan'
    BY <1>1, <1>2 DEF Kill!SessionInv, Kill!NoOrphan, DialogTypes
  <2> QED BY <2>1, <2>2 DEF Kill!SessionInv
<1> QED BY <1>5, <1>6, <1>7, <1>8, <1>9 DEF SessionBooks

LEMMA PostChooseKeeps ==
  ASSUME SessionBooks, NEW s \in Kill!Session, Kill!PostChoose(s)
  PROVE  SessionBooks'
<1> USE SessionFacts
        DEF Kill!PostChoose, Kill!chooser, Kill!dialog, Kill!results, Kill!target, Kill!history
<1>1. DialogTypes /\ Over /\ Served /\ Aimed /\ Kill!SessionInv
  BY DEF SessionBooks
<1>2. s \in 1..session
  BY <1>1 DEF Over, DialogTypes
<1>3. /\ items' \in Seq(Items)
      /\ \A i \in 1..Len(items') :
           /\ items'[i].of <= session'
           /\ items'[i].kind = "end" /\ items'[i].of = ctx' /\ items'[i].res \in Window =>
                ctx' \in done' /\ held'[ctx'] = items'[i].res
  BY <1>1, <1>2, PostsOne DEF Held
<1>4. /\ runner' \in [Kill!Session -> Runs]
      /\ \A r \in Kill!Session \ {s} : runner'[r] = runner[r]
  BY <1>1 DEF DialogTypes, Runs
<1>5. DialogTypes'
  BY <1>1, <1>3, <1>4 DEF DialogTypes
<1>6. Over'
  BY <1>1, <1>2, <1>4 DEF Over, DialogTypes
<1>7. Served' /\ Aimed'
  BY <1>1, <1>3 DEF Served, Aimed, Picked, Kill!Inner
<1>8. Kill!SessionInv'
  BY <1>1 DEF Kill!SessionInv, Kill!Restored, Kill!NoOrphan, Kill!Inner
<1> QED BY <1>5, <1>6, <1>7, <1>8 DEF SessionBooks

LEMMA ChooseKeeps == SessionBooks /\ Kill!Choose => SessionBooks'
<1> SUFFICES ASSUME SessionBooks, Kill!Choose PROVE SessionBooks'
  OBVIOUS
<1> USE SessionFacts
<1>1. DialogTypes /\ Over /\ Served /\ Aimed /\ Kill!SessionInv
  BY DEF SessionBooks
<1> DEFINE s == Head(items).of
<1>2. Kill!Serve("choose") /\ UNCHANGED <<developer, skipped, Kill!dialog, Kill!threads,
                                          Kill!target, Kill!history>>
  BY DEF Kill!Choose
<1>3. /\ items' \in Seq(Items) /\ ~closed /\ s \in 1..session /\ s \in Kill!Session
      /\ \A i \in 1..Len(items') : \E k \in 1..Len(items) : items'[i] = items[k]
  <2>1. /\ items' \in Seq(Items) /\ 1 \in 1..Len(items) /\ Head(items) = items[1] /\ ~closed
        /\ \A i \in 1..Len(items') : \E k \in 1..Len(items) : items'[i] = items[k]
    BY <1>1, <1>2, ServeLeaves
  <2>2. s <= session /\ s \in Kill!Session
    BY <1>1, <2>1, ItemsOf DEF Served
  <2> QED BY <1>1, <2>1, <2>2 DEF DialogTypes
<1>4. s \notin done => s = ctx /\ ctx # 0 /\ ctx = session /\ prompt = 0
  BY <1>1, <1>3 DEF Over, DialogTypes, Aimed
<1> HIDE DEF s
<1> USE <1>2 DEF Kill!dialog, Kill!threads, Kill!target, Kill!history
<1>5. CASE s \in done /\ UNCHANGED <<Kill!chooser, Kill!results>>
  <2> USE <1>5 DEF Kill!chooser, Kill!results
  <2>1. DialogTypes' /\ Over'
    BY <1>1, <1>3 DEF DialogTypes, Over
  <2>2. Served' /\ Aimed'
    BY <1>1, <1>3 DEF Served, Aimed, Picked, Kill!Inner
  <2>3. Kill!SessionInv'
    BY <1>1 DEF Kill!SessionInv, Kill!Restored, Kill!NoOrphan, Kill!Inner
  <2> QED BY <2>1, <2>2, <2>3 DEF SessionBooks
<1>6. CASE s \notin done /\ Kill!Open(s) /\ UNCHANGED Kill!results
  <2> USE <1>6 DEF Kill!Open, Kill!results
  <2>1. DialogTypes' /\ Over'
    BY <1>1, <1>3 DEF DialogTypes, Over
  <2>2. Served'
    BY <1>1, <1>3 DEF Served, Over
  <2>3. Aimed'
    BY <1>1, <1>3 DEF Aimed, Picked
  <2>4. Kill!SessionInv'
    BY <1>1, <1>3, <1>4 DEF Kill!SessionInv, Kill!Restored, Kill!NoOrphan
  <2> QED BY <2>1, <2>2, <2>3, <2>4 DEF SessionBooks
<1>7. CASE /\ s \notin done /\ done' = done \cup {s} /\ held' = [held EXCEPT ![s] = Error]
           /\ UNCHANGED Kill!chooser
  <2> USE <1>7 DEF Kill!chooser
  <2>1. /\ held' \in [Kill!Session -> Held] /\ held'[s] = Error
        /\ \A r \in Kill!Session \ {s} : held'[r] = held[r]
    BY <1>1, <1>3 DEF DialogTypes, Held
  <2>2. DialogTypes'
    BY <1>1, <1>3, <2>1 DEF DialogTypes
  <2>3. Over'
    BY <1>1, <1>3, <2>1 DEF Over
  <2>4. Served'
    <3>1. \A r \in nested : held'[r] \notin Window
      BY <1>1, <2>1 DEF Served, DialogTypes
    <3> QED BY <1>1, <1>3, <3>1 DEF Served
  <2>5. Aimed'
    BY <1>1, <1>3, <1>4, <2>1 DEF Aimed, Picked, Kill!Inner
  <2>6. Kill!SessionInv'
    BY <1>1 DEF Kill!SessionInv, Kill!Restored, Kill!NoOrphan, Kill!Inner
  <2> QED BY <2>2, <2>3, <2>4, <2>5, <2>6 DEF SessionBooks
<1> QED BY <1>5, <1>6, <1>7 DEF Kill!Choose, s

\* A click, the overlay that comes up, and its end on a click or on none.
LEMMA ClickOverlayKeeps ==
  ASSUME SessionBooks,
         \/ Kill!Shows
         \/ \E w \in Window : Kill!Click(w)
         \/ \E w \in Window \cup {Nobody} : Kill!Closes(w)
  PROVE  SessionBooks'
<1> USE SessionFacts DEF Kill!dialog, Kill!threads, Kill!results, Kill!target, Kill!history
<1>1. DialogTypes /\ Over /\ Served /\ Aimed /\ Kill!SessionInv
  BY DEF SessionBooks
<1>2. /\ UNCHANGED <<developer, skipped, Kill!dialog, Kill!threads, Kill!results, items,
                     Kill!target, Kill!history, asks, nested>>
      /\ hits' \in [Kill!Session -> SUBSET Window] /\ picked' \in Window \cup {Nobody}
      /\ \A r \in Kill!Session : hits[r] \subseteq hits'[r]
      /\ closed => closed'
  BY <1>1 DEF Kill!Shows, Kill!Show, Kill!Click, Kill!ClickOn, Kill!Closes, Kill!CloseOn, DialogTypes
<1>3. DialogTypes' /\ Over' /\ Served'
  BY <1>1, <1>2 DEF DialogTypes, Over, Served
<1>4. Picked'
  <2>1. nested \subseteq Kill!Session
    BY <1>1 DEF DialogTypes
  <2>2. CASE Kill!Shows \/ \E w \in Window : Kill!Click(w)
    <3>1. UNCHANGED <<closed, picked>>
      BY <2>2 DEF Kill!Shows, Kill!Show, Kill!Click, Kill!ClickOn
    <3> QED BY <1>1, <1>2, <2>1, <3>1 DEF Aimed, Picked, Kill!Inner
  <2>3. CASE \E w \in Window \cup {Nobody} : Kill!Closes(w)
    <3>1. PICK w \in Window \cup {Nobody} : Kill!CloseOn(w)
      BY <2>3 DEF Kill!Closes
    <3>2. PICK c \in awaiting : Kill!Inner(c) /\ w \in hits[c] \cup {Nobody}
      BY <3>1 DEF Kill!CloseOn
    <3>3. \A r \in nested : Kill!Inner(r) => r = c
      BY <1>1, <3>2 DEF Kill!Inner, DialogTypes
    <3> QED BY <3>1, <3>2, <3>3 DEF Kill!CloseOn, Picked, Kill!Inner
  <2> QED BY <2>2, <2>3
<1>5. Aimed'
  <2>1. session # 0 => session \in Kill!Session
    BY <1>1 DEF DialogTypes
  <2> QED BY <1>1, <1>2, <1>4, <2>1 DEF Aimed
<1>6. Kill!SessionInv'
  BY <1>1, <1>2 DEF Kill!SessionInv, Kill!Restored, Kill!NoOrphan, Kill!Inner
<1> QED BY <1>3, <1>5, <1>6 DEF SessionBooks

LEMMA ReturnsKeeps == SessionBooks /\ Kill!Returns => SessionBooks'
<1> SUFFICES ASSUME SessionBooks, Kill!Returns PROVE SessionBooks'
  OBVIOUS
<1> USE SessionFacts
        DEF Kill!Returns, Kill!Return, Kill!dialog, Kill!threads, Kill!target
<1>1. DialogTypes /\ Over /\ Served /\ Aimed /\ Kill!SessionInv
  BY DEF SessionBooks
<1>2. PICK s \in nested : /\ Kill!Inner(s) /\ held' = [held EXCEPT ![s] = picked]
                          /\ done' = done \cup {s} /\ missed' = missed \ {s}
  OBVIOUS
<1>3. nested' = nested \ {s}
  BY <1>1, <1>2 DEF Kill!Inner, DialogTypes
<1>4. s \in 1..session /\ s \in Kill!Session /\ closed /\ picked' = Nobody
  BY <1>1 DEF DialogTypes
<1>5. /\ held' \in [Kill!Session -> Held] /\ held'[s] = picked
      /\ \A r \in Kill!Session \ {s} : held'[r] = held[r]
  BY <1>1, <1>2, <1>4 DEF DialogTypes, Held
<1>6. /\ hits' \in [Kill!Session -> SUBSET Window]
      /\ session # 0 => hits'[session] = hits[session]
  BY <1>1 DEF DialogTypes, Kill!ClickedFor
<1>7. DialogTypes'
  BY <1>1, <1>2, <1>3, <1>4, <1>5, <1>6 DEF DialogTypes
<1>8. Over' /\ Served'
  BY <1>1, <1>2, <1>3, <1>5 DEF Over, Served, DialogTypes
<1>9. Aimed'
  <2>1. Picked'
    BY <1>4 DEF Picked
  <2>2. session # 0 /\ held'[session] \in Window => held'[session] \in hits'[session]
    BY <1>1, <1>2, <1>4, <1>5, <1>6 DEF Aimed, Picked, DialogTypes
  <2>3. ASSUME NEW i \in 1..Len(items), items[i].kind = "end", items[i].of = ctx,
               items[i].res \in Window
        PROVE  ctx \in done' /\ held'[ctx] = items[i].res
    <3>1. ctx \in done /\ held[ctx] = items[i].res /\ ctx \in Kill!Session
      BY <1>1, <2>3, ItemsOf DEF Aimed
    <3>2. ctx # s
      BY <1>1, <2>3, <3>1 DEF Served
    <3> QED BY <1>2, <1>5, <3>1, <3>2
  <2>4. prompt # 0 => held'[prompt] = held[prompt]
    <3>1. prompt # 0 => prompt \in Kill!Session /\ prompt # s
      BY <1>1 DEF Aimed, Served, DialogTypes
    <3> QED BY <1>5, <3>1
  <2> QED BY <1>1, <2>1, <2>2, <2>3, <2>4 DEF Aimed
<1>10. Kill!SessionInv'
  <2>1. Kill!NoOrphan'
    BY <1>1, <1>2, <1>3 DEF Kill!SessionInv, Kill!NoOrphan, Kill!Inner, DialogTypes
  <2> QED BY <1>1, <2>1 DEF Kill!SessionInv, Kill!Restored
<1> QED BY <1>7, <1>8, <1>9, <1>10 DEF SessionBooks

LEMMA PostEndKeeps == ASSUME SessionBooks, NEW s \in Kill!Session, Kill!PostEnd(s) PROVE SessionBooks'
<1> USE SessionFacts
        DEF Kill!PostEnd, Kill!chooser, Kill!dialog, Kill!results, Kill!target, Kill!history
<1>1. DialogTypes /\ Over /\ Served /\ Aimed /\ Kill!SessionInv
  BY DEF SessionBooks
<1>2. /\ runner' \in [Kill!Session -> Runs] /\ s \in done /\ s \in 1..session
      /\ \A r \in Kill!Session \ {s} : runner'[r] = runner[r]
  BY <1>1 DEF DialogTypes, Runs
<1>3. /\ items' \in Seq(Items)
      /\ \A i \in 1..Len(items') :
           /\ items'[i].of <= session'
           /\ items'[i].kind = "end" /\ items'[i].of = ctx' /\ items'[i].res \in Window =>
                ctx' \in done' /\ held'[ctx'] = items'[i].res
  <2>1. CASE thread = 0
    BY <1>1, <2>1 DEF Served, Aimed, DialogTypes
  <2>2. CASE thread # 0
    <3>1. held[s] \in Held \cup {Timeout}
      BY <1>1 DEF DialogTypes
    <3> QED BY <1>1, <1>2, <2>2, <3>1, PostsOne
  <2> QED BY <2>1, <2>2
<1>4. DialogTypes'
  BY <1>1, <1>2, <1>3 DEF DialogTypes
<1>5. Over'
  BY <1>1, <1>2 DEF Over, DialogTypes
<1>6. Served' /\ Aimed'
  BY <1>1, <1>3 DEF Served, Aimed, Picked, Kill!Inner
<1>7. Kill!SessionInv'
  BY <1>1 DEF Kill!SessionInv, Kill!Restored, Kill!NoOrphan, Kill!Inner
<1> QED BY <1>4, <1>5, <1>6, <1>7 DEF SessionBooks

\* What a close() by the dialog leaves of choose(): the innermost call is about to
\* return, or the close was lost on it.
LEMMA CloseOverlayDoes ==
  ASSUME SessionBooks, Kill!CloseOverlay
  PROVE  /\ UNCHANGED <<asks, nested, hits>> /\ picked' \in Window \cup {Nobody} /\ Picked'
         /\ (closed => closed') /\ \A s \in missed : s \in missed'
         /\ \A s \in nested : Kill!Inner(s) => closed' \/ s \in missed'
<1>1. CASE closed /\ UNCHANGED <<Kill!chooser, missed>>
  BY <1>1 DEF Kill!chooser, SessionBooks, DialogTypes, Aimed, Picked, Kill!Inner
<1>2. CASE Kill!CloseOn(Nobody) /\ UNCHANGED missed
  BY <1>2, SessionFacts DEF Kill!CloseOn, Picked
<1>3. CASE ~closed /\ missed' = missed \cup {s \in nested : Kill!Inner(s)} /\ UNCHANGED Kill!chooser
  BY <1>3 DEF Kill!chooser, SessionBooks, DialogTypes, Picked
<1> QED BY <1>1, <1>2, <1>3 DEF Kill!CloseOverlay

\* _cleanup_overlay() of the session under way.
LEMMA CleanupDoes ==
  ASSUME SessionBooks, ctx # 0, Kill!Cleanup(ctx)
  PROVE  /\ ctx' = 0 /\ done' = done \cup {ctx} /\ Kill!SessionInv'
         /\ ctx \in 1..session /\ ctx = session /\ prompt = 0
         /\ visible' \in BOOLEAN /\ poller' \in [Kill!Session -> Polls]
         /\ \A s \in Kill!Session : s > session => poller'[s] = "unborn"
         /\ UNCHANGED <<held, runner, paused, session, asks, nested, hits>>
         /\ picked' \in Window \cup {Nobody} /\ Picked'
<1> USE SessionFacts
<1>1. DialogTypes /\ Over /\ Served /\ Aimed /\ Kill!SessionInv
  BY DEF SessionBooks
<1>2. ctx \in 1..session /\ ctx = session /\ prompt = 0
  BY <1>1 DEF DialogTypes, Aimed
<1>3. /\ ctx' = 0 /\ done' = done \cup {ctx} /\ visible' = TRUE /\ watching' = ~paused
      /\ UNCHANGED <<held, runner, paused, session>> /\ Kill!CloseOverlay
  BY DEF Kill!Cleanup
<1>4. /\ poller' \in [Kill!Session -> Polls]
      /\ \A s \in Kill!Session : s > session => poller'[s] = "unborn"
  BY <1>1, <1>2 DEF Kill!Cleanup, DialogTypes, Over, Polls
<1>5. /\ UNCHANGED <<asks, nested, hits>> /\ picked' \in Window \cup {Nobody} /\ Picked'
      /\ (closed => closed') /\ \A s \in missed : s \in missed'
      /\ \A s \in nested : Kill!Inner(s) => closed' \/ s \in missed'
  BY <1>3, CloseOverlayDoes
<1>6. Kill!Restored'
  BY <1>3 DEF Kill!Restored
<1>7. Kill!NoOrphan'
  <2> SUFFICES ASSUME NEW s \in nested PROVE s \in missed' \/ (closed' /\ Kill!Inner(s))
    BY <1>5 DEF Kill!NoOrphan, Kill!Inner
  <2>1. CASE s = ctx
    <3>1. Kill!Inner(s)
      BY <1>1, <1>2, <2>1 DEF Kill!Inner, DialogTypes
    <3> QED BY <1>5, <3>1
  <2>2. CASE s # ctx
    BY <1>1, <1>5, <2>2 DEF Kill!SessionInv, Kill!NoOrphan
  <2> QED BY <2>1, <2>2
<1> QED BY <1>2, <1>3, <1>4, <1>5, <1>6, <1>7 DEF Kill!SessionInv

\* ... and what it leaves when it gives up.
LEMMA RaisesLeaves ==
  ASSUME SessionBooks, ctx # 0, Kill!CleanupRaises(ctx)
  PROVE  /\ done' = done \cup {ctx} /\ ctx \in 1..session
         /\ UNCHANGED <<asks, nested, closed, hits, picked, missed, held, runner, poller, paused,
                        visible, watching, session, ctx>>
BY DEF Kill!CleanupRaises, Kill!chooser, SessionBooks, DialogTypes

LEMMA EndKeeps == SessionBooks /\ Kill!End => SessionBooks'
<1> SUFFICES ASSUME SessionBooks, Kill!End PROVE SessionBooks'
  OBVIOUS
<1> USE SessionFacts
<1>1. DialogTypes /\ Over /\ Served /\ Aimed /\ Kill!SessionInv
  BY DEF SessionBooks
<1> DEFINE item == Head(items)
<1>2. Kill!Serve("end") /\ UNCHANGED <<developer, skipped, process, joining, cancelled>>
  BY DEF Kill!End
<1>3. /\ items' \in Seq(Items) /\ 1 \in 1..Len(items) /\ item = items[1] /\ item.kind = "end"
      /\ ~closed /\ ~joining
      /\ \A i \in 1..Len(items') : \E k \in 1..Len(items) : items'[i] = items[k]
  BY <1>1, <1>2, ServeLeaves
<1>4. item.of \in Kill!Session /\ item.of # 0 /\ \A i \in 1..Len(items') : items'[i].of # 0
  BY <1>1, <1>3, ItemsOf
<1>5. item.of = ctx /\ item.res \in Window => held[ctx] = item.res
  BY <1>1, <1>3 DEF Aimed
<1>6. \/ item.of # ctx /\ UNCHANGED <<Kill!chooser, Kill!dialog, Kill!threads, Kill!results, missed>>
      \/ item.of = ctx /\ Kill!CleanupRaises(ctx) /\ UNCHANGED prompt
      \/ /\ item.of = ctx /\ Kill!Cleanup(ctx)
         /\ prompt' = prompt \/ (prompt' = ctx /\ item.res \in Window /\ ~skipped)
  BY DEF Kill!End
<1> HIDE DEF item
<1>7. CASE item.of # ctx /\ UNCHANGED <<Kill!chooser, Kill!dialog, Kill!threads, Kill!results, missed>>
  <2> USE <1>2, <1>7 DEF Kill!chooser, Kill!dialog, Kill!threads, Kill!results
  <2>1. DialogTypes' /\ Over'
    BY <1>1, <1>3 DEF DialogTypes, Over
  <2>2. Served' /\ Aimed'
    BY <1>1, <1>3 DEF Served, Aimed, Picked, Kill!Inner
  <2>3. Kill!SessionInv'
    BY <1>1 DEF Kill!SessionInv, Kill!Restored, Kill!NoOrphan, Kill!Inner
  <2> QED BY <2>1, <2>2, <2>3 DEF SessionBooks
<1>8. CASE item.of = ctx /\ Kill!CleanupRaises(ctx) /\ UNCHANGED prompt
  <2>1. /\ done' = done \cup {ctx} /\ ctx \in 1..session
        /\ UNCHANGED <<asks, nested, closed, hits, picked, missed, held, runner, poller, paused,
                       visible, watching, session, ctx>>
    BY <1>4, <1>8, RaisesLeaves
  <2>2. DialogTypes' /\ Over'
    BY <1>1, <1>2, <1>3, <1>8, <2>1 DEF DialogTypes, Over
  <2>3. Served' /\ Aimed'
    BY <1>1, <1>2, <1>3, <1>8, <2>1 DEF Served, Aimed, Picked, Kill!Inner
  <2>4. Kill!SessionInv'
    BY <1>1, <2>1 DEF Kill!SessionInv, Kill!Restored, Kill!NoOrphan, Kill!Inner
  <2> QED BY <2>2, <2>3, <2>4 DEF SessionBooks
<1>9. CASE /\ item.of = ctx /\ Kill!Cleanup(ctx)
           /\ prompt' = prompt \/ (prompt' = ctx /\ item.res \in Window /\ ~skipped)
  <2>1. /\ ctx' = 0 /\ done' = done \cup {ctx} /\ Kill!SessionInv'
        /\ ctx \in 1..session /\ ctx = session /\ prompt = 0
        /\ visible' \in BOOLEAN /\ poller' \in [Kill!Session -> Polls]
        /\ \A s \in Kill!Session : s > session => poller'[s] = "unborn"
        /\ UNCHANGED <<held, runner, paused, session, asks, nested, hits>>
        /\ picked' \in Window \cup {Nobody} /\ Picked'
    BY <1>4, <1>9, CleanupDoes
  <2>2. DialogTypes'
    BY <1>1, <1>2, <1>3, <1>9, <2>1 DEF DialogTypes
  <2>3. Over' /\ Served'
    BY <1>1, <1>2, <1>3, <2>1 DEF Over, Served
  <2>4. prompt' # 0 => ~skipped' /\ prompt' # cancelled' /\ held'[prompt'] \in Window
    BY <1>1, <1>2, <1>4, <1>5, <1>9, <2>1 DEF Over
  <2>5. Aimed'
    BY <1>1, <1>4, <2>1, <2>4 DEF Aimed
  <2> QED BY <2>1, <2>2, <2>3, <2>5 DEF SessionBooks
<1> QED BY <1>6, <1>7, <1>8, <1>9

LEMMA CancelKeeps == SessionBooks /\ Kill!Cancel => SessionBooks'
<1> SUFFICES ASSUME SessionBooks, Kill!Cancel PROVE SessionBooks'
  OBVIOUS
<1> USE SessionFacts DEF Kill!Cancel, Kill!threads, Kill!target
<1>1. DialogTypes /\ Over /\ Served /\ Aimed /\ Kill!SessionInv
  BY DEF SessionBooks
<1>2. /\ UNCHANGED <<asks, nested, hits>> /\ picked' \in Window \cup {Nobody} /\ Picked'
      /\ (closed => closed') /\ \A s \in missed : s \in missed'
  <2>1. CASE Kill!CloseOverlay
    BY <2>1, CloseOverlayDoes
  <2>2. CASE UNCHANGED <<Kill!chooser, missed>>
    BY <1>1, <2>2 DEF Kill!chooser, DialogTypes, Aimed, Picked, Kill!Inner
  <2> QED BY <2>1, <2>2
<1>3. ctx \in 1..session /\ done' = done \cup {ctx}
  BY <1>1 DEF DialogTypes
<1>4. DialogTypes' /\ Over' /\ Served'
  BY <1>1, <1>2, <1>3 DEF DialogTypes, Over, Served
<1>5. Aimed'
  BY <1>1, <1>2, <1>3 DEF Aimed
<1>6. Kill!SessionInv'
  BY <1>1, <1>2 DEF Kill!SessionInv, Kill!Restored, Kill!NoOrphan, Kill!Inner
<1> QED BY <1>4, <1>5, <1>6 DEF SessionBooks

LEMMA CancelledKeeps == SessionBooks /\ Kill!Cancelled => SessionBooks'
<1> SUFFICES ASSUME SessionBooks, Kill!Cancelled PROVE SessionBooks'
  OBVIOUS
<1> USE SessionFacts DEF Kill!Cancelled, Kill!target
<1>1. DialogTypes /\ Over /\ Served /\ Aimed /\ Kill!SessionInv
  BY DEF SessionBooks
<1>2. ctx # 0 /\ joining' = FALSE
  BY <1>1 DEF Over
<1>3. CASE Kill!Cleanup(ctx) /\ cancelled' = ctx
  <2>1. /\ ctx' = 0 /\ done' = done \cup {ctx} /\ Kill!SessionInv'
        /\ ctx \in 1..session /\ ctx = session /\ prompt = 0
        /\ visible' \in BOOLEAN /\ poller' \in [Kill!Session -> Polls]
        /\ \A s \in Kill!Session : s > session => poller'[s] = "unborn"
        /\ UNCHANGED <<held, runner, paused, session, asks, nested, hits>>
        /\ picked' \in Window \cup {Nobody} /\ Picked'
    BY <1>2, <1>3, CleanupDoes
  <2>2. DialogTypes'
    BY <1>1, <1>3, <2>1 DEF DialogTypes
  <2>3. Over' /\ Served'
    BY <1>1, <1>2, <2>1 DEF Over, Served
  <2>4. \A i \in 1..Len(items) : items[i].of # 0
    BY <1>1, ItemsOf
  <2>5. Aimed'
    BY <1>1, <2>1, <2>4 DEF Aimed
  <2> QED BY <2>1, <2>2, <2>3, <2>5 DEF SessionBooks
<1>4. CASE Kill!CleanupRaises(ctx) /\ UNCHANGED cancelled
  <2>1. /\ done' = done \cup {ctx} /\ ctx \in 1..session
        /\ UNCHANGED <<asks, nested, closed, hits, picked, missed, held, runner, poller, paused,
                       visible, watching, session, ctx>>
    BY <1>2, <1>4, RaisesLeaves
  <2>2. DialogTypes' /\ Over' /\ Served'
    BY <1>1, <1>2, <1>4, <2>1 DEF DialogTypes, Over, Served
  <2>3. Aimed'
    BY <1>1, <1>4, <2>1 DEF Aimed, Picked, Kill!Inner
  <2>4. Kill!SessionInv'
    BY <1>1, <2>1 DEF Kill!SessionInv, Kill!Restored, Kill!NoOrphan, Kill!Inner
  <2> QED BY <2>2, <2>3, <2>4 DEF SessionBooks
<1> QED BY <1>3, <1>4

LEMMA OthersKeep ==
  ASSUME SessionBooks,
         \/ \E yes \in BOOLEAN : Kill!Confirm(yes)
         \/ \E w \in Window : Kill!Reuse(w)
         \/ UNCHANGED Kill!dialogVars
  PROVE  SessionBooks'
<1> USE SessionFacts
        DEF Kill!Confirm, Kill!Reuse, Kill!dialogVars, Kill!chooser, Kill!dialog, Kill!threads,
            Kill!results, Kill!target, Kill!history
<1>1. DialogTypes /\ Over /\ Served /\ Aimed /\ Kill!SessionInv
  BY DEF SessionBooks
<1>2. DialogTypes'
  BY <1>1 DEF DialogTypes
<1>3. Over' /\ Served'
  BY <1>1 DEF Over, Served
<1>4. Aimed'
  BY <1>1 DEF Aimed, Picked, Kill!Inner
<1>5. Kill!SessionInv'
  BY <1>1 DEF Kill!SessionInv, Kill!Restored, Kill!NoOrphan, Kill!Inner
<1> QED BY <1>2, <1>3, <1>4, <1>5 DEF SessionBooks

LEMMA PollerKeeps ==
  ASSUME SessionBooks, NEW s \in Kill!Session,
         Kill!Report(s) \/ Kill!PollerCloses(s) \/ Kill!PollerEnds(s)
  PROVE  SessionBooks'
<1> USE SessionFacts
<1>1. DialogTypes /\ Over /\ Served /\ Aimed /\ Kill!SessionInv
  BY DEF SessionBooks
<1>2. /\ poller' \in [Kill!Session -> Polls] /\ s \in 1..session
      /\ \A r \in Kill!Session : r > session => poller'[r] = "unborn"
  BY <1>1 DEF Kill!Report, Kill!PollerCloses, Kill!PollerEnds, DialogTypes, Over, Polls
<1>3. UNCHANGED <<developer, skipped, visible, paused, watching, session, ctx, prompt, joining,
                  done, held, cancelled, runner>>
  BY DEF Kill!Report, Kill!PollerCloses, Kill!PollerEnds, Kill!dialog, Kill!results, Kill!target,
         Kill!history
<1>4. /\ UNCHANGED <<asks, nested, hits>> /\ picked' \in Window \cup {Nobody} /\ Picked'
      /\ (closed => closed') /\ \A r \in missed : r \in missed'
  <2>1. CASE Kill!PollerCloses(s)
    BY <2>1, CloseOverlayDoes DEF Kill!PollerCloses
  <2>2. CASE Kill!Report(s) \/ Kill!PollerEnds(s)
    <3>1. UNCHANGED <<asks, nested, hits, closed, picked, missed>>
      BY <2>2 DEF Kill!Report, Kill!PollerEnds, Kill!chooser, Kill!history
    <3> QED BY <1>1, <3>1 DEF DialogTypes, Aimed, Picked, Kill!Inner
  <2> QED BY <2>1, <2>2
<1>5. /\ items' \in Seq(Items)
      /\ \A i \in 1..Len(items') :
           /\ items'[i].of <= session'
           /\ items'[i].kind = "end" /\ items'[i].of = ctx' /\ items'[i].res \in Window =>
                ctx' \in done' /\ held'[ctx'] = items'[i].res
  <2>1. CASE Kill!Report(s) \/ Kill!PollerCloses(s)
    <3>1. items' = items
      BY <2>1 DEF Kill!Report, Kill!PollerCloses
    <3> QED BY <1>1, <1>3, <3>1 DEF Served, Aimed, DialogTypes
  <2>2. CASE Kill!PollerEnds(s)
    <3>1. items' = Append(items, Kill!Item("end", s, Timeout))
      BY <2>2 DEF Kill!PollerEnds
    <3> QED BY <1>1, <1>2, <1>3, <3>1, PostsOne
  <2> QED BY <2>1, <2>2
<1>6. DialogTypes'
  BY <1>1, <1>2, <1>3, <1>4, <1>5 DEF DialogTypes
<1>7. Over' /\ Served'
  BY <1>1, <1>2, <1>3, <1>4, <1>5 DEF Over, Served
<1>8. Aimed'
  BY <1>1, <1>3, <1>4, <1>5 DEF Aimed
<1>9. Kill!SessionInv'
  BY <1>1, <1>3, <1>4 DEF Kill!SessionInv, Kill!Restored, Kill!NoOrphan, Kill!Inner
<1> QED BY <1>6, <1>7, <1>8, <1>9 DEF SessionBooks

LEMMA SessionGoes ==
  SessionBooks /\ [Kill!DialogNext]_(Kill!dialogVars) => SessionBooks'
BY TogglePauseKeeps, StartKeeps, PostChooseKeeps, ChooseKeeps, ClickOverlayKeeps, ReturnsKeeps,
   PostEndKeeps, EndKeeps, CancelKeeps, CancelledKeeps, OthersKeep, PollerKeeps
DEF Kill!DialogNext, Kill!Tk, Kill!Thread, Kill!Poller

\* Only two steps kill: the end of a session, and the answer to its prompt.
KillsRight ==
  killed' # killed =>
    /\ killed'.of = session /\ session # cancelled /\ killed'.win \in hits[session]
    /\ skipped => read[session] \in {Kill!Unread, killed'.proc}

LEMMA AimedStep ==
  SessionBooks /\ [Kill!DialogNext]_(Kill!dialogVars) => KillsRight
<1> SUFFICES ASSUME SessionBooks, [Kill!DialogNext]_(Kill!dialogVars), killed' # killed
             PROVE  /\ killed'.of = session /\ session # cancelled /\ killed'.win \in hits[session]
                    /\ skipped => read[session] \in {Kill!Unread, killed'.proc}
  BY DEF KillsRight
<1> USE SessionFacts
<1>1. DialogTypes /\ Over /\ Served /\ Aimed /\ Kill!SessionInv
  BY DEF SessionBooks
<1>2. Kill!End \/ \E yes \in BOOLEAN : Kill!Confirm(yes)
  BY DEF Kill!DialogNext, Kill!Tk, Kill!Thread, Kill!Poller, Kill!TogglePause, Kill!Start, Kill!Shows,
         Kill!Choose, Kill!Returns, Kill!Cancel, Kill!Cancelled, Kill!Click, Kill!Reuse, Kill!Closes,
         Kill!PostChoose, Kill!PostEnd, Kill!Report, Kill!PollerCloses, Kill!PollerEnds,
         Kill!target, Kill!dialogVars
<1>3. CASE Kill!End
  <2>1. PICK item \in Items : item = Head(items) /\ item = items[1] /\ 1 \in 1..Len(items)
                              /\ item.kind = "end"
    BY <1>1, <1>3, ServeLeaves DEF Kill!End
  <2>2. /\ item.of = ctx /\ item.res \in Window /\ read[item.of] \in {Kill!Unread, process[item.res]}
        /\ killed' = [of |-> item.of, win |-> item.res, proc |-> process[item.res]]
    BY <1>3, <2>1 DEF Kill!End, Kill!Kill
  <2>3. ctx = session /\ ctx # 0 /\ held[ctx] = item.res
    BY <1>1, <2>1, <2>2, ItemIs DEF DialogTypes, Aimed
  <2> QED BY <1>1, <2>2, <2>3 DEF Over, Aimed
<1>4. CASE \E yes \in BOOLEAN : Kill!Confirm(yes)
  <2>1. /\ prompt # 0
        /\ killed' = [of |-> prompt, win |-> held[prompt], proc |-> process[held[prompt]]]
    BY <1>4 DEF Kill!Confirm, Kill!Kill
  <2>2. prompt = session /\ prompt # cancelled /\ ~skipped /\ held[prompt] \in hits[session]
    BY <1>1, <2>1 DEF DialogTypes, Aimed
  <2> QED BY <2>1, <2>2
<1> QED BY <1>2, <1>3, <1>4
-----------------------------------------------------------------------------
(* The process watcher and its list. *)

\* What the watcher holds in its hand is on the way from its snapshot, and a
\* refresh under way has room to schedule the next.
OnTheWay ==
  /\ step \in {"top", "sampling", "waiting", "ended"} => hand = Watch!Nothing
  /\ \A p \in Pid : hand.updates[p] \in {0, snapshot[p]} \/ p \in hand.removed
  /\ refresh # "idle" => scheduled < MaxRefreshes

WatcherBooks == Watch!WatcherTypeOK /\ Watch!DeltasAddUp /\ OnTheWay

LEMMA WatcherFacts ==
  /\ Pid \subseteq Nat /\ Sizes \subseteq Nat \ {0} /\ MaxBirths \in Nat
  /\ MaxRefreshes \in Nat \ {0}
BY DesktopAssumption DEF Watch!WatcherAssumption

LEMMA NothingIsItem ==
  /\ Watch!Nothing \in Watch!Items /\ Watch!Nothing.removed = {}
  /\ \A p \in Pid : Watch!Nothing.updates[p] = 0
BY DEF Watch!Nothing, Watch!Items, Watch!Entry

LEMMA QueueHolds ==
  ASSUME NEW q \in [1..1 -> Watch!Items]
  PROVE  q # <<>> /\ Head(q) \in Watch!Items /\ Head(q) = q[1]
<1>1. q \in Seq(Watch!Items)
  <2>1. 1 \in Nat /\ Seq(Watch!Items) = UNION {[1..n -> Watch!Items] : n \in Nat}
    BY SeqDef
  <2> QED BY <2>1
<1>2. Len(q) = 1
  <2>1. DOMAIN q = 1..1
    OBVIOUS
  <2>2. DOMAIN q = 1..Len(q) /\ Len(q) \in Nat
    BY <1>1, LenProperties
  <2> QED BY <2>1, <2>2
<1> QED BY <1>1, <1>2

LEMMA QueueOf ==
  ASSUME NEW x \in Watch!Items
  PROVE  <<x>> \in [1..1 -> Watch!Items] /\ <<x>> # <<>> /\ Head(<<x>>) = x
OBVIOUS

\* The type invariant in two halves: what is true or false, and the rest.
Said ==
  pauseEvent \in BOOLEAN /\ stopEvent \in BOOLEAN /\ present \in BOOLEAN /\ suspended \in BOOLEAN
Sampled ==
  /\ running \subseteq Pid /\ young \subseteq running /\ births \in 0..MaxBirths
  /\ snapshot \in [Pid -> Nat] /\ made \in [Pid -> Nat]
  /\ listing \in {"none", "due", "open"} /\ left \subseteq Pid /\ newPids \subseteq Pid
  /\ size \in Sizes /\ hand \in Watch!Items
  /\ step \in {"top", "sampling", "putting", "displacing", "pruning", "waiting", "ended"}
  /\ queue = <<>> \/ queue \in [1..1 -> Watch!Items]
  /\ shown \in [Pid -> Nat] /\ refresh \in {"starting", "idle", "draining", "getting"}
  /\ scheduled \in 0..MaxRefreshes /\ lost \subseteq Pid

LEMMA WatcherHalves == Watch!WatcherTypeOK <=> Said /\ Sampled
BY DEF Watch!WatcherTypeOK, Watch!Entry, Said, Sampled

LEMMA AppliedIs ==
  ASSUME NEW s \in [Pid -> Nat], NEW x \in Watch!Items
  PROVE  /\ Watch!Applied(s, x) \in [Pid -> Nat]
         /\ \A p \in Pid : Watch!Applied(s, x)[p] =
              IF p \in x.removed THEN 0 ELSE IF x.updates[p] # 0 THEN x.updates[p] ELSE s[p]
         /\ \A p \in Pid : p \notin Watch!About(x) => Watch!Applied(s, x)[p] = s[p]
BY DEF Watch!Applied, Watch!Items, Watch!Entry, Watch!About

\* What the dialog holds once it has read the queue, and once it has been told
\* what is in hand, too.
Read == IF queue = <<>> THEN shown ELSE Watch!Applied(shown, Head(queue))
Known == IF step \in {"putting", "displacing"} THEN Watch!Applied(Read, hand) ELSE Read

LEMMA Adding ==
  Watch!DeltasAddUp <=>
    \A p \in Pid \ lost : Known[p] = IF p \in hand.removed THEN 0 ELSE snapshot[p]
BY DEF Watch!DeltasAddUp, Known, Read

LEMMA ReadIs == Watch!WatcherTypeOK => Read \in [Pid -> Nat]
BY QueueHolds, AppliedIs DEF Watch!WatcherTypeOK, Read, Watch!Entry

LEMMA WatcherBegins == Watch!WatcherInit => WatcherBooks
<1> SUFFICES ASSUME Watch!WatcherInit PROVE WatcherBooks
  OBVIOUS
<1> USE WatcherFacts, NothingIsItem DEF Watch!WatcherInit
<1>1. Watch!WatcherTypeOK
  <2>1. Said
    BY Zenon DEF Said
  <2>2. Sampled
    BY DEF Sampled
  <2> QED BY <2>1, <2>2, WatcherHalves
<1>2. OnTheWay
  BY DEF OnTheWay
<1>3. Watch!DeltasAddUp
  BY DEF Watch!DeltasAddUp
<1> QED BY <1>1, <1>2, <1>3 DEF WatcherBooks

LEMMA MachineKeeps == WatcherBooks /\ Watch!Machine => WatcherBooks'
<1> SUFFICES ASSUME WatcherBooks, NEW p \in Pid,
                    Watch!Starts(p) \/ Watch!Ages(p) \/ Watch!Exits(p)
             PROVE  WatcherBooks'
  BY DEF Watch!Machine
<1> USE WatcherFacts
        DEF Watch!Starts, Watch!Ages, Watch!Exits, Watch!sampling, Watch!events, Watch!dialog
<1>1. Watch!WatcherTypeOK'
  <2>1. Said'
    BY WatcherHalves DEF WatcherBooks, Said
  <2>2. Sampled'
    BY WatcherHalves DEF WatcherBooks, Sampled
  <2> QED BY <2>1, <2>2 DEF Watch!WatcherTypeOK, Watch!Entry, Said, Sampled
<1>2. OnTheWay' /\ Watch!DeltasAddUp'
  BY DEF WatcherBooks, OnTheWay, Watch!DeltasAddUp
<1> QED BY <1>1, <1>2 DEF WatcherBooks

\* Steps of the thread that pass nothing on
LEMMA RunKeeps ==
  ASSUME WatcherBooks,
         Watch!Loop \/ Watch!Rest \/ Watch!Displace \/ Watch!Wait \/ Watch!Leave
  PROVE  WatcherBooks'
<1> USE WatcherFacts
        DEF Watch!Loop, Watch!Rest, Watch!Displace, Watch!Wait, Watch!Leave, Watch!machine,
            Watch!sampling, Watch!events, Watch!dialog
<1>1. Watch!WatcherTypeOK'
  BY DEF WatcherBooks, Watch!WatcherTypeOK
<1>2. OnTheWay'
  BY DEF WatcherBooks, OnTheWay
<1>3. Watch!DeltasAddUp'
  BY DEF WatcherBooks, Watch!DeltasAddUp
<1> QED BY <1>1, <1>2, <1>3 DEF WatcherBooks

LEMMA SampleKeeps == WatcherBooks /\ Watch!Sample => WatcherBooks'
<1> SUFFICES ASSUME WatcherBooks, Watch!Sample PROVE WatcherBooks'
  OBVIOUS
<1> USE WatcherFacts
<1>1. Watch!WatcherTypeOK /\ Watch!DeltasAddUp /\ OnTheWay
  BY DEF WatcherBooks
<1>2. /\ step = "sampling" /\ hand = Watch!Nothing
      /\ UNCHANGED <<running, young, births, queue, pauseEvent, stopEvent, shown, refresh,
                     scheduled, present, suspended, lost>>
  BY <1>1 DEF Watch!Sample, OnTheWay, Watch!machine, Watch!events, Watch!dialog
<1> DEFINE all == IF listing = "due" THEN running ELSE left
           batch == Watch!Batch(all)
           visited == batch \ young
           ended == Watch!Cardinality(batch) < size
           entries == Watch!Collected(visited)
           gone == Watch!Gone(entries, ended)
<1>3. all \subseteq Pid
  BY <1>1 DEF Watch!WatcherTypeOK
<1>4. batch \subseteq Pid
  <2> HIDE DEF all
  <2> QED BY <1>3 DEF Watch!Batch
<1>5. visited \subseteq Pid
  BY <1>4
<1>6. /\ entries \in [Pid -> Nat]
      /\ \A p \in Pid : IF p \in visited /\ snapshot[p] = 0 THEN entries[p] = made[p] + 1
                       ELSE entries[p] = snapshot[p]
  <2> HIDE DEF visited
  <2>1. \A p \in Pid : (IF p \in visited /\ snapshot[p] = 0 THEN made[p] + 1 ELSE snapshot[p]) \in Nat
    BY <1>1 DEF Watch!WatcherTypeOK, Watch!Entry
  <2> QED BY <2>1 DEF Watch!Collected
<1>7. gone \subseteq Pid
  <2> HIDE DEF entries, ended
  <2> QED BY DEF Watch!Gone, Watch!Listed
<1>8. /\ listing' = IF ended THEN "none" ELSE "open"
      /\ left' = IF ended THEN {} ELSE {p \in all : \A q \in batch : q < p}
      /\ \/ /\ Watch!Raises(visited) /\ step' = "ended"
            /\ UNCHANGED <<snapshot, made, newPids, size, hand>>
         \/ /\ ~Watch!Raises(visited)
            /\ snapshot' = entries /\ newPids' = IF ended THEN {} ELSE newPids
            /\ made' = [p \in Pid |-> IF entries[p] > made[p] THEN entries[p] ELSE made[p]]
            /\ size' \in IF ended THEN Sizes ELSE {size}
            /\ \E told \in Watch!Told(visited) :
                 hand' = [updates |-> [p \in Pid |-> IF p \in told THEN entries[p] ELSE 0],
                          removed |-> gone]
            /\ step' = IF Watch!About(hand') = {} THEN "waiting" ELSE "putting"
  BY Zenon DEF Watch!Sample
<1> HIDE DEF all, batch, visited, ended, entries, gone
<1>11. listing' \in {"none", "due", "open"} /\ left' \subseteq Pid
  BY <1>3, <1>8
<1>12. CASE /\ step' = "ended" /\ UNCHANGED <<snapshot, made, newPids, size, hand>>
  <2>1. Watch!WatcherTypeOK'
    BY <1>1, <1>2, <1>11, <1>12 DEF Watch!WatcherTypeOK
  <2>2. OnTheWay' /\ Watch!DeltasAddUp'
    BY <1>1, <1>2, <1>12 DEF OnTheWay, Watch!DeltasAddUp
  <2> QED BY <2>1, <2>2 DEF WatcherBooks
<1>13. CASE /\ snapshot' = entries /\ newPids' = IF ended THEN {} ELSE newPids
            /\ made' = [p \in Pid |-> IF entries[p] > made[p] THEN entries[p] ELSE made[p]]
            /\ size' \in IF ended THEN Sizes ELSE {size}
            /\ \E told \in Watch!Told(visited) :
                 hand' = [updates |-> [p \in Pid |-> IF p \in told THEN entries[p] ELSE 0],
                          removed |-> gone]
            /\ step' = IF Watch!About(hand') = {} THEN "waiting" ELSE "putting"
  <2>1. PICK told \in SUBSET visited :
          /\ {p \in visited : snapshot[p] = 0} \subseteq told
          /\ hand' = [updates |-> [p \in Pid |-> IF p \in told THEN entries[p] ELSE 0],
                      removed |-> gone]
    BY <1>13 DEF Watch!Told
  <2>2. /\ hand' \in Watch!Items /\ hand'.removed = gone
        /\ \A p \in Pid : hand'.updates[p] = IF p \in told THEN entries[p] ELSE 0
    BY <1>6, <1>7, <2>1 DEF Watch!Items, Watch!Entry
  <2>3. made' \in [Pid -> Nat]
    BY <1>1, <1>6, <1>13 DEF Watch!WatcherTypeOK, Watch!Entry
  <2>4. Watch!WatcherTypeOK'
    BY <1>1, <1>2, <1>6, <1>11, <1>13, <2>2, <2>3 DEF Watch!WatcherTypeOK, Watch!Entry
  <2>5. \A p \in Pid : p \in told => entries[p] # 0
    BY <1>1, <1>6, <2>1 DEF Watch!WatcherTypeOK, Watch!Entry
  <2>6. \A p \in Pid : p \notin told => entries[p] = snapshot[p]
    BY <1>6, <2>1
  <2>7. step' = "waiting" => gone = {} /\ told = {} /\ hand' = Watch!Nothing
    <3> SUFFICES ASSUME step' = "waiting" PROVE gone = {} /\ told = {} /\ hand' = Watch!Nothing
      OBVIOUS
    <3>1. Watch!About(hand') = {}
      BY <1>13
    <3>2. gone = {} /\ \A p \in Pid : p \notin told
      BY <3>1, <1>7, <2>2, <2>5 DEF Watch!About
    <3>3. told = {}
      BY <3>2, <1>5
    <3>4. [p \in Pid |-> IF p \in told THEN entries[p] ELSE 0] = [p \in Pid |-> 0]
      BY <3>3
    <3> QED BY <2>1, <3>2, <3>3, <3>4 DEF Watch!Nothing
  <2>8. OnTheWay'
    BY <1>1, <1>2, <1>13, <2>2, <2>7 DEF OnTheWay
  <2>9. Read' = Read /\ Read \in [Pid -> Nat]
    BY <1>1, <1>2, ReadIs DEF Read
  <2>10. \A p \in Pid \ lost : Read[p] = snapshot[p]
    <3>1. Known = Read
      BY <1>2 DEF Known
    <3> QED BY <1>1, <1>2, <3>1, Adding, NothingIsItem
  <2>11. \A p \in Pid \ lost' : Known'[p] = IF p \in hand'.removed THEN 0 ELSE snapshot'[p]
    <3>1. CASE step' = "putting"
      <4>1. \A p \in Pid : Known'[p] =
              IF p \in hand'.removed THEN 0
              ELSE IF hand'.updates[p] # 0 THEN hand'.updates[p] ELSE Read[p]
        <5>1. PICK x \in Watch!Items : x = hand'
          BY <2>2
        <5>2. PICK s \in [Pid -> Nat] : s = Read /\ s = Read'
          BY <2>9
        <5>3. Known' = Watch!Applied(s, x)
          BY <3>1, <5>1, <5>2 DEF Known
        <5>4. \A p \in Pid : Watch!Applied(s, x)[p] =
                IF p \in x.removed THEN 0 ELSE IF x.updates[p] # 0 THEN x.updates[p] ELSE s[p]
          BY AppliedIs
        <5> QED BY <5>1, <5>2, <5>3, <5>4
      <4> QED BY <1>2, <1>13, <2>2, <2>5, <2>6, <2>10, <4>1
    <3>2. CASE step' = "waiting"
      <4>1. Known' = Read
        BY <2>9, <3>2 DEF Known
      <4> QED BY <1>2, <1>13, <2>2, <2>6, <2>7, <2>10, <3>2, <4>1
    <3> QED BY <1>13, <3>1, <3>2
  <2>12. Watch!DeltasAddUp'
    BY <2>11 DEF Watch!DeltasAddUp, Known, Read
  <2> QED BY <2>4, <2>8, <2>12 DEF WatcherBooks
<1> QED BY <1>8, <1>12, <1>13

LEMMA PutKeeps == WatcherBooks /\ Watch!Put => WatcherBooks'
<1> SUFFICES ASSUME WatcherBooks, Watch!Put PROVE WatcherBooks'
  OBVIOUS
<1> USE WatcherFacts
        DEF Watch!Put, Watch!machine, Watch!sampling, Watch!events, Watch!dialog
<1>1. Watch!WatcherTypeOK /\ Watch!DeltasAddUp /\ OnTheWay
  BY DEF WatcherBooks
<1>2. hand \in Watch!Items /\ shown \in [Pid -> Nat]
  BY <1>1 DEF Watch!WatcherTypeOK, Watch!Entry
<1>3. queue' \in [1..1 -> Watch!Items] /\ queue' # <<>> /\ Head(queue') = hand
  BY <1>2, QueueOf
<1>4. Watch!WatcherTypeOK'
  BY <1>1, <1>3 DEF Watch!WatcherTypeOK
<1>5. OnTheWay'
  BY <1>1 DEF OnTheWay
<1>6. Known = Watch!Applied(shown, hand) /\ Known' = Watch!Applied(shown, hand)
  BY <1>3 DEF Known, Read
<1>7. \A p \in Pid \ lost' : Known'[p] = IF p \in hand.removed THEN 0 ELSE snapshot[p]
  <2> TAKE p \in Pid \ lost'
  <2>1. CASE p \notin lost
    BY <1>1, <1>6, <2>1, Adding
  <2>2. CASE p \in Watch!About(hand)
    BY <1>1, <1>2, <1>6, <2>2, AppliedIs DEF OnTheWay, Watch!About
  <2> QED BY <2>1, <2>2
<1>8. Watch!DeltasAddUp'
  BY <1>7 DEF Watch!DeltasAddUp, Known, Read
<1> QED BY <1>4, <1>5, <1>8 DEF WatcherBooks

LEMMA DropKeeps == WatcherBooks /\ Watch!Drop => WatcherBooks'
<1> SUFFICES ASSUME WatcherBooks, Watch!Drop PROVE WatcherBooks'
  OBVIOUS
<1> USE WatcherFacts
        DEF Watch!Drop, Watch!machine, Watch!sampling, Watch!events, Watch!dialog
<1>1. Watch!WatcherTypeOK /\ Watch!DeltasAddUp /\ OnTheWay
  BY DEF WatcherBooks
<1>2. hand \in Watch!Items /\ shown \in [Pid -> Nat] /\ (queue # <<>> => Head(queue) \in Watch!Items)
  BY <1>1, QueueHolds DEF Watch!WatcherTypeOK, Watch!Entry
<1>3. queue # <<>> => Watch!About(Head(queue)) \subseteq Pid
  BY <1>2 DEF Watch!About, Watch!Items
<1>4. Watch!WatcherTypeOK'
  BY <1>1, <1>3 DEF Watch!WatcherTypeOK
<1>5. OnTheWay'
  BY <1>1 DEF OnTheWay
<1>6. Read' = shown /\ Read \in [Pid -> Nat]
  BY <1>1, ReadIs DEF Read
<1>7. \A p \in Pid \ lost' : Read'[p] = Read[p]
  BY <1>2, <1>6, AppliedIs DEF Read
<1>8. \A p \in Pid \ lost' : Known'[p] = Known[p]
  <2>1. Known = Watch!Applied(Read, hand) /\ Known' = Watch!Applied(Read', hand)
    BY DEF Known
  <2>2. Read' \in [Pid -> Nat]
    BY <1>2, <1>6
  <2>3. PICK x \in Watch!Items : x = hand
    BY <1>2
  <2>4. PICK s \in [Pid -> Nat] : s = Read
    BY <1>6
  <2>5. PICK t \in [Pid -> Nat] : t = Read'
    BY <2>2
  <2>6. Known = Watch!Applied(s, x) /\ Known' = Watch!Applied(t, x)
    BY <2>1, <2>3, <2>4, <2>5
  <2>7. \A p \in Pid \ lost' : t[p] = s[p]
    BY <1>7, <2>4, <2>5
  <2> DEFINE before == Watch!Applied(s, x)
             after == Watch!Applied(t, x)
             said(f, p) == IF p \in x.removed THEN 0
                           ELSE IF x.updates[p] # 0 THEN x.updates[p] ELSE f[p]
  <2>8. \A p \in Pid : before[p] = said(s, p)
    BY AppliedIs
  <2>9. \A p \in Pid : after[p] = said(t, p)
    BY AppliedIs
  <2>10. \A p \in Pid \ lost' : said(s, p) = said(t, p)
    BY <2>7
  <2> HIDE DEF before, after, said
  <2>11. Known = before /\ Known' = after
    BY <2>6 DEF before, after
  <2> QED BY <2>8, <2>9, <2>10, <2>11
<1>9. \A p \in Pid \ lost' : Known'[p] = IF p \in hand.removed THEN 0 ELSE snapshot[p]
  BY <1>1, <1>8, Adding
<1>10. Watch!DeltasAddUp'
  BY <1>9 DEF Watch!DeltasAddUp, Known, Read
<1> QED BY <1>4, <1>5, <1>10 DEF WatcherBooks

LEMMA PruneKeeps == WatcherBooks /\ Watch!Prune => WatcherBooks'
<1> SUFFICES ASSUME WatcherBooks, Watch!Prune PROVE WatcherBooks'
  OBVIOUS
<1> USE WatcherFacts, NothingIsItem
        DEF Watch!Prune, Watch!machine, Watch!events, Watch!dialog
<1>1. Watch!WatcherTypeOK /\ Watch!DeltasAddUp /\ OnTheWay
  BY DEF WatcherBooks
<1>2. /\ snapshot' \in [Pid -> Nat]
      /\ \A p \in Pid : snapshot'[p] = IF p \in hand.removed THEN 0 ELSE snapshot[p]
  BY <1>1 DEF Watch!WatcherTypeOK, Watch!Entry
<1>3. Watch!WatcherTypeOK'
  BY <1>1, <1>2 DEF Watch!WatcherTypeOK, Watch!Entry
<1>4. OnTheWay'
  BY <1>1 DEF OnTheWay
<1>5. Known' = Read /\ Known = Read
  BY DEF Known, Read
<1>6. \A p \in Pid \ lost' : Known'[p] = IF p \in hand'.removed THEN 0 ELSE snapshot'[p]
  BY <1>1, <1>2, <1>5, Adding
<1>7. Watch!DeltasAddUp'
  BY <1>6 DEF Watch!DeltasAddUp, Known, Read
<1> QED BY <1>3, <1>4, <1>7 DEF WatcherBooks

LEMMA GetKeeps == WatcherBooks /\ Watch!Get => WatcherBooks'
<1> SUFFICES ASSUME WatcherBooks, Watch!Get PROVE WatcherBooks'
  OBVIOUS
<1> USE WatcherFacts DEF Watch!Get, Watch!machine, Watch!sampling, Watch!events
<1>1. Watch!WatcherTypeOK /\ Watch!DeltasAddUp /\ OnTheWay
  BY DEF WatcherBooks
<1>2. queue # <<>> => Watch!Applied(shown, Head(queue)) \in [Pid -> Nat]
  BY <1>1, QueueHolds, AppliedIs DEF Watch!WatcherTypeOK, Watch!Entry
<1>3. Watch!WatcherTypeOK'
  BY <1>1, <1>2 DEF Watch!WatcherTypeOK, Watch!Entry
<1>4. OnTheWay'
  BY <1>1 DEF OnTheWay
<1>5. Read' = Read
  BY DEF Read
<1>6. Known' = Known
  BY <1>5 DEF Known
<1>7. \A p \in Pid \ lost' : Known'[p] = IF p \in hand'.removed THEN 0 ELSE snapshot'[p]
  BY <1>1, <1>6, Adding
<1>8. Watch!DeltasAddUp'
  BY <1>7 DEF Watch!DeltasAddUp, Known, Read
<1> QED BY <1>3, <1>4, <1>8 DEF WatcherBooks

LEMMA ListKeeps ==
  ASSUME WatcherBooks,
         \/ Watch!Refresh \/ Watch!Drained \/ Watch!TogglePause \/ Watch!Close
         \/ UNCHANGED Watch!watcherVars
  PROVE  WatcherBooks'
<1> USE WatcherFacts
        DEF Watch!Refresh, Watch!Drained, Watch!TogglePause, Watch!Close, Watch!machine,
            Watch!sampling, Watch!events, Watch!dialog, Watch!watcherVars
<1>1. OnTheWay'
  BY DEF WatcherBooks, OnTheWay, Watch!WatcherTypeOK
<1>2. Watch!WatcherTypeOK'
  <2>0. Said /\ Sampled /\ OnTheWay
    BY WatcherHalves DEF WatcherBooks
  <2>1. Said'
    <3>1. pauseEvent' \in BOOLEAN /\ suspended' \in BOOLEAN
      BY <2>0, Zenon DEF Said
    <3>2. stopEvent' \in BOOLEAN /\ present' \in BOOLEAN
      BY <2>0, Zenon DEF Said
    <3> QED BY <3>1, <3>2 DEF Said
  <2>2. /\ scheduled' \in 0..MaxRefreshes
        /\ refresh' \in {"starting", "idle", "draining", "getting"}
    BY <2>0 DEF Sampled, OnTheWay
  <2>3. UNCHANGED <<Watch!machine, Watch!sampling, step, hand, queue, shown, lost>>
    BY Zenon
  <2>4. Sampled'
    BY <2>0, <2>2, <2>3 DEF Sampled
  <2> QED BY <2>1, <2>4 DEF Watch!WatcherTypeOK, Watch!Entry, Said, Sampled
<1>3. Watch!DeltasAddUp'
  BY DEF WatcherBooks, Watch!DeltasAddUp
<1> QED BY <1>1, <1>2, <1>3 DEF WatcherBooks

LEMMA WatcherGoes ==
  WatcherBooks /\ [Watch!WatcherNext]_(Watch!watcherVars) => WatcherBooks'
BY MachineKeeps, RunKeeps, SampleKeeps, PutKeeps, DropKeeps, PruneKeeps, GetKeeps, ListKeeps
DEF Watch!WatcherNext, Watch!Run, Watch!Tk
-----------------------------------------------------------------------------
(* The Security Center. *)

Complaint == {"blocked", "failure"}

\* One kind of job is listened to at a time.
Sole == \A k, l \in Center!Key : tokens[k] # 0 /\ tokens[l] # 0 => k = l

\* A box that reports a failure is on top, with nothing at work and nothing to
\* press; a box about the plugins comes of a failure to list them; a switch at
\* work leaves none of them.
BoxBooks ==
  /\ \A i \in 1..Len(boxes) :
       boxes[i] \in Complaint =>
         i = Len(boxes) /\ ~button /\ switches = {} /\ \A k \in Center!Key : tokens[k] = 0
  /\ \A i \in 1..Len(boxes) : boxes[i] \in {"plugins", "tick"} => failed
  /\ \A f \in Center!Feature :
       tokens[f] # 0 => \A i \in 1..Len(boxes) : boxes[i] \notin {"plugins", "tick"} \cup Complaint

\* The thread of a switch is listened to until it is done, and a refresh that
\* has read before one is not.
JobBooks ==
  /\ \A j \in jobs : j.key \in Center!Feature => tokens[j.key] = j.id
  /\ \A j, k \in jobs : j.id = k.id => j = k
  /\ \A j \in jobs : j.old => tokens[j.key] # j.id

CenterBooks == Sole /\ BoxBooks /\ JobBooks /\ Center!SecurityInv

Listening(cur) == Cardinality({k \in Center!Key : cur[k] # 0})
Complaints(list) == Cardinality({i \in 1..Len(list) : list[i] \in Complaint})

LEMMA CenterFacts == MaxClicks \in Nat /\ MaxForeign \in Nat
BY DesktopAssumption DEF Center!CenterAssumption

LEMMA KeyIs == Center!Key = {"fw", "rt", "refresh"} /\ Center!Feature = {"fw", "rt"}
BY DEF Center!Key, Center!Feature

LEMMA SameSize == ASSUME NEW S PROVE Center!Cardinality(S) = Cardinality(S)
BY Zenon DEF Center!Cardinality, Cardinality

LEMMA NobodyListened ==
  ASSUME NEW cur, \A k \in Center!Key : cur[k] = 0
  PROVE  Listening(cur) = 0
<1>1. {k \in Center!Key : cur[k] # 0} = {}
  OBVIOUS
<1> QED BY <1>1, FS_EmptySet DEF Listening

LEMMA OneListened ==
  ASSUME NEW cur, NEW key \in Center!Key, cur[key] # 0, \A k \in Center!Key : k # key => cur[k] = 0
  PROVE  Listening(cur) = 1
<1>1. {k \in Center!Key : cur[k] # 0} = {key}
  OBVIOUS
<1> QED BY <1>1, FS_Singleton DEF Listening

LEMMA NoComplaint ==
  ASSUME NEW list, \A i \in 1..Len(list) : list[i] \notin Complaint
  PROVE  Complaints(list) = 0
<1>1. {i \in 1..Len(list) : list[i] \in Complaint} = {}
  OBVIOUS
<1> QED BY <1>1, FS_EmptySet DEF Complaints

LEMMA OneComplaint ==
  ASSUME NEW list, NEW n \in 1..Len(list), list[n] \in Complaint,
         \A i \in 1..Len(list) : list[i] \in Complaint => i = n
  PROVE  Complaints(list) = 1
<1>1. {i \in 1..Len(list) : list[i] \in Complaint} = {n}
  OBVIOUS
<1> QED BY <1>1, FS_Singleton DEF Complaints

LEMMA Busy ==
  Center!BusyAccounts <=>
    busy = Listening(tokens) + superseded + Complaints(boxes) /\ (superseded > 0 => failed)
BY SameSize DEF Center!BusyAccounts, Listening, Complaints, Complaint

LEMMA BusyThen ==
  Center!BusyAccounts' <=>
    busy' = Listening(tokens') + superseded' + Complaints(boxes') /\ (superseded' > 0 => failed')
BY SameSize DEF Center!BusyAccounts, Listening, Complaints, Complaint

Frame == {"plugins", "tick", "blocked", "failure", "notice"}

LEMMA FrameIs == Frame = {"plugins", "tick", "blocked", "failure", "notice"}
BY DEF Frame

LEMMA BoxAppends ==
  ASSUME NEW q \in Seq(Frame), NEW x \in Frame
  PROVE  /\ Append(q, x) \in Seq(Frame) /\ Len(Append(q, x)) = Len(q) + 1 /\ Len(q) \in Nat
         /\ \A i \in 1..Len(q) : Append(q, x)[i] = q[i]
         /\ Append(q, x)[Len(q) + 1] = x
OBVIOUS

LEMMA BoxCloses ==
  ASSUME NEW q \in Seq(Frame), q # <<>>
  PROVE  /\ Center!Front(q) \in Seq(Frame) /\ Len(Center!Front(q)) = Len(q) - 1
         /\ Len(q) \in Nat \ {0} /\ Center!Last(q) = q[Len(q)] /\ Center!Last(q) \in Frame
         /\ \A i \in 1..Len(q) - 1 : Center!Front(q)[i] = q[i]
<1>1. Len(q) \in Nat \ {0} /\ q[Len(q)] \in Frame
  OBVIOUS
<1>2. PICK n \in Nat : n = Len(q) - 1
  BY <1>1
<1>3. \A i \in 1..n : q[i] \in Frame
  BY <1>2
<1>4. SubSeq(q, 1, n) \in Seq(Frame) /\ Len(SubSeq(q, 1, n)) = n
  BY <1>3, SubSeqProperties
<1>5. \A i \in 1..n : SubSeq(q, 1, n)[i] = q[i]
  <2>1. \A i \in 1..n - 1 + 1 : SubSeq(q, 1, n)[i] = q[1 + i - 1]
    BY <1>3, SubSeqProperties
  <2> QED BY <2>1
<1>6. Center!Front(q) = SubSeq(q, 1, n) /\ Center!Last(q) = q[Len(q)]
  BY <1>2 DEF Center!Front, Center!Last
<1> QED BY <1>1, <1>2, <1>4, <1>5, <1>6

\* submit() of a job of a kind, with no other kind listened to and no switch at
\* work.
Submits(key, cur, others, b) ==
  /\ \E target \in BOOLEAN : Center!Submit(key, target, cur, others, b)
  /\ submitted \in Nat /\ superseded \in Nat /\ b \in Nat
  /\ key \in Center!Key /\ cur \in [Center!Key -> 0..submitted] /\ others \subseteq Center!Job
  /\ \A k \in Center!Key : k # key => cur[k] = 0
  /\ \A j \in others : j.key \notin Center!Feature
  /\ \A j, k \in others : j.id = k.id => j = k

LEMMA SubmitDoes ==
  ASSUME NEW key, NEW cur, NEW others, NEW b, Submits(key, cur, others, b)
  PROVE  /\ submitted' = submitted + 1 /\ busy' = b + 1 /\ superseded' \in Nat
         /\ superseded' = superseded + (IF cur[key] = 0 THEN 0 ELSE 1)
         /\ tokens' \in [Center!Key -> 0..submitted'] /\ tokens'[key] # 0
         /\ \A k \in Center!Key : k # key => tokens'[k] = 0
         /\ jobs' \subseteq Center!Job' /\ Sole' /\ JobBooks'
         /\ switches' = {} /\ button' = FALSE /\ states' = states
<1> USE DEF Submits
<1>0. PICK target \in BOOLEAN : Center!Submit(key, target, cur, others, b)
  OBVIOUS
<1>1. /\ submitted' = submitted + 1 /\ busy' = b + 1
      /\ superseded' = superseded + (IF cur[key] = 0 THEN 0 ELSE 1)
      /\ tokens' = [cur EXCEPT ![key] = submitted + 1]
      /\ switches' = {} /\ button' = FALSE /\ states' = states
  BY <1>0 DEF Center!Submit
<1>2. PICK new : new = [id |-> submitted + 1, key |-> key, target |-> target, at |-> "work",
                        read |-> [f \in Center!Feature |-> "unknown"], old |-> FALSE]
  OBVIOUS
<1>3. jobs' = others \cup {new} /\ new.id = submitted + 1 /\ new.key = key /\ new.old = FALSE
  BY <1>0, <1>2 DEF Center!Submit
<1>4. tokens' \in [Center!Key -> 0..submitted'] /\ tokens'[key] = submitted + 1
      /\ \A k \in Center!Key : k # key => tokens'[k] = 0
  BY <1>1
<1>5. \A j \in others : j.id \in 1..submitted /\ j.key \in Center!Key
  BY DEF Center!Job
<1>6. others \subseteq Center!Job'
  BY <1>1 DEF Center!Job
<1>7. new \in Center!Job'
  BY <1>1, <1>2 DEF Center!Job, Center!Seen
<1>8. Sole'
  BY <1>4 DEF Sole
<1>9. JobBooks'
  <2>1. \A j \in jobs' : j.key \in Center!Feature => tokens'[j.key] = j.id
    BY <1>3, <1>4
  <2>2. \A j, k \in jobs' : j.id = k.id => j = k
    BY <1>3, <1>5
  <2>3. \A j \in jobs' : j.old => tokens'[j.key] # j.id
    BY <1>3, <1>4, <1>5
  <2> QED BY <2>1, <2>2, <2>3 DEF JobBooks
<1> QED BY <1>1, <1>3, <1>4, <1>6, <1>7, <1>8, <1>9

\* What refresh_async() does to what is listened to, the boxes and the messages,
\* when no switch is at work and no failure is on show.
LEMMA RefreshDoes ==
  ASSUME submitted \in Nat, superseded \in Nat, failed \in BOOLEAN, timer \in BOOLEAN,
         states \in [Center!Feature -> Center!Seen], button \in BOOLEAN,
         switches \subseteq Center!Feature,
         NEW frame \in {"plugins", "tick"}, NEW cur \in [Center!Key -> 0..submitted],
         NEW others \in SUBSET Center!Job, NEW below \in Seq(Frame), NEW b \in Nat,
         Center!Refresh(frame, cur, others, below, b),
         \A k \in Center!Key : cur[k] = 0,
         \A j \in others : j.key \notin Center!Feature,
         \A j, k \in others : j.id = k.id => j = k,
         \A j \in others : j.old => cur[j.key] # j.id,
         \A i \in 1..Len(below) : below[i] \notin Complaint,
         \A i \in 1..Len(below) : below[i] \in {"plugins", "tick"} => failed,
         superseded > 0 => failed, b = superseded,
         Center!PressedKnowing, UNCHANGED admin
  PROVE  /\ submitted' \in Nat /\ superseded' \in Nat /\ failed' \in BOOLEAN /\ timer' \in BOOLEAN
         /\ states' = states /\ button' \in BOOLEAN /\ switches' \subseteq Center!Feature
         /\ tokens' \in [Center!Key -> 0..submitted'] /\ jobs' \subseteq Center!Job'
         /\ boxes' \in Seq(Frame) /\ busy' \in Nat
         /\ Sole' /\ BoxBooks' /\ JobBooks'
         /\ Center!OneAtATime' /\ Center!BusyAccounts' /\ Center!PressedKnowing'
<1>1. "refresh" \in Center!Key /\ "refresh" \notin Center!Feature
  BY DEF Center!Key, Center!Feature
<1>2. CASE /\ Center!Submit("refresh", FALSE, cur, others, b)
           /\ boxes' = below /\ UNCHANGED <<failed, timer>>
  <2>1. /\ submitted' = submitted + 1 /\ busy' = b + 1 /\ superseded' \in Nat
        /\ superseded' = superseded + (IF cur["refresh"] = 0 THEN 0 ELSE 1)
        /\ tokens' \in [Center!Key -> 0..submitted'] /\ tokens'["refresh"] # 0
        /\ \A k \in Center!Key : k # "refresh" => tokens'[k] = 0
        /\ jobs' \subseteq Center!Job' /\ Sole' /\ JobBooks'
        /\ switches' = {} /\ button' = FALSE /\ states' = states
    <3>1. Submits("refresh", cur, others, b)
      BY <1>1, <1>2 DEF Submits
    <3> QED BY <3>1, SubmitDoes
  <2>2. superseded' = superseded
    BY <1>1, <2>1
  <2>3. BoxBooks'
    <3>1. \A f \in Center!Feature : tokens'[f] = 0
      BY <1>1, <2>1 DEF Center!Key
    <3> QED BY <1>2, <3>1 DEF BoxBooks
  <2>4. Listening(tokens') = 1 /\ Complaints(boxes') = 0
    BY <1>1, <1>2, <2>1, OneListened, NoComplaint
  <2>5. Center!BusyAccounts'
    BY <1>2, <2>1, <2>2, <2>4, BusyThen
  <2>6. Center!OneAtATime' /\ Center!PressedKnowing'
    BY <2>1 DEF Center!OneAtATime, Center!PressedKnowing
  <2>7. failed' \in BOOLEAN /\ timer' \in BOOLEAN
    BY <1>2, Zenon
  <2>8. /\ submitted' \in Nat /\ superseded' \in Nat /\ busy' \in Nat /\ boxes' \in Seq(Frame)
        /\ button' \in BOOLEAN /\ switches' \subseteq Center!Feature
    <3>1. submitted' \in Nat /\ busy' \in Nat
      BY <2>1
    <3>2. boxes' \in Seq(Frame) /\ button' \in BOOLEAN /\ switches' \subseteq Center!Feature
      BY <1>2, <2>1, Zenon
    <3> QED BY <2>1, <3>1, <3>2
  <2> QED BY <2>1, <2>3, <2>5, <2>6, <2>7, <2>8, Zenon
<1>3. CASE /\ boxes' = Append(below, frame) /\ failed' = TRUE
           /\ timer' = (timer /\ frame # "tick")
           /\ tokens' = cur /\ jobs' = others /\ busy' = b
           /\ UNCHANGED <<Center!screen, submitted, superseded>>
  <2> USE <1>3 DEF Center!screen
  <2>1. frame \in Frame /\ frame \notin Complaint
    BY DEF Frame, Complaint
  <2>2. /\ boxes' \in Seq(Frame) /\ Len(boxes') = Len(below) + 1 /\ Len(below) \in Nat
        /\ \A i \in 1..Len(below) : boxes'[i] = below[i]
        /\ boxes'[Len(below) + 1] = frame
    BY <2>1, BoxAppends
  <2>3. \A i \in 1..Len(boxes') : i \in 1..Len(below) \/ (i = Len(below) + 1 /\ boxes'[i] = frame)
    BY <2>2
  <2>4. \A i \in 1..Len(boxes') : boxes'[i] \notin Complaint
    BY <2>1, <2>2, <2>3
  <2>5. jobs' \subseteq Center!Job'
    BY DEF Center!Job
  <2>6. Sole'
    BY DEF Sole
  <2>7. BoxBooks'
    <3>1. \A f \in Center!Feature : tokens'[f] = 0
      BY DEF Center!Key
    <3> QED BY <2>4, <3>1 DEF BoxBooks
  <2>8. JobBooks'
    BY DEF JobBooks
  <2>9. Listening(tokens') = 0 /\ Complaints(boxes') = 0
    BY <2>4, NobodyListened, NoComplaint
  <2>10. Center!BusyAccounts'
    BY <2>9, BusyThen
  <2>11. Center!OneAtATime' /\ Center!PressedKnowing'
    BY DEF Center!OneAtATime, Center!PressedKnowing
  <2>12. timer' \in BOOLEAN
    OBVIOUS
  <2> QED BY <2>2, <2>5, <2>6, <2>7, <2>8, <2>10, <2>11, <2>12
<1> QED BY <1>2, <1>3 DEF Center!Refresh

LEMMA CenterBegins == Center!Init => CenterBooks
<1> SUFFICES ASSUME Center!Init PROVE CenterBooks
  OBVIOUS
<1> USE CenterFacts DEF Center!Init
<1>1. "refresh" \in Center!Key /\ "refresh" \notin Center!Feature
  BY DEF Center!Key, Center!Feature
<1>2. tokens["refresh"] = 1 /\ \A k \in Center!Key : k # "refresh" => tokens[k] = 0
  BY <1>1
<1>3. Center!TypeOK
  <2>1. jobs \subseteq Center!Job
    BY <1>1 DEF Center!Job, Center!Seen
  <2>2. tokens \in [Center!Key -> 0..submitted] /\ states \in [Center!Feature -> Center!Seen]
    BY DEF Center!Seen
  <2>3. /\ admin \in BOOLEAN /\ button \in BOOLEAN /\ auto \in BOOLEAN /\ timer \in BOOLEAN
        /\ failed \in BOOLEAN /\ hides \in BOOLEAN
    BY Zenon
  <2>4. boxes \in Seq(Frame) /\ switches \subseteq Center!Feature
    <3>1. <<>> \in Seq(Frame)
      OBVIOUS
    <3> QED BY <3>1
  <2>5. /\ busy \in Nat /\ submitted \in Nat /\ superseded \in Nat /\ clicks \in 0..MaxClicks
        /\ foreign \in 0..MaxForeign
    OBVIOUS
  <2> QED BY <2>1, <2>2, <2>3, <2>4, <2>5, FrameIs DEF Center!TypeOK
<1>4. Sole /\ BoxBooks /\ JobBooks
  BY <1>1, <1>2 DEF Sole, BoxBooks, JobBooks
<1>5. Listening(tokens) = 1 /\ Complaints(boxes) = 0
  BY <1>1, <1>2, OneListened, NoComplaint
<1>6. Center!OneAtATime /\ Center!BusyAccounts /\ Center!PressedKnowing /\ Center!SwitchNotHidden
  BY <1>5, Busy DEF Center!OneAtATime, Center!PressedKnowing, Center!SwitchNotHidden
<1> QED BY <1>3, <1>4, <1>6 DEF CenterBooks, Center!SecurityInv

CenterParts ==
  /\ Sole /\ BoxBooks /\ JobBooks /\ Center!TypeOK /\ Center!OneAtATime /\ Center!BusyAccounts
  /\ Center!PressedKnowing /\ Center!SwitchNotHidden

LEMMA Parts == CenterBooks <=> CenterParts
BY DEF CenterBooks, CenterParts, Center!SecurityInv

\* Whose kind is listened to has no other job that is.
LEMMA NoOther ==
  ASSUME CenterParts, NEW j \in jobs, tokens[j.key] = j.id
  PROVE  /\ j.id # 0 /\ j.key \in Center!Key /\ \A k \in Center!Key : k # j.key => tokens[k] = 0
         /\ \A k \in jobs \ {j} : k.key \notin Center!Feature
         /\ \A i \in 1..Len(boxes) : boxes[i] \notin Complaint
         /\ ~button /\ switches = {}
<1>1. j \in Center!Job /\ j.id \in Nat \ {0} /\ j.key \in Center!Key
  BY DEF CenterParts, Center!TypeOK, Center!Job
<1>2. \A k \in Center!Key : k # j.key => tokens[k] = 0
  BY <1>1 DEF CenterParts, Sole
<1>3. ASSUME NEW k \in jobs \ {j}, k.key \in Center!Feature PROVE FALSE
  <2>1. k \in Center!Job /\ k.id # 0 /\ tokens[k.key] = k.id
    BY <1>3 DEF CenterParts, Center!TypeOK, Center!Job, JobBooks
  <2>2. k.key = j.key
    BY <1>2, <2>1 DEF Center!Job
  <2> QED BY <1>3, <2>1, <2>2 DEF CenterParts, JobBooks
<1>4. \A i \in 1..Len(boxes) : boxes[i] \notin Complaint
  BY <1>1 DEF CenterParts, BoxBooks
<1>5. ~button /\ switches = {}
  BY <1>1 DEF CenterParts, Center!OneAtATime
<1> QED BY <1>1, <1>2, <1>3, <1>4, <1>5

\* While something can be pressed nothing is at work and no failure on show.
LEMMA AtRest ==
  ASSUME CenterParts, button \/ switches # {}
  PROVE  /\ \A k \in Center!Key : tokens[k] = 0
         /\ \A j \in jobs : j.key \notin Center!Feature
         /\ \A i \in 1..Len(boxes) : boxes[i] \notin Complaint
         /\ busy = superseded
<1>1. \A k \in Center!Key : tokens[k] = 0
  BY DEF CenterParts, Center!OneAtATime
<1>2. \A j \in jobs : j.key \notin Center!Feature
  BY <1>1 DEF CenterParts, JobBooks, Center!TypeOK, Center!Job
<1>3. \A i \in 1..Len(boxes) : boxes[i] \notin Complaint
  BY DEF CenterParts, BoxBooks
<1>4. Listening(tokens) = 0 /\ Complaints(boxes) = 0
  BY <1>1, <1>3, NobodyListened, NoComplaint
<1> QED BY <1>1, <1>2, <1>3, <1>4, Busy DEF CenterParts, Center!TypeOK

LEMMA ToggleKeeps ==
  ASSUME CenterParts, NEW f \in Center!Feature, Center!Toggle(f) PROVE CenterParts'
<1> USE CenterFacts DEF Center!Toggle, Center!Click
<1>1. Center!TypeOK
  BY DEF CenterParts
<1>2. /\ \A k \in Center!Key : tokens[k] = 0
      /\ \A j \in jobs : j.key \notin Center!Feature
      /\ busy = superseded
  BY AtRest
<1>3. /\ submitted \in Nat /\ superseded \in Nat /\ f \in Center!Key
      /\ tokens \in [Center!Key -> 0..submitted] /\ jobs \in SUBSET Center!Job /\ busy \in Nat
      /\ Center!Submit(f, states[f] = "off", tokens, jobs, busy) /\ (states[f] = "off") \in BOOLEAN
      /\ \A j, k \in jobs : j.id = k.id => j = k
  BY <1>1 DEF Center!TypeOK, Center!Key, CenterParts, JobBooks
<1>4. /\ submitted' = submitted + 1 /\ busy' = busy + 1 /\ superseded' \in Nat
      /\ superseded' = superseded + (IF tokens[f] = 0 THEN 0 ELSE 1)
      /\ tokens' \in [Center!Key -> 0..submitted'] /\ tokens'[f] # 0
      /\ \A k \in Center!Key : k # f => tokens'[k] = 0
      /\ jobs' \subseteq Center!Job' /\ Sole' /\ JobBooks'
      /\ switches' = {} /\ button' = FALSE /\ states' = states
  <2>1. \E target \in BOOLEAN : Center!Submit(f, target, tokens, jobs, busy)
    BY <1>3, Zenon
  <2>2. Submits(f, tokens, jobs, busy)
    BY <1>2, <1>3, <2>1 DEF Submits
  <2> QED BY <2>2, SubmitDoes
<1>5. Center!TypeOK'
  <2>1. /\ admin' \in BOOLEAN /\ button' \in BOOLEAN /\ auto' \in BOOLEAN /\ timer' \in BOOLEAN
        /\ failed' \in BOOLEAN /\ hides' \in BOOLEAN
    BY <1>1, <1>4, Zenon DEF Center!TypeOK
  <2>2. /\ submitted' \in Nat /\ busy' \in Nat /\ clicks' \in 0..MaxClicks /\ foreign' \in 0..MaxForeign
    BY <1>1, <1>3, <1>4 DEF Center!TypeOK
  <2>3. /\ real' \in [Center!Feature -> BOOLEAN] /\ boxes' \in Seq(Frame)
        /\ states' \in [Center!Feature -> Center!Seen]
    BY <1>1, <1>4, FrameIs DEF Center!TypeOK
  <2> QED BY <1>4, <2>1, <2>2, <2>3, FrameIs DEF Center!TypeOK
<1>6. BoxBooks'
  BY DEF BoxBooks
<1>7. Listening(tokens') = 1 /\ Complaints(boxes') = 0
  BY <1>3, <1>4, OneListened, NoComplaint
<1>8. Center!BusyAccounts'
  <2>1. superseded' = superseded /\ busy' = superseded' + 1
    BY <1>2, <1>3, <1>4
  <2>2. superseded > 0 => failed'
    <3>1. superseded > 0 => failed
      BY Busy DEF CenterParts
    <3> QED BY <3>1
  <2> QED BY <1>3, <1>7, <2>1, <2>2, BusyThen
<1>9. Center!OneAtATime' /\ Center!PressedKnowing' /\ Center!SwitchNotHidden'
  BY <1>4 DEF CenterParts, Center!OneAtATime, Center!PressedKnowing, Center!SwitchNotHidden
<1> QED BY <1>4, <1>5, <1>6, <1>8, <1>9 DEF CenterParts

\* PressRefresh and Tick
LEMMA RefreshKeeps ==
  ASSUME CenterParts, Center!PressRefresh \/ Center!Tick PROVE CenterParts'
<1> USE CenterFacts
<1>1. Center!TypeOK /\ Sole /\ BoxBooks /\ JobBooks
  BY DEF CenterParts
<1>2. PICK frame \in {"plugins", "tick"} : Center!Refresh(frame, tokens, jobs, boxes, busy)
  BY DEF Center!PressRefresh, Center!Tick
<1>3. /\ button /\ clicks' \in 0..MaxClicks /\ UNCHANGED <<real, admin, auto, hides, foreign>>
  BY <1>1 DEF Center!PressRefresh, Center!Tick, Center!Click, Center!TypeOK
<1>4. /\ \A k \in Center!Key : tokens[k] = 0
      /\ \A j \in jobs : j.key \notin Center!Feature
      /\ \A i \in 1..Len(boxes) : boxes[i] \notin Complaint
      /\ busy = superseded
  BY <1>3, AtRest
<1>5. /\ submitted \in Nat /\ superseded \in Nat /\ failed \in BOOLEAN /\ timer \in BOOLEAN
      /\ states \in [Center!Feature -> Center!Seen] /\ button \in BOOLEAN
      /\ switches \subseteq Center!Feature
      /\ tokens \in [Center!Key -> 0..submitted] /\ jobs \in SUBSET Center!Job
      /\ boxes \in Seq(Frame) /\ busy \in Nat
  BY <1>1, FrameIs DEF Center!TypeOK
<1>6. /\ \A j, k \in jobs : j.id = k.id => j = k
      /\ \A j \in jobs : j.old => tokens[j.key] # j.id
      /\ \A i \in 1..Len(boxes) : boxes[i] \in {"plugins", "tick"} => failed
      /\ superseded > 0 => failed
      /\ Center!PressedKnowing
  BY <1>1 DEF CenterParts, JobBooks, BoxBooks, Center!BusyAccounts
<1>7. /\ submitted' \in Nat /\ superseded' \in Nat /\ failed' \in BOOLEAN /\ timer' \in BOOLEAN
      /\ states' = states /\ button' \in BOOLEAN /\ switches' \subseteq Center!Feature
      /\ tokens' \in [Center!Key -> 0..submitted'] /\ jobs' \subseteq Center!Job'
      /\ boxes' \in Seq(Frame) /\ busy' \in Nat
      /\ Sole' /\ BoxBooks' /\ JobBooks'
      /\ Center!OneAtATime' /\ Center!BusyAccounts' /\ Center!PressedKnowing'
  BY <1>2, <1>3, <1>4, <1>5, <1>6, RefreshDoes
<1>8. Center!TypeOK'
  BY <1>1, <1>3, <1>7, FrameIs DEF Center!TypeOK
<1>9. Center!SwitchNotHidden'
  BY <1>3 DEF CenterParts, Center!SwitchNotHidden
<1> QED BY <1>7, <1>8, <1>9 DEF CenterParts

LEMMA AppliedKeeps ==
  ASSUME CenterParts, NEW j \in jobs, Center!Applied(j) PROVE CenterParts'
<1> USE CenterFacts
<1>1. Center!TypeOK /\ Sole /\ BoxBooks /\ JobBooks
  BY DEF CenterParts
<1>2. /\ j.key \in Center!Feature /\ tokens[j.key] = j.id
      /\ UNCHANGED <<real, admin, auto, hides, clicks, foreign>>
  BY DEF Center!Applied, Center!Listened, Center!bounds
<1>3. /\ j.id # 0 /\ j.key \in Center!Key /\ \A k \in Center!Key : k # j.key => tokens[k] = 0
      /\ \A k \in jobs \ {j} : k.key \notin Center!Feature
      /\ \A i \in 1..Len(boxes) : boxes[i] \notin Complaint
      /\ ~button /\ switches = {}
  BY <1>2, NoOther
<1>4. PICK cur \in [Center!Key -> 0..submitted] : cur = [tokens EXCEPT ![j.key] = 0]
  <2>1. tokens \in [Center!Key -> 0..submitted] /\ 0 \in 0..submitted
    BY <1>1 DEF Center!TypeOK
  <2> QED BY <2>1, Zenon
<1>5. \A k \in Center!Key : cur[k] = 0
  BY <1>1, <1>3, <1>4 DEF Center!TypeOK
<1>6. PICK others \in SUBSET Center!Job : others = jobs \ {j}
  BY <1>1 DEF Center!TypeOK
<1>7. PICK b \in Nat : b = busy - 1 /\ b = superseded
  <2>1. Listening(tokens) = 1 /\ Complaints(boxes) = 0
    BY <1>2, <1>3, OneListened, NoComplaint
  <2> QED BY <2>1, Busy, <1>1 DEF CenterParts, Center!TypeOK
<1>8. Center!Refresh("plugins", cur, others, boxes, b)
  BY <1>4, <1>6, <1>7 DEF Center!Applied
<1>9. /\ submitted \in Nat /\ superseded \in Nat /\ failed \in BOOLEAN /\ timer \in BOOLEAN
      /\ states \in [Center!Feature -> Center!Seen] /\ button \in BOOLEAN
      /\ switches \subseteq Center!Feature /\ boxes \in Seq(Frame)
  BY <1>1, FrameIs DEF Center!TypeOK
<1>10. /\ \A k, l \in others : k.id = l.id => k = l
       /\ \A k \in others : k.id # 0 /\ k.key \in Center!Key
       /\ \A i \in 1..Len(boxes) : boxes[i] \in {"plugins", "tick"} => failed
       /\ superseded > 0 => failed
       /\ Center!PressedKnowing
  BY <1>1, <1>6 DEF CenterParts, JobBooks, BoxBooks, Center!BusyAccounts, Center!Job
<1>11. \A k \in others : k.old => cur[k.key] # k.id
  BY <1>5, <1>10
<1>12. /\ submitted' \in Nat /\ superseded' \in Nat /\ failed' \in BOOLEAN /\ timer' \in BOOLEAN
       /\ states' = states /\ button' \in BOOLEAN /\ switches' \subseteq Center!Feature
       /\ tokens' \in [Center!Key -> 0..submitted'] /\ jobs' \subseteq Center!Job'
       /\ boxes' \in Seq(Frame) /\ busy' \in Nat
       /\ Sole' /\ BoxBooks' /\ JobBooks'
       /\ Center!OneAtATime' /\ Center!BusyAccounts' /\ Center!PressedKnowing'
  BY <1>2, <1>3, <1>5, <1>6, <1>7, <1>8, <1>9, <1>10, <1>11, RefreshDoes
<1>13. Center!TypeOK'
  BY <1>1, <1>2, <1>12, FrameIs DEF Center!TypeOK
<1>14. Center!SwitchNotHidden'
  BY <1>2 DEF CenterParts, Center!SwitchNotHidden
<1> QED BY <1>12, <1>13, <1>14 DEF CenterParts

LEMMA ComplainKeeps ==
  ASSUME CenterParts, NEW j \in jobs, Center!Complain(j) PROVE CenterParts'
<1> USE CenterFacts
<1>1. Center!TypeOK /\ Sole /\ BoxBooks /\ JobBooks
  BY DEF CenterParts
<1>2. PICK frame \in Complaint :
        /\ boxes' = Append(boxes, frame)
        /\ tokens[j.key] = j.id /\ tokens' = [tokens EXCEPT ![j.key] = 0] /\ jobs' = jobs \ {j}
        /\ UNCHANGED <<real, admin, states, switches, button, submitted, superseded, busy, auto,
                       timer, failed, hides, clicks, foreign>>
  BY DEF Center!Complain, Center!Listened, Center!bounds, Center!screen, Complaint
<1>3. /\ j.id # 0 /\ j.key \in Center!Key /\ \A k \in Center!Key : k # j.key => tokens[k] = 0
      /\ \A k \in jobs \ {j} : k.key \notin Center!Feature
      /\ \A i \in 1..Len(boxes) : boxes[i] \notin Complaint
      /\ ~button /\ switches = {}
  BY <1>2, NoOther
<1>4. tokens' \in [Center!Key -> 0..submitted] /\ \A k \in Center!Key : tokens'[k] = 0
  BY <1>1, <1>2, <1>3 DEF Center!TypeOK
<1>5. boxes \in Seq(Frame) /\ frame \in Frame /\ frame \notin {"plugins", "tick"}
  BY <1>1, FrameIs DEF Center!TypeOK, Complaint
<1>6. /\ boxes' \in Seq(Frame) /\ Len(boxes') = Len(boxes) + 1 /\ Len(boxes) \in Nat
      /\ \A i \in 1..Len(boxes) : boxes'[i] = boxes[i]
      /\ boxes'[Len(boxes) + 1] = frame
  BY <1>2, <1>5, BoxAppends
<1>7. \A i \in 1..Len(boxes') : i \in 1..Len(boxes) \/ i = Len(boxes')
  BY <1>6
<1>8. \A i \in 1..Len(boxes') : boxes'[i] \in Complaint => i = Len(boxes')
  BY <1>3, <1>6, <1>7
<1>9. Center!TypeOK'
  <2>1. jobs' \subseteq Center!Job'
    BY <1>1, <1>2 DEF Center!TypeOK, Center!Job
  <2> QED BY <1>1, <1>2, <1>4, <1>6, <2>1, FrameIs DEF Center!TypeOK
<1>10. Sole'
  BY <1>4 DEF Sole
<1>11. BoxBooks'
  <2>1. \A i \in 1..Len(boxes') : boxes'[i] \in {"plugins", "tick"} => failed'
    BY <1>1, <1>2, <1>5, <1>6, <1>7 DEF BoxBooks
  <2>2. \A f \in Center!Feature : tokens'[f] = 0
    BY <1>4 DEF Center!Key
  <2> QED BY <1>2, <1>3, <1>4, <1>8, <2>1, <2>2 DEF BoxBooks
<1>12. JobBooks'
  <2>1. \A k \in jobs' : k.id # 0 /\ k.key \in Center!Key
    BY <1>1, <1>2 DEF Center!TypeOK, Center!Job
  <2> QED BY <1>1, <1>2, <1>3, <1>4, <2>1 DEF JobBooks
<1>13. Listening(tokens) = 1 /\ Complaints(boxes) = 0
  BY <1>2, <1>3, OneListened, NoComplaint
<1>14. Listening(tokens') = 0 /\ Complaints(boxes') = 1
  <2>1. Len(boxes') \in 1..Len(boxes') /\ boxes'[Len(boxes')] \in Complaint
    BY <1>6
  <2> QED BY <1>4, <1>8, <2>1, NobodyListened, OneComplaint
<1>15. Center!BusyAccounts'
  <2>1. busy = Listening(tokens) + superseded + Complaints(boxes) /\ (superseded > 0 => failed)
    BY Busy DEF CenterParts
  <2>2. busy' = Listening(tokens') + superseded' + Complaints(boxes')
        /\ (superseded' > 0 => failed')
    BY <1>1, <1>2, <1>13, <1>14, <2>1 DEF Center!TypeOK
  <2> QED BY <2>2, BusyThen
<1>16. Center!OneAtATime' /\ Center!PressedKnowing' /\ Center!SwitchNotHidden'
  BY <1>2, <1>4 DEF CenterParts, Center!OneAtATime, Center!PressedKnowing, Center!SwitchNotHidden
<1> QED BY <1>9, <1>10, <1>11, <1>12, <1>15, <1>16 DEF CenterParts

LEMMA SetStatesKeeps ==
  ASSUME CenterParts, NEW j \in jobs, Center!SetStates(j) PROVE CenterParts'
<1> USE CenterFacts
<1>1. Center!TypeOK /\ Sole /\ BoxBooks /\ JobBooks
  BY DEF CenterParts
<1>2. /\ j.key = "refresh" /\ tokens[j.key] = j.id /\ tokens' = [tokens EXCEPT !["refresh"] = 0]
      /\ jobs' = jobs \ {j} /\ states' = j.read /\ button' = TRUE
      /\ switches' = {f \in Center!Feature : admin /\ j.read[f] # "unknown"}
      /\ busy' = busy - 1 /\ hides' = j.old
      /\ UNCHANGED <<real, admin, submitted, superseded, boxes, auto, timer, failed, clicks,
                     foreign>>
  BY DEF Center!SetStates, Center!Listened, Center!Enable, Center!bounds
<1>3. /\ j.id # 0 /\ j.key \in Center!Key /\ \A k \in Center!Key : k # j.key => tokens[k] = 0
      /\ \A k \in jobs \ {j} : k.key \notin Center!Feature
      /\ \A i \in 1..Len(boxes) : boxes[i] \notin Complaint
      /\ ~button /\ switches = {}
  BY <1>2, NoOther
<1>4. tokens' \in [Center!Key -> 0..submitted] /\ \A k \in Center!Key : tokens'[k] = 0
  BY <1>1, <1>2, <1>3 DEF Center!TypeOK
<1>5. j.read \in [Center!Feature -> Center!Seen] /\ j.old \in BOOLEAN /\ ~j.old
  BY <1>1, <1>2 DEF Center!TypeOK, Center!Job, JobBooks
<1>6. Listening(tokens) = 1 /\ Complaints(boxes) = 0 /\ Listening(tokens') = 0
  BY <1>2, <1>3, <1>4, OneListened, NoComplaint, NobodyListened
<1>7. busy = 1 + superseded /\ busy' = superseded /\ busy' \in Nat /\ (superseded > 0 => failed)
  BY <1>1, <1>2, <1>6, Busy DEF CenterParts, Center!TypeOK
<1>8. Center!TypeOK'
  <2>1. jobs' \subseteq Center!Job'
    BY <1>1, <1>2 DEF Center!TypeOK, Center!Job
  <2> QED BY <1>1, <1>2, <1>4, <1>5, <1>7, <2>1 DEF Center!TypeOK
<1>9. Sole' /\ Center!OneAtATime'
  BY <1>4 DEF Sole, Center!OneAtATime
<1>10. BoxBooks'
  <2>1. \A f \in Center!Feature : tokens'[f] = 0
    BY <1>4 DEF Center!Key
  <2> QED BY <1>1, <1>2, <1>3, <2>1 DEF BoxBooks
<1>11. JobBooks'
  <2>1. \A k \in jobs' : k.id # 0 /\ k.key \in Center!Key
    BY <1>1, <1>2 DEF Center!TypeOK, Center!Job
  <2> QED BY <1>1, <1>2, <1>3, <1>4, <2>1 DEF JobBooks
<1>12. Center!BusyAccounts'
  BY <1>1, <1>2, <1>6, <1>7, BusyThen DEF Center!TypeOK
<1>13. Center!PressedKnowing' /\ Center!SwitchNotHidden'
  BY <1>2, <1>5 DEF Center!PressedKnowing, Center!SwitchNotHidden
<1> QED BY <1>8, <1>9, <1>10, <1>11, <1>12, <1>13 DEF CenterParts

LEMMA CloseBoxKeeps == CenterParts /\ Center!CloseBox => CenterParts'
<1> SUFFICES ASSUME CenterParts, Center!CloseBox PROVE CenterParts'
  OBVIOUS
<1> USE CenterFacts
<1>1. Center!TypeOK /\ Sole /\ BoxBooks /\ JobBooks
  BY DEF CenterParts
<1>2. boxes # <<>> /\ UNCHANGED <<real, admin, auto, hides, clicks, foreign>>
  BY DEF Center!CloseBox, Center!bounds
<1>3. PICK below \in Seq(Frame) : below = Center!Front(boxes)
  BY <1>1, <1>2, BoxCloses, FrameIs DEF Center!TypeOK
<1>4. PICK top \in Frame : top = Center!Last(boxes) /\ top = boxes[Len(boxes)]
  BY <1>1, <1>2, BoxCloses, FrameIs DEF Center!TypeOK
<1>5. /\ Len(below) = Len(boxes) - 1 /\ Len(boxes) \in Nat \ {0} /\ Len(boxes) \in 1..Len(boxes)
      /\ \A i \in 1..Len(below) : below[i] = boxes[i] /\ i \in 1..Len(boxes) /\ i # Len(boxes)
  <2>1. PICK q \in Seq(Frame) : q = boxes
    BY <1>1, FrameIs DEF Center!TypeOK
  <2>2. /\ Len(below) = Len(q) - 1 /\ Len(q) \in Nat \ {0}
        /\ \A i \in 1..Len(q) - 1 : below[i] = q[i]
    BY <1>2, <1>3, <2>1, BoxCloses
  <2> QED BY <2>1, <2>2
<1>6. /\ \A i \in 1..Len(below) : below[i] \notin Complaint
      /\ \A i \in 1..Len(below) : below[i] \in {"plugins", "tick"} => failed
  BY <1>1, <1>5 DEF BoxBooks
<1>7. /\ submitted \in Nat /\ superseded \in Nat /\ failed \in BOOLEAN /\ timer \in BOOLEAN
      /\ states \in [Center!Feature -> Center!Seen] /\ button \in BOOLEAN
      /\ switches \subseteq Center!Feature /\ busy \in Nat
      /\ tokens \in [Center!Key -> 0..submitted] /\ jobs \in SUBSET Center!Job
  BY <1>1 DEF Center!TypeOK
<1>8. /\ \A j, k \in jobs : j.id = k.id => j = k
      /\ \A j \in jobs : j.old => tokens[j.key] # j.id
      /\ busy = Listening(tokens) + superseded + Complaints(boxes)
      /\ superseded > 0 => failed
      /\ Center!PressedKnowing
  BY Busy DEF CenterParts, JobBooks
<1>9. Center!SwitchNotHidden'
  BY <1>2 DEF CenterParts, Center!SwitchNotHidden
<1>10. CASE top = "notice"
  <2>1. boxes' = below /\ UNCHANGED <<Center!screen, Center!tokens, jobs, busy, timer, failed>>
    BY <1>3, <1>4, <1>10 DEF Center!CloseBox
  <2> USE <2>1 DEF Center!screen, Center!tokens
  <2>2. Center!TypeOK'
    BY <1>1, <1>2, FrameIs DEF Center!TypeOK, Center!Job
  <2>3. Sole' /\ JobBooks'
    BY <1>1 DEF Sole, JobBooks
  <2>4. BoxBooks'
    BY <1>1, <1>5, <1>6 DEF BoxBooks
  <2>5. \A i \in 1..Len(boxes) : boxes[i] \notin Complaint
    BY <1>1, <1>4, <1>10 DEF BoxBooks, Complaint
  <2>6. Complaints(boxes) = 0 /\ Complaints(boxes') = 0
    BY <1>6, <2>5, NoComplaint
  <2>7. Center!BusyAccounts'
    BY <1>8, <2>6, BusyThen
  <2>8. Center!OneAtATime' /\ Center!PressedKnowing'
    BY <1>2 DEF CenterParts, Center!OneAtATime, Center!PressedKnowing
  <2> QED BY <1>9, <2>2, <2>3, <2>4, <2>7, <2>8 DEF CenterParts
<1>11. CASE top \in {"plugins", "tick"}
  <2>1. /\ Center!Submit("refresh", FALSE, tokens, jobs, busy)
        /\ boxes' = below /\ failed' = failed
        /\ timer' = (timer \/ (top = "tick" /\ auto))
    BY <1>3, <1>4, <1>11 DEF Center!CloseBox
  <2>2. /\ failed /\ \A f \in Center!Feature : tokens[f] = 0
        /\ \A i \in 1..Len(boxes) : boxes[i] \notin Complaint
    BY <1>1, <1>4, <1>5, <1>11 DEF BoxBooks, Complaint
  <2>3. "refresh" \in Center!Key /\ \A k \in Center!Key : k # "refresh" => k \in Center!Feature
    BY DEF Center!Key
  <2>4. \A j \in jobs : j.key \notin Center!Feature
    BY <1>1, <1>7, <2>2 DEF JobBooks, Center!Job
  <2>5. /\ submitted' = submitted + 1 /\ busy' = busy + 1 /\ superseded' \in Nat
        /\ superseded' = superseded + (IF tokens["refresh"] = 0 THEN 0 ELSE 1)
        /\ tokens' \in [Center!Key -> 0..submitted'] /\ tokens'["refresh"] # 0
        /\ \A k \in Center!Key : k # "refresh" => tokens'[k] = 0
        /\ jobs' \subseteq Center!Job' /\ Sole' /\ JobBooks'
        /\ switches' = {} /\ button' = FALSE /\ states' = states
    <3>1. Submits("refresh", tokens, jobs, busy)
      BY <1>7, <1>8, <2>1, <2>2, <2>3, <2>4 DEF Submits
    <3> QED BY <3>1, SubmitDoes
  <2>6. timer' \in BOOLEAN
    BY <1>1, <2>1 DEF Center!TypeOK
  <2>7. Center!TypeOK'
    <3>1. /\ admin' \in BOOLEAN /\ button' \in BOOLEAN /\ auto' \in BOOLEAN
          /\ failed' \in BOOLEAN /\ hides' \in BOOLEAN
      BY <1>1, <1>2, <2>1, <2>5, Zenon DEF Center!TypeOK
    <3>2. /\ submitted' \in Nat /\ busy' \in Nat /\ clicks' \in 0..MaxClicks
          /\ foreign' \in 0..MaxForeign
      BY <1>1, <1>2, <1>7, <2>5 DEF Center!TypeOK
    <3>3. /\ real' \in [Center!Feature -> BOOLEAN] /\ boxes' \in Seq(Frame)
          /\ states' \in [Center!Feature -> Center!Seen]
      BY <1>1, <1>2, <1>7, <2>1, <2>5, FrameIs DEF Center!TypeOK
    <3> QED BY <2>5, <2>6, <3>1, <3>2, <3>3, FrameIs DEF Center!TypeOK
  <2>8. BoxBooks'
    <3>1. \A f \in Center!Feature : tokens'[f] = 0
      BY <2>3, <2>5 DEF Center!Key, Center!Feature
    <3> QED BY <1>6, <2>1, <2>2, <3>1 DEF BoxBooks
  <2>9. Complaints(boxes) = 0 /\ Complaints(boxes') = 0 /\ Listening(tokens') = 1
    BY <1>6, <2>1, <2>2, <2>3, <2>5, NoComplaint, OneListened
  <2>10. Listening(tokens) = IF tokens["refresh"] = 0 THEN 0 ELSE 1
    <3>1. CASE tokens["refresh"] = 0
      <4>1. \A k \in Center!Key : tokens[k] = 0
        BY <2>2, <2>3, <3>1
      <4> QED BY <3>1, <4>1, NobodyListened
    <3>2. CASE tokens["refresh"] # 0
      <4>1. \A k \in Center!Key : k # "refresh" => tokens[k] = 0
        BY <2>2, <2>3
      <4> QED BY <2>3, <3>2, <4>1, OneListened
    <3> QED BY <3>1, <3>2
  <2>11. busy' = Listening(tokens') + superseded' + Complaints(boxes')
    BY <1>7, <1>8, <2>5, <2>9, <2>10
  <2>12. Center!BusyAccounts'
    BY <2>1, <2>2, <2>11, BusyThen
  <2>13. Center!OneAtATime' /\ Center!PressedKnowing'
    BY <2>5 DEF Center!OneAtATime, Center!PressedKnowing
  <2> QED BY <1>9, <2>5, <2>7, <2>8, <2>12, <2>13 DEF CenterParts
<1>12. ASSUME top \in Complaint
       PROVE  /\ ~button /\ switches = {} /\ \A k \in Center!Key : tokens[k] = 0
              /\ \A j \in jobs : j.key \notin Center!Feature
              /\ Listening(tokens) = 0 /\ Complaints(boxes) = 1
              /\ busy - 1 \in Nat /\ busy - 1 = superseded
  <2>1. ~button /\ switches = {} /\ \A k \in Center!Key : tokens[k] = 0
    BY <1>1, <1>4, <1>5, <1>12 DEF BoxBooks
  <2>2. \A j \in jobs : j.key \notin Center!Feature
    BY <1>1, <1>7, <2>1 DEF JobBooks, Center!Job
  <2>3. \A i \in 1..Len(boxes) : boxes[i] \in Complaint => i = Len(boxes)
    BY <1>1 DEF BoxBooks
  <2>4. Listening(tokens) = 0 /\ Complaints(boxes) = 1
    BY <1>4, <1>5, <1>12, <2>1, <2>3, NobodyListened, OneComplaint
  <2> QED BY <1>7, <1>8, <2>1, <2>2, <2>4
<1>13. CASE top = "blocked"
  <2>1. Center!Refresh("plugins", tokens, jobs, below, busy - 1)
    BY <1>3, <1>4, <1>13 DEF Center!CloseBox
  <2>2. PICK b \in Nat : b = busy - 1
    BY <1>12, <1>13 DEF Complaint
  <2>3. /\ submitted' \in Nat /\ superseded' \in Nat /\ failed' \in BOOLEAN /\ timer' \in BOOLEAN
        /\ states' = states /\ button' \in BOOLEAN /\ switches' \subseteq Center!Feature
        /\ tokens' \in [Center!Key -> 0..submitted'] /\ jobs' \subseteq Center!Job'
        /\ boxes' \in Seq(Frame) /\ busy' \in Nat
        /\ Sole' /\ BoxBooks' /\ JobBooks'
        /\ Center!OneAtATime' /\ Center!BusyAccounts' /\ Center!PressedKnowing'
    <3>1. top \in Complaint
      BY <1>13 DEF Complaint
    <3>2. /\ \A k \in Center!Key : tokens[k] = 0
          /\ \A j \in jobs : j.key \notin Center!Feature
          /\ b = superseded /\ Center!Refresh("plugins", tokens, jobs, below, b)
      BY <1>12, <2>1, <2>2, <3>1
    <3> QED BY <1>2, <1>6, <1>7, <1>8, <3>2, RefreshDoes
  <2>4. Center!TypeOK'
    BY <1>1, <1>2, <2>3, FrameIs DEF Center!TypeOK
  <2> QED BY <1>9, <2>3, <2>4 DEF CenterParts
<1>14. CASE top = "failure"
  <2>1. /\ boxes' = below /\ button' = TRUE /\ switches' = {} /\ busy' = busy - 1
        /\ UNCHANGED <<states, tokens, submitted, superseded, jobs, timer, failed>>
    BY <1>3, <1>4, <1>14 DEF Center!CloseBox, Center!AfterFailure, Center!tokens
  <2>2. /\ \A k \in Center!Key : tokens[k] = 0
        /\ Listening(tokens) = 0 /\ busy - 1 \in Nat /\ busy - 1 = superseded
    BY <1>12, <1>14 DEF Complaint
  <2>3. Center!TypeOK'
    BY <1>1, <1>2, <2>1, <2>2, FrameIs DEF Center!TypeOK, Center!Job
  <2>4. Sole' /\ JobBooks'
    BY <1>1, <2>1 DEF Sole, JobBooks
  <2>5. BoxBooks'
    <3>1. \A f \in Center!Feature : tokens'[f] = 0
      BY <2>1, <2>2 DEF Center!Key
    <3> QED BY <1>6, <2>1, <3>1 DEF BoxBooks
  <2>6. Complaints(boxes') = 0
    BY <1>6, <2>1, NoComplaint
  <2>7. busy' = Listening(tokens') + superseded' + Complaints(boxes')
    BY <1>7, <2>1, <2>2, <2>6
  <2>8. Center!BusyAccounts'
    BY <1>8, <2>1, <2>7, BusyThen
  <2>9. Center!OneAtATime' /\ Center!PressedKnowing'
    BY <2>1, <2>2 DEF Center!OneAtATime, Center!PressedKnowing
  <2> QED BY <1>9, <2>3, <2>4, <2>5, <2>8, <2>9 DEF CenterParts
<1> QED BY <1>10, <1>11, <1>13, <1>14 DEF Frame

LEMMA SwitchDoneKeeps ==
  ASSUME CenterParts, NEW j \in jobs, Center!SwitchDone(j) PROVE CenterParts'
<1> USE CenterFacts
<1>1. Center!TypeOK /\ Sole /\ BoxBooks /\ JobBooks
  BY DEF CenterParts
<1>2. PICK how \in {"ok", "blocked", "raised"} :
        jobs' = {[k EXCEPT !.old = @ \/ Center!HasRead(k, j.key)] : k \in jobs \ {j}}
                  \cup {[j EXCEPT !.at = how]}
  BY DEF Center!SwitchDone
<1>3. /\ j.key \in Center!Feature
      /\ UNCHANGED <<real, admin, states, switches, button, tokens, submitted, superseded, boxes,
                     busy, auto, timer, failed, hides, clicks, foreign>>
  BY DEF Center!SwitchDone, Center!screen, Center!tokens, Center!bounds
<1>4. tokens[j.key] = j.id
  BY <1>1, <1>3 DEF JobBooks
<1>5. tokens["refresh"] = 0
  BY <1>3, <1>4, NoOther DEF Center!Key, Center!Feature
<1>6. jobs \subseteq Center!Job /\ \A k \in jobs : k.id # 0
  BY <1>1 DEF Center!TypeOK, Center!Job
<1>7. PICK done2 \in Center!Job :
        /\ done2 = [j EXCEPT !.at = how] /\ done2.id = j.id /\ done2.key = j.key
        /\ (done2.old <=> j.old)
  <2>1. j \in Center!Job
    BY <1>6
  <2>2. /\ [j EXCEPT !.at = how] \in Center!Job /\ [j EXCEPT !.at = how].id = j.id
        /\ [j EXCEPT !.at = how].key = j.key
        /\ ([j EXCEPT !.at = how].old <=> j.old)
    BY <2>1 DEF Center!Job
  <2> QED BY <2>2
<1>8. ASSUME NEW k \in jobs
      PROVE  \E m \in Center!Job :
               /\ m = [k EXCEPT !.old = @ \/ Center!HasRead(k, j.key)]
               /\ m.id = k.id /\ m.key = k.key /\ (m.old => k.old \/ k.key = "refresh")
  <2>1. PICK b \in BOOLEAN : b = (k.old \/ Center!HasRead(k, j.key))
    OBVIOUS
  <2>2. [k EXCEPT !.old = @ \/ Center!HasRead(k, j.key)] = [k EXCEPT !.old = b]
    BY <2>1, Zenon
  <2>3. b => k.old \/ k.key = "refresh"
    BY <2>1 DEF Center!HasRead
  <2>4. k \in Center!Job
    BY <1>6
  <2>5. /\ [k EXCEPT !.old = b] \in Center!Job
        /\ [k EXCEPT !.old = b].id = k.id /\ [k EXCEPT !.old = b].key = k.key
        /\ ([k EXCEPT !.old = b].old <=> b)
    BY <2>4 DEF Center!Job
  <2> QED BY <2>2, <2>3, <2>5
<1>9. \A m \in jobs' : \E k \in jobs : /\ m \in Center!Job /\ m.id = k.id /\ m.key = k.key
                                       /\ (m.old => k.old \/ k.key = "refresh")
                                       /\ m = (IF k = j THEN done2 ELSE
                                               [k EXCEPT !.old = @ \/ Center!HasRead(k, j.key)])
  <2> TAKE m \in jobs'
  <2>1. CASE m = done2
    BY <1>7, <2>1
  <2>2. CASE m # done2
    <3>1. PICK k \in jobs \ {j} : m = [k EXCEPT !.old = @ \/ Center!HasRead(k, j.key)]
      BY <1>2, <1>7, <2>2
    <3>2. PICK x \in Center!Job :
            /\ x = [k EXCEPT !.old = @ \/ Center!HasRead(k, j.key)]
            /\ x.id = k.id /\ x.key = k.key /\ (x.old => k.old \/ k.key = "refresh")
      BY <1>8
    <3>3. m = x
      BY <3>1, <3>2, Zenon
    <3> QED BY <3>1, <3>2, <3>3
  <2> QED BY <2>1, <2>2
<1>10. Center!TypeOK'
  <2>1. jobs' \subseteq Center!Job'
    BY <1>3, <1>9 DEF Center!Job
  <2> QED BY <1>1, <1>3, <2>1 DEF Center!TypeOK
<1>11. Sole' /\ BoxBooks'
  BY <1>1, <1>3 DEF Sole, BoxBooks
<1>12. JobBooks'
  <2>1. \A m \in jobs' : m.key \in Center!Feature => tokens'[m.key] = m.id
    BY <1>1, <1>3, <1>9 DEF JobBooks
  <2>2. \A m, n \in jobs' : m.id = n.id => m = n
    BY <1>1, <1>9 DEF JobBooks
  <2>3. \A m \in jobs' : m.old => tokens'[m.key] # m.id
    BY <1>1, <1>3, <1>5, <1>6, <1>9 DEF JobBooks
  <2> QED BY <2>1, <2>2, <2>3 DEF JobBooks
<1>13. /\ Center!OneAtATime' /\ Center!BusyAccounts' /\ Center!PressedKnowing'
       /\ Center!SwitchNotHidden'
  BY <1>3 DEF CenterParts, Center!OneAtATime, Center!BusyAccounts, Center!PressedKnowing,
              Center!SwitchNotHidden
<1> QED BY <1>10, <1>11, <1>12, <1>13 DEF CenterParts

LEMMA AskKeepsCenter ==
  ASSUME CenterParts, NEW j \in jobs, Center!Ask(j) PROVE CenterParts'
<1> USE CenterFacts
<1>1. Center!TypeOK /\ Sole /\ BoxBooks /\ JobBooks
  BY DEF CenterParts
<1>2. UNCHANGED <<real, admin, states, switches, button, tokens, submitted, superseded, boxes,
                  busy, auto, timer, failed, hides, clicks, foreign>>
  BY DEF Center!Ask, Center!screen, Center!tokens, Center!bounds
<1>3. j \in Center!Job
  BY <1>1 DEF Center!TypeOK
<1>4. PICK m \in Center!Job : /\ jobs' = (jobs \ {j}) \cup {m}
                              /\ m.id = j.id /\ m.key = j.key /\ (m.old <=> j.old)
  <2>1. CASE Center!Becomes(j, [j EXCEPT !.at = "raised"])
    <3>1. /\ [j EXCEPT !.at = "raised"] \in Center!Job
          /\ [j EXCEPT !.at = "raised"].id = j.id /\ [j EXCEPT !.at = "raised"].key = j.key
          /\ ([j EXCEPT !.at = "raised"].old <=> j.old)
      BY <1>3 DEF Center!Job
    <3> QED BY <2>1, <3>1 DEF Center!Becomes
  <2>2. CASE \E f \in Center!Feature : \E told \in {Center!Says(real[f]), "unknown"} :
               Center!Becomes(j, [j EXCEPT !.at = IF @ = "work" THEN "half" ELSE "ok",
                                           !.read[f] = told])
    <3>1. PICK f \in Center!Feature, told \in Center!Seen :
            Center!Becomes(j, [j EXCEPT !.at = IF @ = "work" THEN "half" ELSE "ok",
                                        !.read[f] = told])
      BY <2>2 DEF Center!Says, Center!Seen
    <3>2. PICK at \in {"half", "ok"} : at = IF j.at = "work" THEN "half" ELSE "ok"
      OBVIOUS
    <3>3. PICK seen2 \in [Center!Feature -> Center!Seen] : seen2 = [j.read EXCEPT ![f] = told]
      BY <1>3 DEF Center!Job
    <3>4. PICK m : m = [j EXCEPT !.at = IF @ = "work" THEN "half" ELSE "ok", !.read[f] = told]
      OBVIOUS
    <3>5. m = [j EXCEPT !.at = at, !.read = seen2]
      BY <3>2, <3>3, <3>4
    <3>6. m \in Center!Job /\ m.id = j.id /\ m.key = j.key /\ (m.old <=> j.old)
      BY <1>3, <3>5 DEF Center!Job
    <3> QED BY <3>1, <3>4, <3>6 DEF Center!Becomes
  <2> QED BY <2>1, <2>2 DEF Center!Ask, Center!Feature
<1>5. Center!TypeOK'
  <2>1. jobs' \subseteq Center!Job'
    BY <1>1, <1>2, <1>4 DEF Center!TypeOK, Center!Job
  <2> QED BY <1>1, <1>2, <2>1 DEF Center!TypeOK
<1>6. Sole' /\ BoxBooks'
  BY <1>1, <1>2 DEF Sole, BoxBooks
<1>7. JobBooks'
  BY <1>1, <1>2, <1>4 DEF JobBooks
<1>8. /\ Center!OneAtATime' /\ Center!BusyAccounts' /\ Center!PressedKnowing'
      /\ Center!SwitchNotHidden'
  BY <1>2 DEF CenterParts, Center!OneAtATime, Center!BusyAccounts, Center!PressedKnowing,
              Center!SwitchNotHidden
<1> QED BY <1>5, <1>6, <1>7, <1>8 DEF CenterParts

LEMMA CenterOthersKeep ==
  ASSUME CenterParts,
         \/ Center!SetAuto \/ \E f \in Center!Feature : Center!Foreign(f)
         \/ \E j \in jobs : Center!Switch(j) \/ Center!Drop(j)
         \/ UNCHANGED Center!vars
  PROVE  CenterParts'
<1> USE CenterFacts
        DEF Center!SetAuto, Center!Foreign, Center!Switch, Center!Drop, Center!vars,
            Center!screen, Center!tokens, Center!bounds
<1>1. Center!TypeOK /\ Sole /\ BoxBooks /\ JobBooks
  BY DEF CenterParts
<1>2. /\ UNCHANGED <<admin, states, switches, button, tokens, submitted, superseded, boxes, busy,
                     failed, hides, clicks>>
      /\ jobs' \subseteq jobs
  OBVIOUS
<1>3. /\ real' \in [Center!Feature -> BOOLEAN] /\ auto' \in BOOLEAN /\ timer' \in BOOLEAN
      /\ foreign' \in 0..MaxForeign
  <2>1. CASE Center!SetAuto \/ (\E j \in jobs : Center!Drop(j)) \/ UNCHANGED Center!vars
    BY <1>1, <2>1 DEF Center!TypeOK
  <2>2. ASSUME NEW f \in Center!Feature, Center!Foreign(f)
        PROVE  /\ real' \in [Center!Feature -> BOOLEAN] /\ auto' \in BOOLEAN /\ timer' \in BOOLEAN
               /\ foreign' \in 0..MaxForeign
    BY <1>1, <2>2 DEF Center!TypeOK
  <2>3. ASSUME NEW j \in jobs, Center!Switch(j)
        PROVE  /\ real' \in [Center!Feature -> BOOLEAN] /\ auto' \in BOOLEAN /\ timer' \in BOOLEAN
               /\ foreign' \in 0..MaxForeign
    <3>1. j.target \in BOOLEAN
      BY <1>1 DEF Center!TypeOK, Center!Job
    <3> QED BY <1>1, <2>3, <3>1 DEF Center!TypeOK
  <2> QED BY <2>1, <2>2, <2>3
<1>4. Center!TypeOK'
  <2>1. jobs' \subseteq Center!Job'
    BY <1>1, <1>2 DEF Center!TypeOK, Center!Job
  <2> QED BY <1>1, <1>2, <1>3, <2>1 DEF Center!TypeOK
<1>5. Sole' /\ BoxBooks' /\ JobBooks'
  BY <1>1, <1>2 DEF Sole, BoxBooks, JobBooks
<1>6. /\ Center!OneAtATime' /\ Center!BusyAccounts' /\ Center!PressedKnowing'
      /\ Center!SwitchNotHidden'
  BY <1>2 DEF CenterParts, Center!OneAtATime, Center!BusyAccounts, Center!PressedKnowing,
              Center!SwitchNotHidden
<1> QED BY <1>4, <1>5, <1>6 DEF CenterParts

LEMMA NoticeKeeps == CenterParts /\ Center!Notice => CenterParts'
<1> SUFFICES ASSUME CenterParts, Center!Notice PROVE CenterParts'
  OBVIOUS
<1> USE CenterFacts
<1>1. Center!TypeOK /\ Sole /\ BoxBooks /\ JobBooks
  BY DEF CenterParts
<1>2. /\ UNCHANGED <<real, admin, states, switches, button, tokens, submitted, superseded, jobs,
                     busy, auto, timer, failed, hides, foreign>>
      /\ clicks' \in 0..MaxClicks /\ boxes = <<>> /\ boxes' = <<"notice">>
  BY <1>1 DEF Center!Notice, Center!Click, Center!screen, Center!tokens, Center!TypeOK
<1>3. /\ boxes' \in Seq(Frame)
      /\ \A i \in 1..Len(boxes') : boxes'[i] \notin {"plugins", "tick"} \cup Complaint
      /\ \A i \in 1..Len(boxes) : boxes[i] \notin Complaint
  BY <1>2 DEF Frame, Complaint
<1>4. Center!TypeOK'
  BY <1>1, <1>2, <1>3, FrameIs DEF Center!TypeOK, Center!Job
<1>5. Sole' /\ BoxBooks' /\ JobBooks'
  BY <1>1, <1>2, <1>3 DEF Sole, BoxBooks, JobBooks
<1>6. Complaints(boxes) = 0 /\ Complaints(boxes') = 0
  BY <1>3, NoComplaint
<1>7. busy' = Listening(tokens') + superseded' + Complaints(boxes') /\ (superseded' > 0 => failed')
  BY <1>2, <1>6, Busy DEF CenterParts
<1>8. Center!BusyAccounts'
  BY <1>7, BusyThen
<1>9. Center!OneAtATime' /\ Center!PressedKnowing' /\ Center!SwitchNotHidden'
  BY <1>2 DEF CenterParts, Center!OneAtATime, Center!PressedKnowing, Center!SwitchNotHidden
<1> QED BY <1>4, <1>5, <1>8, <1>9 DEF CenterParts

LEMMA CenterGoes == CenterBooks /\ [Center!Next]_(Center!vars) => CenterBooks'
<1>1. CenterBooks' <=> CenterParts'
  BY DEF CenterBooks, CenterParts, Center!SecurityInv
<1> QED BY <1>1, Parts, ToggleKeeps, RefreshKeeps, AppliedKeeps, ComplainKeeps, SetStatesKeeps,
           CloseBoxKeeps, SwitchDoneKeeps, AskKeepsCenter, CenterOthersKeep, NoticeKeeps
        DEF Center!Next
-----------------------------------------------------------------------------
(* The network scan.  Host and the pools are NetworkScan's. *)

Hosts == Net!Host
Single(list) == \A i, j \in DOMAIN list : list[i] = list[j] => i = j

LEMMA SizeIs == ASSUME NEW S PROVE Net!Cardinality(S) = Cardinality(S)
BY Zenon DEF Net!Cardinality, Cardinality

LEMMA FiniteIs == ASSUME NEW S PROVE Net!IsFiniteSet(S) <=> IsFiniteSet(S)
BY Zenon DEF Net!IsFiniteSet, IsFiniteSet

LEMMA ListFacts ==
  ASSUME NEW S, NEW s \in Seq(S)
  PROVE  /\ IsFiniteSet(Net!ToSet(s)) /\ Cardinality(Net!ToSet(s)) <= Len(s)
         /\ Net!ToSet(s) \subseteq S
         /\ Net!ToSet(s) = {} <=> s = <<>>
<1> DEFINE T == Net!ToSet(s)
<1>1. T \subseteq S /\ (T = {} <=> s = <<>>)
  BY DEF Net!ToSet
<1>2. IsFiniteSet(1..Len(s)) /\ Cardinality(1..Len(s)) = Len(s)
  <2>1. Len(s) \in Nat
    OBVIOUS
  <2> QED BY <2>1, FS_Interval
<1> DEFINE f == [i \in 1..Len(s) |-> s[i]]
<1>3. f \in Surjection(1..Len(s), T)
  <2>1. T = {s[i] : i \in 1..Len(s)} /\ f \in [1..Len(s) -> T]
    BY DEF Net!ToSet
  <2>2. \A y \in T : \E i \in 1..Len(s) : f[i] = y
    BY <2>1
  <2> QED BY <2>1, <2>2 DEF Surjection
<1>4. IsFiniteSet(T) /\ Cardinality(T) <= Cardinality(1..Len(s))
  BY <1>2, <1>3, FS_Surjection
<1> QED BY <1>1, <1>2, <1>4

LEMMA ListHead ==
  ASSUME NEW S, NEW s \in Seq(S), s # <<>>
  PROVE  /\ Head(s) \in S /\ Tail(s) \in Seq(S) /\ Len(Tail(s)) = Len(s) - 1
         /\ Net!ToSet(s) = {Head(s)} \cup Net!ToSet(Tail(s))
         /\ Single(s) => Single(Tail(s)) /\ Head(s) \notin Net!ToSet(Tail(s))
<1>1. /\ Head(s) \in S /\ Tail(s) \in Seq(S) /\ Len(Tail(s)) = Len(s) - 1
      /\ DOMAIN Tail(s) = 1..Len(s) - 1 /\ Len(s) \in Nat \ {0} /\ DOMAIN s = 1..Len(s)
      /\ Head(s) = s[1] /\ \A i \in 1..Len(s) - 1 : Tail(s)[i] = s[i + 1]
  OBVIOUS
<1>2. Net!ToSet(s) = {Head(s)} \cup Net!ToSet(Tail(s))
  <2>1. \A i \in 1..Len(s) : i = 1 \/ (i - 1 \in 1..Len(s) - 1 /\ s[i] = Tail(s)[i - 1])
    BY <1>1
  <2>2. \A i \in 1..Len(s) - 1 : i + 1 \in 1..Len(s) /\ Tail(s)[i] = s[i + 1]
    BY <1>1
  <2>3. 1 \in 1..Len(s)
    BY <1>1
  <2> DEFINE t == Tail(s)
             m == Len(s)
  <2>4. /\ Net!ToSet(s) = {s[i] : i \in 1..m} /\ Net!ToSet(t) = {t[i] : i \in 1..m - 1}
    BY Zenon, <1>1 DEF Net!ToSet
  <2> HIDE DEF t, m
  <2>5. \A x : x \in Net!ToSet(s) <=> x = s[1] \/ x \in Net!ToSet(t)
    BY <2>1, <2>2, <2>3, <2>4 DEF t, m
  <2> QED BY <1>1, <2>5 DEF t
<1>3. Single(s) => Single(Tail(s)) /\ Head(s) \notin Net!ToSet(Tail(s))
  BY <1>1 DEF Single, Net!ToSet
<1> QED BY <1>1, <1>2, <1>3

LEMMA ListAppend ==
  ASSUME NEW S, NEW s \in Seq(S), NEW x \in S
  PROVE  /\ Append(s, x) \in Seq(S) /\ Len(Append(s, x)) = Len(s) + 1
         /\ Net!ToSet(Append(s, x)) = Net!ToSet(s) \cup {x}
         /\ Single(s) /\ x \notin Net!ToSet(s) => Single(Append(s, x))
<1>1. /\ Append(s, x) \in Seq(S) /\ Len(Append(s, x)) = Len(s) + 1 /\ Len(s) \in Nat
      /\ DOMAIN Append(s, x) = 1..Len(s) + 1 /\ DOMAIN s = 1..Len(s)
      /\ Append(s, x)[Len(s) + 1] = x /\ \A i \in 1..Len(s) : Append(s, x)[i] = s[i]
  OBVIOUS
<1>2. \A i \in 1..Len(s) + 1 : i = Len(s) + 1 \/ i \in 1..Len(s)
  BY <1>1
<1>3. Net!ToSet(Append(s, x)) = Net!ToSet(s) \cup {x}
  BY <1>1, <1>2 DEF Net!ToSet
<1>4. Single(s) /\ x \notin Net!ToSet(s) => Single(Append(s, x))
  BY <1>1, <1>2 DEF Net!ToSet, Single
<1> QED BY <1>1, <1>3, <1>4

LEMMA ListBoth ==
  ASSUME NEW S, NEW s \in Seq(S), NEW t \in Seq(S)
  PROVE  Net!ToSet(s \o t) = Net!ToSet(s) \cup Net!ToSet(t)
<1>1. /\ Len(s) \in Nat /\ Len(t) \in Nat /\ DOMAIN (s \o t) = 1..Len(s) + Len(t)
      /\ DOMAIN s = 1..Len(s) /\ DOMAIN t = 1..Len(t)
      /\ \A i \in 1..Len(s) : (s \o t)[i] = s[i]
      /\ \A i \in 1..Len(s) + Len(t) : i > Len(s) => (s \o t)[i] = t[i - Len(s)]
  OBVIOUS
<1>2. ASSUME NEW i \in 1..Len(t) PROVE t[i] = (s \o t)[i + Len(s)] /\ i + Len(s) \in 1..Len(s) + Len(t)
  BY <1>1
<1>3. ASSUME NEW i \in 1..Len(s) + Len(t)
      PROVE  i \in 1..Len(s) \/ (i > Len(s) /\ i - Len(s) \in 1..Len(t))
  BY <1>1
<1> QED BY <1>1, <1>2, <1>3 DEF Net!ToSet

\* A list of a finite set names each of its elements once.
LEMMA SetList ==
  ASSUME NEW S, IsFiniteSet(S)
  PROVE  /\ Net!SetToSeq(S) \in Seq(S) /\ Single(Net!SetToSeq(S))
         /\ Net!ToSet(Net!SetToSeq(S)) = S /\ Len(Net!SetToSeq(S)) = Cardinality(S)
<1> DEFINE n == Cardinality(S)
           good(f) == f \in [1..n -> S] /\ Net!IsInjective(f)
           list == Net!SetToSeq(S)
<1>1. n \in Nat /\ ExistsBijection(1..n, S)
  BY FS_CardinalityType
<1>2. PICK f \in Bijection(1..n, S) : TRUE
  BY <1>1 DEF ExistsBijection
<1>3. good(f)
  <2>1. f \in [1..n -> S] /\ \A i, j \in 1..n : f[i] = f[j] => i = j
    BY <1>2 DEF Bijection, Injection, IsInjective
  <2> QED BY <2>1 DEF Net!IsInjective
<1>4. list = CHOOSE g \in [1..n -> S] : Net!IsInjective(g)
  BY SizeIs DEF Net!SetToSeq
<1>5. good(list)
  BY <1>3, <1>4
<1>6. list \in [1..n -> S] /\ Single(list)
  BY <1>5 DEF Net!IsInjective, Single
<1>7. list \in Seq(S) /\ Len(list) = n
  BY <1>1, <1>6
<1>8. list \in Injection(1..n, S)
  <2>1. \A i, j \in 1..n : list[i] = list[j] => i = j
    BY <1>6 DEF Single
  <2> QED BY <1>6, <2>1 DEF Injection, IsInjective
<1>9. IsFiniteSet(1..n) /\ Cardinality(1..n) = n
  BY <1>1, FS_Interval
<1>10. list \in Surjection(1..n, S)
  BY <1>8, <1>9, FS_Injection
<1>11. Net!ToSet(list) = S
  BY <1>10, <1>6 DEF Surjection, Net!ToSet
<1> QED BY <1>6, <1>7, <1>11

Pools(S) == [left : Seq(S), busy : SUBSET S, owed : Nat, crew : Int]
\* A pool over S: nobody takes an item twice, and the join waits for no less
\* than what is queued or in work.
PoolOK(pool, S) ==
  /\ pool \in Pools(S) /\ Single(pool.left) /\ IsFiniteSet(pool.busy)
  /\ Net!ToSet(pool.left) \cap pool.busy = {}
  /\ Len(pool.left) + Cardinality(pool.busy) <= pool.owed
\* It waits for nothing else.
Exact(pool) == pool.owed = Len(pool.left) + Cardinality(pool.busy)
Once(s, S) == s \in Seq(S) /\ Single(s)

LEMMA PoolMade ==
  ASSUME NEW S, NEW s, NEW n \in Nat, Once(s, S)
  PROVE  /\ PoolOK(Net!Pool(s, n), S) /\ Exact(Net!Pool(s, n))
         /\ Net!Pool(s, n).left = s /\ Net!Pool(s, n).busy = {} /\ Net!Pool(s, n).owed = Len(s)
<1> DEFINE pool == Net!Pool(s, n)
<1>1. s \in Seq(S) /\ Single(s) /\ Len(s) \in Nat
  BY DEF Once
<1>2. /\ pool.left = s /\ pool.busy = {} /\ pool.owed = Len(s)
  BY DEF Net!Pool
<1>5. pool \in Pools(S)
  BY <1>1 DEF Net!Pool, Pools, Net!Smaller
<1>3. IsFiniteSet({}) /\ Cardinality({}) = 0
  BY FS_EmptySet
<1> HIDE DEF pool
<1>4. PoolOK(pool, S) /\ Exact(pool)
  BY <1>1, <1>2, <1>3, <1>5, ListFacts DEF PoolOK, Exact
<1> QED BY <1>2, <1>4 DEF pool

LEMMA PoolSizes ==
  ASSUME NEW S, NEW pool, PoolOK(pool, S)
  PROVE  /\ Len(pool.left) \in Nat /\ Cardinality(pool.busy) \in Nat /\ pool.owed \in Nat
         /\ Len(pool.left) + Cardinality(pool.busy) <= pool.owed
         /\ pool.busy # {} => pool.owed > 0
         /\ pool.owed = 0 => pool.left = <<>> /\ pool.busy = {}
<1>1. /\ Cardinality(pool.busy) \in Nat /\ (Cardinality(pool.busy) = 0 <=> pool.busy = {})
  BY FS_CardinalityType, FS_EmptySet DEF PoolOK
<1>2. Len(pool.left) \in Nat /\ (Len(pool.left) = 0 <=> pool.left = <<>>)
  BY DEF PoolOK, Pools
<1> QED BY <1>1, <1>2 DEF PoolOK, Pools

LEMMA PoolTakes ==
  ASSUME NEW S, NEW pool, PoolOK(pool, S), pool.left # <<>>
  PROVE  LET h == Head(pool.left)
             then == Net!Take(pool)
         IN  /\ PoolOK(then, S) /\ (Exact(pool) => Exact(then))
             /\ h \in S /\ h \in Net!ToSet(pool.left) /\ h \notin pool.busy
             /\ h \notin Net!ToSet(then.left)
             /\ Net!ToSet(pool.left) = {h} \cup Net!ToSet(then.left)
             /\ then.left = Tail(pool.left) /\ then.busy = pool.busy \cup {h}
             /\ then.owed = pool.owed
             /\ Len(then.left) = Len(pool.left) - 1
             /\ Cardinality(then.busy) = Cardinality(pool.busy) + 1
<1> DEFINE h == Head(pool.left)
           then == Net!Take(pool)
           rest == Tail(pool.left)
<1>0. pool \in Pools(S)
  BY DEF PoolOK
<1>1. /\ h \in S /\ rest \in Seq(S) /\ Len(rest) = Len(pool.left) - 1 /\ Single(rest)
      /\ Net!ToSet(pool.left) = {h} \cup Net!ToSet(rest) /\ h \notin Net!ToSet(rest)
  BY <1>0, ListHead DEF PoolOK, Pools
<1>2. h \notin pool.busy
  BY <1>1 DEF PoolOK
<1>3. /\ IsFiniteSet(pool.busy \cup {h})
      /\ Cardinality(pool.busy \cup {h}) = Cardinality(pool.busy) + 1
  BY <1>2, FS_AddElement DEF PoolOK
<1>5. /\ then.left = rest /\ then.busy = pool.busy \cup {h} /\ then.owed = pool.owed
      /\ then \in Pools(S)
  BY <1>0, <1>1 DEF Net!Take, Pools
<1>6. /\ Len(pool.left) \in Nat /\ Cardinality(pool.busy) \in Nat /\ pool.owed \in Nat
      /\ Len(pool.left) + Cardinality(pool.busy) <= pool.owed
  BY PoolSizes
<1>7. pool.busy \subseteq S /\ Net!ToSet(pool.left) \cap pool.busy = {}
  BY DEF PoolOK, Pools
<1>8. PoolOK(then, S)
  <2> HIDE DEF then, h, rest
  <2>1. Single(then.left)
    BY <1>1, <1>5
  <2>2. IsFiniteSet(then.busy)
    BY <1>3, <1>5
  <2>3. Net!ToSet(then.left) \cap then.busy = {}
    BY <1>1, <1>5, <1>7
  <2>4. Len(then.left) + Cardinality(then.busy) <= then.owed
    BY <1>1, <1>3, <1>5, <1>6
  <2> QED BY <1>5, <2>1, <2>2, <2>3, <2>4 DEF PoolOK
<1>9. Exact(pool) => Exact(then)
  <2> HIDE DEF then, h, rest
  <2> QED BY <1>1, <1>3, <1>5, <1>6 DEF Exact
<1> HIDE DEF then, h, rest
<1>10. h \in Net!ToSet(pool.left) /\ h \notin Net!ToSet(then.left)
  BY <1>1, <1>5
<1>11. /\ Len(then.left) = Len(pool.left) - 1
       /\ Cardinality(then.busy) = Cardinality(pool.busy) + 1
  BY <1>1, <1>3, <1>5
<1> QED BY <1>1, <1>2, <1>5, <1>8, <1>9, <1>10, <1>11 DEF then, h, rest

\* What remains of a pool when the worker of x is through with it
Without(pool, x, then) == then.left = pool.left /\ then.busy = pool.busy \ {x}

LEMMA PoolLoses ==
  ASSUME NEW S, NEW pool, NEW x, NEW then, PoolOK(pool, S), x \in pool.busy,
         then \in Pools(S), Without(pool, x, then), then.owed \in {pool.owed, pool.owed - 1}
  PROVE  /\ PoolOK(then, S) /\ (Exact(pool) /\ then.owed = pool.owed - 1 => Exact(then))
         /\ Cardinality(then.busy) = Cardinality(pool.busy) - 1
<1>1. /\ IsFiniteSet(pool.busy \ {x})
      /\ Cardinality(pool.busy \ {x}) = Cardinality(pool.busy) - 1
  BY FS_RemoveElement DEF PoolOK
<1>2. /\ Len(pool.left) \in Nat /\ Cardinality(pool.busy) \in Nat /\ pool.owed \in Nat
      /\ Len(pool.left) + Cardinality(pool.busy) <= pool.owed
  BY PoolSizes
<1>3. Cardinality(pool.busy \ {x}) \in Nat
  BY <1>1, FS_CardinalityType
<1>4. then.left = pool.left /\ then.busy = pool.busy \ {x}
  BY DEF Without
<1>5. PoolOK(then, S)
  <2>1. Single(then.left) /\ IsFiniteSet(then.busy)
    BY <1>1, <1>4 DEF PoolOK
  <2>2. Net!ToSet(then.left) \cap then.busy = {}
    BY <1>4 DEF PoolOK
  <2>3. Len(then.left) + Cardinality(then.busy) <= then.owed
    BY <1>1, <1>2, <1>3, <1>4
  <2> QED BY <2>1, <2>2, <2>3 DEF PoolOK
<1> QED BY <1>1, <1>2, <1>4, <1>5 DEF Exact

LEMMA PoolGives ==
  ASSUME NEW S, NEW pool, NEW x, PoolOK(pool, S), x \in pool.busy
  PROVE  LET then == Net!Give(pool, x)
         IN  /\ PoolOK(then, S) /\ (Exact(pool) => Exact(then))
             /\ then.left = pool.left /\ then.busy = pool.busy \ {x}
             /\ then.owed = pool.owed - 1
             /\ Cardinality(then.busy) = Cardinality(pool.busy) - 1
<1> DEFINE then == Net!Give(pool, x)
<1>0. pool \in Pools(S)
  BY DEF PoolOK
<1>4. pool.owed > 0
  BY PoolSizes
<1>1. /\ then.left = pool.left /\ then.busy = pool.busy \ {x} /\ then.owed = pool.owed - 1
      /\ then \in Pools(S)
  <2>1. /\ pool.left \in Seq(S) /\ pool.busy \in SUBSET S /\ pool.owed \in Nat
        /\ pool.crew \in Int
    BY <1>0 DEF Pools
  <2>2. /\ then.left = pool.left /\ then.busy = pool.busy \ {x}
        /\ then.owed = pool.owed - 1
    BY <1>0 DEF Net!Give, Pools
  <2>3. \A b \in SUBSET S, o \in Nat : [pool EXCEPT !.busy = b, !.owed = o] \in Pools(S)
    BY <1>0 DEF Pools
  <2>4. then = [pool EXCEPT !.busy = pool.busy \ {x}, !.owed = pool.owed - 1]
    BY DEF Net!Give
  <2>5. pool.busy \ {x} \in SUBSET S /\ pool.owed - 1 \in Nat
    BY <2>1, <1>4
  <2>6. then \in Pools(S)
    <3>1. PICK b \in SUBSET S : b = pool.busy \ {x}
      BY <2>5
    <3>2. PICK o \in Nat : o = pool.owed - 1
      BY <2>5
    <3>3. then = [pool EXCEPT !.busy = b, !.owed = o]
      BY <2>4, <3>1, <3>2
    <3> QED BY <2>3, <3>3
  <2> QED BY <2>2, <2>6
<1> HIDE DEF then
<1>2. Without(pool, x, then)
  BY <1>1 DEF Without
<1>3. /\ PoolOK(then, S) /\ (Exact(pool) => Exact(then))
      /\ Cardinality(then.busy) = Cardinality(pool.busy) - 1
  BY <1>1, <1>2, PoolLoses
<1> QED BY <1>1, <1>3 DEF then

LEMMA PoolDrops ==
  ASSUME NEW S, NEW pool, NEW x, PoolOK(pool, S), x \in pool.busy
  PROVE  LET then == Net!Lose(pool, x)
         IN  /\ PoolOK(then, S) /\ (Exact(pool) => Exact(then))
             /\ then.left = pool.left /\ then.busy = pool.busy \ {x}
             /\ then.owed = pool.owed - 1
             /\ Cardinality(then.busy) = Cardinality(pool.busy) - 1
<1> DEFINE then == Net!Lose(pool, x)
<1>0. pool \in Pools(S)
  BY DEF PoolOK
<1>4. pool.owed > 0
  BY PoolSizes
<1>1. /\ then.left = pool.left /\ then.busy = pool.busy \ {x} /\ then.owed = pool.owed - 1
      /\ then \in Pools(S)
  <2>1. /\ pool.left \in Seq(S) /\ pool.busy \in SUBSET S /\ pool.owed \in Nat
        /\ pool.crew \in Int
    BY <1>0 DEF Pools
  <2>2. /\ then.left = pool.left /\ then.busy = pool.busy \ {x}
        /\ then.owed = pool.owed - 1
    BY <1>0 DEF Net!Lose, Pools
  <2>3. \A b \in SUBSET S, o \in Nat, c \in Int :
          [pool EXCEPT !.busy = b, !.owed = o, !.crew = c] \in Pools(S)
    BY <1>0 DEF Pools
  <2>4. then = [pool EXCEPT !.busy = pool.busy \ {x}, !.owed = pool.owed - 1,
                           !.crew = pool.crew - 1]
    BY DEF Net!Lose
  <2>5. pool.busy \ {x} \in SUBSET S /\ pool.owed - 1 \in Nat /\ pool.crew - 1 \in Int
    BY <2>1, <1>4
  <2>6. then \in Pools(S)
    <3>1. PICK b \in SUBSET S : b = pool.busy \ {x}
      BY <2>5
    <3>2. PICK o \in Nat : o = pool.owed - 1
      BY <2>5
    <3>3. PICK c \in Int : c = pool.crew - 1
      BY <2>5
    <3>4. then = [pool EXCEPT !.busy = b, !.owed = o, !.crew = c]
      BY <2>4, <3>1, <3>2, <3>3
    <3> QED BY <2>3, <3>4
  <2> QED BY <2>2, <2>6
<1> HIDE DEF then
<1>2. Without(pool, x, then)
  BY <1>1 DEF Without
<1>3. /\ PoolOK(then, S) /\ (Exact(pool) => Exact(then))
      /\ Cardinality(then.busy) = Cardinality(pool.busy) - 1
  BY <1>1, <1>2, PoolLoses
<1> QED BY <1>1, <1>3 DEF then

LEMMA PoolStrands ==
  ASSUME NEW S, NEW pool, NEW x, PoolOK(pool, S), x \in pool.busy
  PROVE  LET then == Net!Strand(pool, x)
         IN  /\ PoolOK(then, S) /\ then.left = pool.left /\ then.busy = pool.busy \ {x}
             /\ then.owed = pool.owed
<1> DEFINE then == Net!Strand(pool, x)
<1>0. pool \in Pools(S)
  BY DEF PoolOK
<1>1. /\ then.left = pool.left /\ then.busy = pool.busy \ {x} /\ then.owed = pool.owed
      /\ then \in Pools(S)
  <2>1. /\ pool.left \in Seq(S) /\ pool.busy \in SUBSET S /\ pool.owed \in Nat
        /\ pool.crew \in Int
    BY <1>0 DEF Pools
  <2>2. /\ then.left = pool.left /\ then.busy = pool.busy \ {x}
        /\ then.owed = pool.owed
    BY <1>0 DEF Net!Strand, Pools
  <2>3. \A b \in SUBSET S, c \in Int : [pool EXCEPT !.busy = b, !.crew = c] \in Pools(S)
    BY <1>0 DEF Pools
  <2>4. then = [pool EXCEPT !.busy = pool.busy \ {x}, !.crew = pool.crew - 1]
    BY DEF Net!Strand
  <2>5. pool.busy \ {x} \in SUBSET S /\ pool.crew - 1 \in Int
    BY <2>1
  <2>6. then \in Pools(S)
    <3>1. PICK b \in SUBSET S : b = pool.busy \ {x}
      BY <2>5
    <3>2. PICK c \in Int : c = pool.crew - 1
      BY <2>5
    <3>3. then = [pool EXCEPT !.busy = b, !.crew = c]
      BY <2>4, <3>1, <3>2
    <3> QED BY <2>3, <3>3
  <2> QED BY <2>2, <2>6
<1> HIDE DEF then
<1>2. Without(pool, x, then)
  BY <1>1 DEF Without
<1>3. PoolOK(then, S)
  BY <1>1, <1>2, PoolLoses
<1> QED BY <1>1, <1>3 DEF then

LEMMA ScanFacts ==
  /\ IsFiniteSet(Port) /\ Cardinality(Port) \in Nat /\ Net!Cardinality(Port) = Cardinality(Port)
  /\ Scale \in Nat /\ Pings \in Nat /\ Scans \in Nat /\ Fetches \in Nat /\ MaxErrors \in Nat
  /\ \A s \in HostSets : IsFiniteSet(s) /\ s \subseteq Hosts
<1>1. IsFiniteSet(Port) /\ \A s \in HostSets : IsFiniteSet(s)
  BY DesktopAssumption, FiniteIs DEF Net!ScanAssumption
<1>2. Cardinality(Port) \in Nat /\ Net!Cardinality(Port) = Cardinality(Port)
  BY <1>1, FS_CardinalityType, SizeIs
<1>3. \A s \in HostSets : s \subseteq Hosts
  BY DEF Hosts, Net!Host
<1>4. {Pings, Scans, Fetches} \subseteq Nat \ {0} /\ MaxErrors \in Nat /\ Scale \in Nat
  BY DesktopAssumption DEF Net!ScanAssumption
<1> QED BY <1>1, <1>2, <1>3, <1>4

LEMMA SubSetList ==
  ASSUME NEW T, NEW S \in SUBSET T, IsFiniteSet(S)
  PROVE  Once(Net!SetToSeq(S), T) /\ Net!ToSet(Net!SetToSeq(S)) = S
<1>1. Net!SetToSeq(S) \in Seq(S) /\ Single(Net!SetToSeq(S)) /\ Net!ToSet(Net!SetToSeq(S)) = S
  BY SetList
<1>2. Net!SetToSeq(S) \in Seq(T)
  <2>1. PICK l \in Seq(S) : l = Net!SetToSeq(S)
    BY <1>1
  <2>2. l \in Seq(T)
    OBVIOUS
  <2> QED BY <2>1, <2>2
<1> QED BY <1>1, <1>2 DEF Once

\* What InOrder keeps of a list that names nothing twice: each of them once.
LEMMA InOrderKeeps ==
  ASSUME NEW T, NEW S, NEW s, Once(s, T)
  PROVE  Once(Net!InOrder(s, S), T) /\ Net!ToSet(Net!InOrder(s, S)) \subseteq Net!ToSet(s)
<1> DEFINE places == {i \in DOMAIN s : s[i] \in S}
           before(i) == {j \in places : j <= i}
           met(i) == Cardinality(before(i))
           amount == Cardinality(places)
           rank == [i \in places |-> met(i)]
           at(n) == CHOOSE i \in places : met(i) = n
           list == [n \in 1..amount |-> s[at(n)]]
<1>1. s \in Seq(T) /\ DOMAIN s = 1..Len(s) /\ Len(s) \in Nat /\ Single(s)
  BY DEF Once
<1>2. IsFiniteSet(places) /\ places \subseteq DOMAIN s /\ places \subseteq Nat /\ amount \in Nat
  <2>1. IsFiniteSet(1..Len(s)) /\ places \in SUBSET (1..Len(s))
    BY <1>1, FS_Interval
  <2> QED BY <1>1, <2>1, FS_Subset, FS_CardinalityType
<1>3. Net!InOrder(s, S) = list
  BY Zenon DEF Net!InOrder, Net!Cardinality, Cardinality
<1>4. ASSUME NEW i \in places
      PROVE  IsFiniteSet(before(i)) /\ met(i) \in 1..amount
  <2>1. before(i) \in SUBSET places /\ i \in before(i)
    BY <1>2
  <2>2. IsFiniteSet(before(i)) /\ met(i) <= amount /\ met(i) \in Nat
    BY <1>2, <2>1, FS_Subset, FS_CardinalityType
  <2>3. met(i) # 0
    BY <2>1, <2>2, FS_EmptySet
  <2> QED BY <1>2, <2>2, <2>3
<1>5. ASSUME NEW i \in places, NEW j \in places, i < j
      PROVE  met(i) # met(j)
  <2>1. before(i) \in SUBSET before(j) /\ j \in before(j) /\ j \notin before(i)
    BY <1>2, <1>5
  <2> HIDE DEF before
  <2> QED BY <1>4, <2>1, FS_Subset
<1> HIDE DEF before, met
<1>6. rank \in Injection(places, 1..amount)
  <2>1. rank \in [places -> 1..amount]
    BY <1>4
  <2>2. ASSUME NEW i \in places, NEW j \in places, rank[i] = rank[j] PROVE i = j
    BY <1>2, <1>5, <2>2
  <2> QED BY <2>1, <2>2 DEF Injection, IsInjective
<1>7. rank \in Surjection(places, 1..amount)
  <2>1. IsFiniteSet(1..amount) /\ Cardinality(1..amount) = amount
    BY <1>2, FS_Interval
  <2> QED BY <1>6, <2>1, FS_Injection
<1>8. ASSUME NEW n \in 1..amount PROVE at(n) \in places /\ met(at(n)) = n
  <2>1. \E i \in places : met(i) = n
    BY <1>7 DEF Surjection
  <2> QED BY <2>1
<1> HIDE DEF at
<1>9. ASSUME NEW n \in 1..amount PROVE at(n) \in DOMAIN s /\ s[at(n)] \in T
  <2>1. at(n) \in 1..Len(s)
    BY <1>1, <1>2, <1>8
  <2> QED BY <1>1, <2>1
<1>10. list \in [1..amount -> T] /\ DOMAIN list = 1..amount
  BY <1>9
<1>11. list \in Seq(T)
  <2>1. amount \in Nat /\ list \in [1..amount -> T]
    BY <1>2, <1>10
  <2> HIDE DEF amount, list
  <2> QED BY <2>1
<1>12. Single(list)
  <2> SUFFICES ASSUME NEW m \in 1..amount, NEW n \in 1..amount, s[at(m)] = s[at(n)] PROVE m = n
    BY <1>10 DEF Single
  <2>1. at(m) = at(n)
    BY <1>1, <1>9 DEF Single
  <2> QED BY <1>8, <2>1
<1>13. Net!ToSet(list) \subseteq Net!ToSet(s)
  BY <1>9, <1>10 DEF Net!ToSet
<1> QED BY <1>3, <1>11, <1>12, <1>13 DEF Once

LEMMA ListsAre == ASSUME NEW s \in Net!Lists PROVE Once(s, Hosts)
<1>1. PICK S \in HostSets : s = Net!SetToSeq(S)
  BY DEF Net!Lists
<1> QED BY <1>1, ScanFacts, SubSetList

ScanSteps == {"none", "ports", "pages", "done", "lost"}
LostIn(steps) == {h \in Hosts : steps[h] = "lost"}
\* Every host of a scan has one place: queued, in work, delivered, yielded or
\* lost; steps says which.
Placed(pool, steps, got, out, all) ==
  /\ PoolOK(pool, Hosts) /\ steps \in [Hosts -> ScanSteps]
  /\ got \in Seq(Hosts) /\ out \in Seq(Hosts) /\ all \in Seq(Hosts)
  /\ \A h \in Net!ToSet(pool.left) : steps[h] = "none"
  /\ \A h \in Hosts :
       /\ h \in pool.busy <=> steps[h] \in {"ports", "pages"}
       /\ h \in Net!ToSet(got) \cup Net!ToSet(out) <=> steps[h] = "done"
       /\ h \in Net!ToSet(all) <=> h \in Net!ToSet(pool.left) \/ steps[h] # "none"
  /\ IsFiniteSet(LostIn(steps))
  /\ Len(all) = Len(pool.left) + Cardinality(pool.busy) + Len(got) + Len(out)
                  + Cardinality(LostIn(steps))

LEMMA PlacedBegins ==
  ASSUME NEW s, NEW n \in Nat, NEW steps, Once(s, Hosts), steps \in [Hosts -> ScanSteps],
         \A h \in Hosts : steps[h] = "none"
  PROVE  Placed(Net!Pool(s, n), steps, <<>>, <<>>, s)
<1> DEFINE pool == Net!Pool(s, n)
<1>1. PoolOK(pool, Hosts) /\ pool.left = s /\ pool.busy = {}
  BY PoolMade
<1>2. s \in Seq(Hosts) /\ Net!ToSet(s) \subseteq Hosts /\ Len(s) \in Nat
  BY ListFacts DEF Once
<1>3. LostIn(steps) = {} /\ IsFiniteSet({}) /\ Cardinality({}) = 0
  BY FS_EmptySet DEF LostIn
<1>4. <<>> \in Seq(Hosts) /\ Len(<<>>) = 0 /\ Net!ToSet(<<>>) = {}
  BY DEF Net!ToSet
<1> HIDE DEF pool
<1>5. PICK nil : nil = <<>>
  OBVIOUS
<1>6. nil \in Seq(Hosts) /\ Len(nil) = 0 /\ Net!ToSet(nil) = {}
  BY <1>4, <1>5
<1>7. Len(s) = Len(pool.left) + Cardinality(pool.busy) + Len(nil) + Len(nil)
                 + Cardinality(LostIn(steps))
  BY <1>1, <1>2, <1>3, <1>6
<1>8. \A h \in Hosts :
        /\ h \in pool.busy <=> steps[h] \in {"ports", "pages"}
        /\ h \in Net!ToSet(nil) \cup Net!ToSet(nil) <=> steps[h] = "done"
        /\ h \in Net!ToSet(s) <=> h \in Net!ToSet(pool.left) \/ steps[h] # "none"
  BY <1>1, <1>6
<1>9. \A h \in Net!ToSet(pool.left) : steps[h] = "none"
  BY <1>1, <1>2
<1>10. IsFiniteSet(LostIn(steps))
  BY <1>3
<1>11. Placed(pool, steps, nil, nil, s)
  BY Zenon, <1>1, <1>2, <1>6, <1>7, <1>8, <1>9, <1>10 DEF Placed
<1> QED BY <1>5, <1>11 DEF pool

LEMMA PlacedStarts ==
  ASSUME NEW pool, NEW steps, NEW got, NEW out, NEW all, NEW aim \in {"ports", "pages"},
         Placed(pool, steps, got, out, all), pool.left # <<>>
  PROVE  Placed(Net!Take(pool), [steps EXCEPT ![Head(pool.left)] = aim], got, out, all)
<1> DEFINE h == Head(pool.left)
           then == Net!Take(pool)
           next == [steps EXCEPT ![h] = aim]
<1>1. /\ PoolOK(then, Hosts) /\ h \in Hosts /\ h \in Net!ToSet(pool.left)
      /\ h \notin Net!ToSet(then.left) /\ Net!ToSet(pool.left) = {h} \cup Net!ToSet(then.left)
      /\ then.busy = pool.busy \cup {h} /\ Len(then.left) = Len(pool.left) - 1
      /\ Cardinality(then.busy) = Cardinality(pool.busy) + 1
  BY PoolTakes DEF Placed
<1>2. steps[h] = "none" /\ steps \in [Hosts -> ScanSteps]
  BY <1>1 DEF Placed
<1>3. /\ next \in [Hosts -> ScanSteps] /\ next[h] = aim
      /\ \A k \in Hosts : k # h => next[k] = steps[k]
  BY <1>1, <1>2 DEF ScanSteps
<1> HIDE DEF h, then, next
<1>4. LostIn(next) = LostIn(steps)
  BY <1>1, <1>2, <1>3 DEF LostIn
<1>5. Net!ToSet(pool.left) \subseteq Hosts
  BY ListFacts DEF Placed, PoolOK, Pools
<1>6. /\ Len(pool.left) \in Nat /\ Cardinality(pool.busy) \in Nat
      /\ Len(then.left) \in Nat /\ Cardinality(then.busy) \in Nat
  BY <1>1, PoolSizes DEF Placed
<1>7. /\ Len(got) \in Nat /\ Len(out) \in Nat /\ Cardinality(LostIn(steps)) \in Nat
  BY FS_CardinalityType DEF Placed
<1>8. \A k \in Net!ToSet(then.left) : next[k] = "none"
  BY <1>1, <1>3, <1>5 DEF Placed
<1>9. \A k \in Hosts :
        /\ k \in then.busy <=> next[k] \in {"ports", "pages"}
        /\ k \in Net!ToSet(got) \cup Net!ToSet(out) <=> next[k] = "done"
        /\ k \in Net!ToSet(all) <=> k \in Net!ToSet(then.left) \/ next[k] # "none"
  BY <1>1, <1>2, <1>3 DEF Placed
<1>10. Len(all) = Len(then.left) + Cardinality(then.busy) + Len(got) + Len(out)
                    + Cardinality(LostIn(next))
  <2> DEFINE a == Len(pool.left)
             b == Cardinality(pool.busy)
             c == Len(then.left)
             d == Cardinality(then.busy)
  <2>1. Len(all) = a + b + Len(got) + Len(out) + Cardinality(LostIn(steps))
    BY DEF Placed
  <2>2. a \in Nat /\ b \in Nat /\ c \in Nat /\ d \in Nat /\ c = a - 1 /\ d = b + 1
    BY <1>1, <1>6
  <2>3. Cardinality(LostIn(next)) = Cardinality(LostIn(steps))
    BY <1>4
  <2> HIDE DEF a, b, c, d
  <2>4. Len(all) = c + d + Len(got) + Len(out) + Cardinality(LostIn(next))
    BY <2>1, <2>2, <2>3, <1>7
  <2> QED BY <2>4 DEF c, d
<1>11. Placed(then, next, got, out, all)
  BY <1>1, <1>3, <1>4, <1>8, <1>9, <1>10 DEF Placed
<1> QED BY <1>11 DEF then, next, h

\* The worker of x is through with it and the pool goes on.
Through(pool, x, then) ==
  /\ PoolOK(then, Hosts) /\ x \in pool.busy
  /\ then.left = pool.left /\ then.busy = pool.busy \ {x}
  /\ Cardinality(then.busy) = Cardinality(pool.busy) - 1

LEMMA PlacedDelivers ==
  ASSUME NEW pool, NEW steps, NEW got, NEW out, NEW all, NEW h, NEW then,
         Placed(pool, steps, got, out, all), Through(pool, h, then)
  PROVE  Placed(then, [steps EXCEPT ![h] = "done"], Append(got, h), out, all)
<1> DEFINE next == [steps EXCEPT ![h] = "done"]
           more == Append(got, h)
<1>1. /\ h \in Hosts /\ steps \in [Hosts -> ScanSteps] /\ steps[h] \in {"ports", "pages"}
      /\ got \in Seq(Hosts)
  BY DEF Placed, PoolOK, Pools, Through
<1>2. /\ next \in [Hosts -> ScanSteps] /\ next[h] = "done"
      /\ \A k \in Hosts : k # h => next[k] = steps[k]
  BY <1>1 DEF ScanSteps
<1>3. /\ more \in Seq(Hosts) /\ Len(more) = Len(got) + 1
      /\ Net!ToSet(more) = Net!ToSet(got) \cup {h}
  BY <1>1, ListAppend
<1> HIDE DEF next, more
<1>4. LostIn(next) = LostIn(steps)
  BY <1>1, <1>2 DEF LostIn
<1>5. Net!ToSet(pool.left) \subseteq Hosts
  BY ListFacts DEF Placed, PoolOK, Pools
<1>6. /\ Len(pool.left) \in Nat /\ Cardinality(pool.busy) \in Nat /\ Cardinality(then.busy) \in Nat
  BY PoolSizes DEF Placed, Through
<1>7. /\ Len(got) \in Nat /\ Len(out) \in Nat /\ Cardinality(LostIn(steps)) \in Nat
  BY FS_CardinalityType DEF Placed
<1>8. \A k \in Net!ToSet(then.left) : next[k] = "none"
  <2>1. \A k \in Net!ToSet(pool.left) : k \in Hosts /\ steps[k] = "none" /\ k # h
    BY <1>1, <1>5 DEF Placed
  <2> QED BY <1>2, <2>1 DEF Through
<1>9. \A k \in Hosts :
        /\ k \in then.busy <=> next[k] \in {"ports", "pages"}
        /\ k \in Net!ToSet(more) \cup Net!ToSet(out) <=> next[k] = "done"
        /\ k \in Net!ToSet(all) <=> k \in Net!ToSet(then.left) \/ next[k] # "none"
  BY <1>1, <1>2, <1>3 DEF Placed, Through
<1>10. Len(all) = Len(then.left) + Cardinality(then.busy) + Len(more) + Len(out)
                    + Cardinality(LostIn(next))
  <2> DEFINE a == Len(pool.left)
             b == Cardinality(pool.busy)
             c == Len(then.left)
             d == Cardinality(then.busy)
  <2>1. Len(all) = a + b + Len(got) + Len(out) + Cardinality(LostIn(steps))
    BY DEF Placed
  <2>2. a \in Nat /\ b \in Nat /\ c = a /\ d \in Nat /\ d = b - 1
    BY <1>6 DEF Through
  <2>3. Cardinality(LostIn(next)) = Cardinality(LostIn(steps))
    BY <1>4
  <2>5. Len(more) = Len(got) + 1
    BY <1>3
  <2> HIDE DEF a, b, c, d
  <2>4. Len(all) = c + d + Len(more) + Len(out) + Cardinality(LostIn(next))
    BY <2>1, <2>2, <2>3, <2>5, <1>7
  <2> QED BY <2>4 DEF c, d
<1>11. Placed(then, next, more, out, all)
  BY <1>2, <1>3, <1>4, <1>8, <1>9, <1>10 DEF Placed, Through
<1> QED BY <1>11 DEF next, more

LEMMA PlacedLoses ==
  ASSUME NEW pool, NEW steps, NEW got, NEW out, NEW all, NEW h, NEW then,
         Placed(pool, steps, got, out, all), Through(pool, h, then)
  PROVE  Placed(then, [steps EXCEPT ![h] = "lost"], got, out, all)
<1> DEFINE next == [steps EXCEPT ![h] = "lost"]
<1>1. h \in Hosts /\ steps \in [Hosts -> ScanSteps] /\ steps[h] \in {"ports", "pages"}
  BY DEF Placed, PoolOK, Pools, Through
<1>2. /\ next \in [Hosts -> ScanSteps] /\ next[h] = "lost"
      /\ \A k \in Hosts : k # h => next[k] = steps[k]
  BY <1>1 DEF ScanSteps
<1> HIDE DEF next
<1>3. LostIn(next) = LostIn(steps) \cup {h} /\ h \notin LostIn(steps)
  BY <1>1, <1>2 DEF LostIn
<1>4. IsFiniteSet(LostIn(next)) /\ Cardinality(LostIn(next)) = Cardinality(LostIn(steps)) + 1
  BY <1>3, FS_AddElement DEF Placed
<1>5. Net!ToSet(pool.left) \subseteq Hosts
  BY ListFacts DEF Placed, PoolOK, Pools
<1>6. /\ Len(pool.left) \in Nat /\ Cardinality(pool.busy) \in Nat /\ Cardinality(then.busy) \in Nat
  BY PoolSizes DEF Placed, Through
<1>7. /\ Len(got) \in Nat /\ Len(out) \in Nat /\ Cardinality(LostIn(steps)) \in Nat
  BY FS_CardinalityType DEF Placed
<1>8. \A k \in Net!ToSet(then.left) : next[k] = "none"
  <2>1. \A k \in Net!ToSet(pool.left) : k \in Hosts /\ steps[k] = "none" /\ k # h
    BY <1>1, <1>5 DEF Placed
  <2> QED BY <1>2, <2>1 DEF Through
<1>9. \A k \in Hosts :
        /\ k \in then.busy <=> next[k] \in {"ports", "pages"}
        /\ k \in Net!ToSet(got) \cup Net!ToSet(out) <=> next[k] = "done"
        /\ k \in Net!ToSet(all) <=> k \in Net!ToSet(then.left) \/ next[k] # "none"
  BY <1>1, <1>2 DEF Placed, Through
<1>10. Len(all) = Len(then.left) + Cardinality(then.busy) + Len(got) + Len(out)
                    + Cardinality(LostIn(next))
  <2> DEFINE a == Len(pool.left)
             b == Cardinality(pool.busy)
             c == Len(then.left)
             d == Cardinality(then.busy)
  <2>1. Len(all) = a + b + Len(got) + Len(out) + Cardinality(LostIn(steps))
    BY DEF Placed
  <2>2. a \in Nat /\ b \in Nat /\ c = a /\ d \in Nat /\ d = b - 1
    BY <1>6 DEF Through
  <2>3. Cardinality(LostIn(next)) = Cardinality(LostIn(steps)) + 1
    BY <1>4
  <2> HIDE DEF a, b, c, d
  <2>4. Len(all) = c + d + Len(got) + Len(out) + Cardinality(LostIn(next))
    BY <2>1, <2>2, <2>3, <1>7
  <2> QED BY <2>4 DEF c, d
<1>11. Placed(then, next, got, out, all)
  BY <1>2, <1>4, <1>8, <1>9, <1>10 DEF Placed, Through
<1> QED BY <1>11 DEF next

LEMMA PlacedMoves ==
  ASSUME NEW pool, NEW steps, NEW got, NEW out, NEW all, NEW h \in Hosts,
         Placed(pool, steps, got, out, all), steps[h] = "ports"
  PROVE  Placed(pool, [steps EXCEPT ![h] = "pages"], got, out, all)
<1> DEFINE next == [steps EXCEPT ![h] = "pages"]
<1>1. /\ next \in [Hosts -> ScanSteps] /\ next[h] = "pages"
      /\ \A k \in Hosts : k # h => next[k] = steps[k]
  BY DEF ScanSteps, Placed
<1> HIDE DEF next
<1>2. LostIn(next) = LostIn(steps)
  BY <1>1 DEF LostIn
<1>3. Net!ToSet(pool.left) \subseteq Hosts
  BY ListFacts DEF Placed, PoolOK, Pools
<1>4. \A k \in Net!ToSet(pool.left) : next[k] = "none"
  <2>1. \A k \in Net!ToSet(pool.left) : k \in Hosts /\ steps[k] = "none" /\ k # h
    BY <1>3 DEF Placed
  <2> QED BY <1>1, <2>1
<1>5. \A k \in Hosts :
        /\ k \in pool.busy <=> next[k] \in {"ports", "pages"}
        /\ k \in Net!ToSet(got) \cup Net!ToSet(out) <=> next[k] = "done"
        /\ k \in Net!ToSet(all) <=> k \in Net!ToSet(pool.left) \/ next[k] # "none"
  BY <1>1 DEF Placed
<1>6. Placed(pool, next, got, out, all)
  BY <1>1, <1>2, <1>4, <1>5 DEF Placed
<1> QED BY <1>6 DEF next

LEMMA PlacedYields ==
  ASSUME NEW pool, NEW steps, NEW got, NEW out, NEW all,
         Placed(pool, steps, got, out, all), got # <<>>
  PROVE  Placed(pool, steps, Tail(got), Append(out, Head(got)), all)
<1> DEFINE less == Tail(got)
           more == Append(out, Head(got))
<1>1. /\ Head(got) \in Hosts /\ less \in Seq(Hosts) /\ Len(less) = Len(got) - 1
      /\ Net!ToSet(got) = {Head(got)} \cup Net!ToSet(less)
  BY ListHead DEF Placed
<1>2. /\ more \in Seq(Hosts) /\ Len(more) = Len(out) + 1
      /\ Net!ToSet(more) = Net!ToSet(out) \cup {Head(got)}
  BY <1>1, ListAppend DEF Placed
<1> HIDE DEF less, more
<1>3. Net!ToSet(less) \cup Net!ToSet(more) = Net!ToSet(got) \cup Net!ToSet(out)
  BY <1>1, <1>2
<1>4. Len(less) + Len(more) = Len(got) + Len(out) /\ Len(less) \in Nat /\ Len(more) \in Nat
      /\ Len(got) \in Nat /\ Len(out) \in Nat
  BY <1>1, <1>2 DEF Placed
<1>5. Len(pool.left) \in Nat /\ Cardinality(pool.busy) \in Nat /\ Cardinality(LostIn(steps)) \in Nat
  BY PoolSizes, FS_CardinalityType DEF Placed
<1>6. Len(all) = Len(pool.left) + Cardinality(pool.busy) + Len(less) + Len(more)
                   + Cardinality(LostIn(steps))
  <2> DEFINE a == Len(pool.left)
             b == Cardinality(pool.busy)
  <2>1. Len(all) = a + b + Len(got) + Len(out) + Cardinality(LostIn(steps))
    BY DEF Placed
  <2>2. a \in Nat /\ b \in Nat
    BY <1>5
  <2> HIDE DEF a, b
  <2>4. Len(all) = a + b + Len(less) + Len(more) + Cardinality(LostIn(steps))
    BY <2>1, <2>2, <1>4, <1>5
  <2> QED BY <2>4 DEF a, b
<1>7. Placed(pool, steps, less, more, all)
  BY <1>1, <1>2, <1>3, <1>6 DEF Placed
<1> QED BY <1>7 DEF less, more

\* Progress: of what each host counts only its ports are added up.
LEMMA Shares == ASSUME NEW q \in Nat, NEW n \in Nat \ {0}
                PROVE  q \div n \in Nat /\ (q \div n) * n <= q
<1>1. q \div n \in Int /\ n * (q \div n) <= q /\ q < n * (q \div n) + n
  OBVIOUS
<1> DEFINE d == q \div n
<1> HIDE DEF d
<1>2. d \in Int /\ n * d <= q /\ q < n * d + n
  BY <1>1 DEF d
<1>3. d >= 0
  <2> SUFFICES ASSUME d <= -1 PROVE FALSE
    BY <1>2
  <2>1. n * d + n <= 0
    BY <1>2
  <2> QED BY <1>2, <2>1
<1> QED BY <1>2, <1>3 DEF d

LEMMA Products == ASSUME NEW a \in Nat, NEW b \in Nat, NEW c \in Nat, b <= c
                  PROVE  a * b \in Nat /\ a * b <= a * c
<1>1. PICK d \in Nat : c = b + d
  BY c - b \in Nat
<1>2. a * c = a * b + a * d /\ a * d >= 0
  BY <1>1
<1> QED BY <1>2

LEMMA CountedIs ==
  ASSUME NEW s, NEW r, Once(hosts, Hosts)
  PROVE  /\ IsFiniteSet(Net!Counted(s, r)) /\ Cardinality(Net!Counted(s, r)) \in Nat
         /\ Cardinality(Net!Counted(s, r)) <= Len(hosts) * Cardinality(Port)
<1> DEFINE all == Net!ToSet(hosts)
           pairs == all \X Port
           counted == Net!Counted(s, r)
<1>1. IsFiniteSet(all) /\ Cardinality(all) <= Len(hosts) /\ Len(hosts) \in Nat
  BY ListFacts DEF Once
<1>2. IsFiniteSet(pairs) /\ Cardinality(pairs) = Cardinality(all) * Cardinality(Port)
  BY <1>1, ScanFacts, FS_Product
<1>3. counted \in SUBSET pairs
  BY DEF Net!Counted
<1> HIDE DEF all, pairs, counted
<1>4. IsFiniteSet(counted) /\ Cardinality(counted) <= Cardinality(pairs)
  BY <1>2, <1>3, FS_Subset
<1>5. Cardinality(counted) \in Nat /\ Cardinality(all) \in Nat
  BY <1>1, <1>4, FS_CardinalityType
<1>6. Cardinality(Port) * Cardinality(all) <= Cardinality(Port) * Len(hosts)
  BY <1>1, <1>5, ScanFacts, Products
<1>7. Cardinality(counted) <= Len(hosts) * Cardinality(Port)
  BY <1>1, <1>2, <1>4, <1>5, <1>6, ScanFacts
<1> QED BY <1>4, <1>5, <1>7 DEF counted

LEMMA ProgressIs ==
  ASSUME NEW s, NEW r, Once(hosts, Hosts), hosts # <<>>
  PROVE  /\ Net!Progress(s, r) \in Nat /\ Net!Whole \in Nat
         /\ Net!Progress(s, r) <= Net!Whole /\ Scale * Net!Share <= Net!Progress(s, r)
         /\ Scale * Net!Share \in Nat /\ Net!Share \in {0, 1}
<1> DEFINE n == Len(hosts)
           c == Cardinality(Net!Counted(s, r))
           p == Cardinality(Port)
           d == Scale \div n
           u == Net!Share
<1>1. n \in Nat \ {0} /\ p \in Nat /\ Scale \in Nat /\ u \in {0, 1}
  BY ScanFacts DEF Once, Net!Share
<1>2. c \in Nat /\ c <= n * p
  BY CountedIs
<1>3. d \in Nat /\ d * n <= Scale
  BY <1>1, Shares
<1>4. Net!Progress(s, r) = Scale * u + d * c /\ Net!Whole = Scale * (p + u)
  BY ScanFacts, SizeIs DEF Net!Progress, Net!Whole
<1> HIDE DEF n, c, p, d, u
<1>5. n * p \in Nat /\ d * n \in Nat /\ d * (n * p) = p * (d * n)
  BY <1>1, <1>3
<1>6. d * c \in Nat /\ d * c <= d * (n * p)
  BY <1>2, <1>3, <1>5, Products
<1>7. p * (d * n) <= p * Scale
  BY <1>1, <1>3, <1>5, Products
<1>8. Scale * (p + u) = p * Scale + Scale * u /\ Scale * u \in Nat /\ p * Scale \in Nat
  BY <1>1
<1>9. d * c <= p * Scale
  BY <1>5, <1>6, <1>7, <1>8, <1>1
<1> QED BY <1>1, <1>4, <1>6, <1>8, <1>9 DEF u

LEMMA ProgressGrows ==
  ASSUME NEW s, NEW r, NEW s2, NEW r2, Once(hosts, Hosts), hosts # <<>>,
         Net!Counted(s, r) \subseteq Net!Counted(s2, r2)
  PROVE  Net!Progress(s, r) <= Net!Progress(s2, r2)
<1> DEFINE n == Len(hosts)
           c == Cardinality(Net!Counted(s, r))
           c2 == Cardinality(Net!Counted(s2, r2))
           d == Scale \div n
           base == Scale * Net!Share
<1>1. n \in Nat \ {0} /\ Scale \in Nat /\ base \in Nat
  <2>1. n \in Nat \ {0}
    BY DEF Once
  <2>2. Net!Share \in {0, 1} /\ Scale \in Nat
    BY ScanFacts DEF Net!Share
  <2> QED BY <2>1, <2>2
<1>2. c \in Nat /\ c2 \in Nat /\ c <= c2
  BY CountedIs, FS_Subset
<1>3. d \in Nat
  BY <1>1, Shares
<1>4. Net!Progress(s, r) = base + d * c /\ Net!Progress(s2, r2) = base + d * c2
  BY SizeIs DEF Net!Progress
<1> HIDE DEF n, c, c2, d, base
<1>5. d * c \in Nat /\ d * c2 \in Nat /\ d * c <= d * c2
  BY <1>2, <1>3, Products
<1> QED BY <1>1, <1>4, <1>5

Under == scanning \in {"looping", "waiting", "joining"}
Target == IF Net!Pinging THEN Net!Chosen ELSE candidates

ScanTypes ==
  /\ scanning \in {"begin", "pinging", "looping", "waiting", "joining", "ended"}
  /\ Once(candidates, Hosts) /\ Once(active, Hosts) /\ Once(hosts, Hosts)
  /\ bar \in Nat /\ errors \in Nat
  /\ DOMAIN fetch = Hosts
  /\ todo \in [Hosts -> SUBSET Port] /\ unmarked \in [Hosts -> SUBSET Port]
  /\ ports \in [Hosts -> SUBSET Port]
\* A ping that is under way is of a host that has not answered yet; the bar
\* shows what the pool of the pings has marked, and after them nobody pings.
PingBooks ==
  /\ PoolOK(pings, Hosts)
  /\ Net!ToSet(active) \cap (Net!ToSet(pings.left) \cup pings.busy) = {}
  /\ scanning # "pinging" => pings.owed = 0
  /\ scanning = "begin" => active = <<>> /\ bar = 0
  /\ scanning = "pinging" =>
       /\ Net!Pinging /\ candidates # <<>> /\ pings.owed <= Len(candidates)
       /\ bar <= (Scale \div Len(candidates)) * (Len(candidates) - pings.owed)
\* Every host has its place, and one is lost only in a scan that is disturbed.
PlaceBooks ==
  /\ Placed(scan, stage, results, given, hosts) /\ Exact(scan)
  /\ LostIn(stage) # {} => Net!Disturbed
\* Before its ports are over no page of a host is fetched, and none afterwards.
PortBooks ==
  \A h \in Hosts :
    /\ todo[h] \subseteq unmarked[h] /\ (stage[h] # "ports" => unmarked[h] = {})
    /\ PoolOK(fetch[h], Port) /\ Exact(fetch[h]) /\ (stage[h] # "pages" => fetch[h].owed = 0)
\* What is scanned is what was chosen when the pings ended, and the loop ends
\* with the last of it.
LoopBooks ==
  /\ scanning \in {"begin", "pinging"} => hosts = <<>>
  /\ Under => hosts # <<>> /\ hosts = Target
  /\ scanning = "joining" => Len(given) = Len(hosts) \/ cancel
  /\ Net!EndIsWhole
\* The bar is not ahead of what the hosts have reported.
BarBooks == bar <= Net!Whole /\ (Under => bar <= Net!Progress(stage, todo))

ScanBooks == ScanTypes /\ PingBooks /\ PlaceBooks /\ PortBooks /\ LoopBooks /\ BarBooks

LEMMA WholeIs == Net!Whole \in Nat /\ Net!Share \in {0, 1} /\ Scale * Net!Share \in Nat
                 /\ Net!Whole = Scale * Cardinality(Port) + Scale * Net!Share
<1>1. Net!Share \in {0, 1}
  BY DEF Net!Share
<1>2. Net!Whole = Scale * (Cardinality(Port) + Net!Share)
  BY ScanFacts DEF Net!Whole
<1> QED BY <1>1, <1>2, ScanFacts

\* The books say what the run checks.
LEMMA ScanShown == ScanBooks => Net!ScanInv
<1> SUFFICES ASSUME ScanBooks PROVE Net!ScanInv
  OBVIOUS
<1>1. Placed(scan, stage, results, given, hosts) /\ Exact(scan) /\ (LostIn(stage) # {} => Net!Disturbed)
  BY DEF ScanBooks, PlaceBooks
<1>2. Net!Missing = LostIn(stage)
  BY DEF Net!Missing, LostIn, Hosts
<1>3. Net!ToSet(results \o given) = Net!ToSet(results) \cup Net!ToSet(given)
  BY <1>1, ListBoth DEF Placed
<1>4. Net!HostsKept
  <2>1. Len(hosts) = Len(scan.left) + Net!Cardinality(scan.busy) + Len(results) + Len(given)
                       + Net!Cardinality(Net!Missing)
    BY <1>1, <1>2, SizeIs DEF Placed
  <2>2. Net!ToSet(hosts) \subseteq Hosts /\ Net!ToSet(scan.left) \subseteq Hosts
        /\ scan.busy \subseteq Hosts /\ LostIn(stage) \subseteq Hosts
        /\ Net!ToSet(results) \subseteq Hosts /\ Net!ToSet(given) \subseteq Hosts
    BY <1>1, ListFacts DEF Placed, PoolOK, Pools, LostIn
  <2>3. \A h \in Hosts : h \in Net!ToSet(hosts) <=>
          \/ h \in Net!ToSet(scan.left) \/ h \in scan.busy
          \/ h \in Net!ToSet(results) \cup Net!ToSet(given) \/ h \in LostIn(stage)
    BY <1>1 DEF Placed, LostIn, ScanSteps
  <2>4. Net!ToSet(hosts) = Net!ToSet(scan.left) \cup scan.busy \cup Net!ToSet(results \o given)
                             \cup Net!Missing
    BY <1>2, <1>3, <2>2, <2>3
  <2>5. scan.owed = Len(scan.left) + Net!Cardinality(scan.busy)
    BY <1>1, SizeIs DEF Exact
  <2>6. Net!Missing # {} => Net!Disturbed
    BY <1>1, <1>2
  <2> QED BY <2>1, <2>4, <2>5, <2>6 DEF Net!HostsKept, Net!Queued
<1>5. Net!ResultsWhole
  <2> SUFFICES ASSUME NEW h \in Net!ToSet(results \o given)
               PROVE  unmarked[h] = {} /\ fetch[h].owed = 0
    BY DEF Net!ResultsWhole
  <2>1. h \in Hosts
    BY <1>1, <1>3, ListFacts DEF Placed
  <2>2. stage[h] = "done"
    BY <1>1, <1>3, <2>1 DEF Placed
  <2> QED BY <2>1, <2>2 DEF ScanBooks, PortBooks
<1>6. /\ scanning \in {"begin", "pinging", "looping", "waiting", "joining", "ended"}
      /\ bar \in 0..Net!Whole /\ Net!EndIsWhole
  BY WholeIs DEF ScanBooks, ScanTypes, LoopBooks, BarBooks
<1> QED BY <1>4, <1>5, <1>6 DEF Net!ScanInv

LEMMA ScanBegins == Net!ScanInit => ScanBooks
<1> SUFFICES ASSUME Net!ScanInit PROVE ScanBooks
  OBVIOUS
<1> USE ScanFacts DEF Net!ScanInit
<1>1. PICK nil : nil = <<>>
  OBVIOUS
<1>2. Once(nil, Hosts) /\ Once(nil, Port) /\ Len(nil) = 0 /\ Net!ToSet(nil) = {}
  BY <1>1 DEF Once, Single, Net!ToSet
<1>3. /\ pings = Net!Pool(nil, Pings) /\ active = nil /\ hosts = nil /\ scan = Net!Pool(nil, Scans)
      /\ fetch = [h \in Hosts |-> Net!Pool(nil, Fetches)] /\ results = nil /\ given = nil
      /\ stage = [h \in Hosts |-> "none"] /\ todo = [h \in Hosts |-> {}] /\ unmarked = todo /\ ports = todo
      /\ scanning = "begin" /\ bar = 0 /\ errors = 0 /\ candidates \in Net!Lists
  BY <1>1 DEF Hosts
<1>4. ScanTypes
  <2>1. Once(candidates, Hosts)
    BY <1>3, ListsAre
  <2> QED BY <1>2, <1>3, <2>1 DEF ScanTypes
<1>5. PingBooks
  <2>1. PoolOK(pings, Hosts) /\ pings.owed = 0
    BY <1>2, <1>3, PoolMade
  <2> QED BY <1>1, <1>2, <1>3, <2>1 DEF PingBooks
<1>6. PlaceBooks
  <2>1. stage \in [Hosts -> ScanSteps] /\ \A h \in Hosts : stage[h] = "none"
    BY <1>3 DEF ScanSteps
  <2>2. Placed(Net!Pool(nil, Scans), stage, <<>>, <<>>, nil)
    BY <1>2, <2>1, PlacedBegins
  <2>3. Placed(scan, stage, results, given, hosts)
    BY <1>1, <1>3, <2>2
  <2>4. Exact(scan)
    <3>1. Once(nil, Hosts)
      BY <1>2
    <3>2. Exact(Net!Pool(nil, Scans))
      BY <3>1, PoolMade
    <3> QED BY <1>3, <3>2
  <2>5. LostIn(stage) = {}
    BY <2>1 DEF LostIn
  <2> QED BY <2>3, <2>4, <2>5 DEF PlaceBooks
<1>7. PortBooks
  <2>1. /\ PoolOK(Net!Pool(nil, Fetches), Port) /\ Exact(Net!Pool(nil, Fetches))
        /\ Net!Pool(nil, Fetches).owed = 0
    BY <1>2, PoolMade
  <2> QED BY <1>3, <2>1 DEF PortBooks
<1>8. LoopBooks
  BY <1>1, <1>3 DEF LoopBooks, Under, Net!EndIsWhole
<1>9. BarBooks
  BY <1>3, WholeIs DEF BarBooks, Under
<1> QED BY <1>4, <1>5, <1>6, <1>7, <1>8, <1>9 DEF ScanBooks

LEMMA TargetSame ==
  ASSUME UNCHANGED <<mode, candidates, active>>
  PROVE  /\ Target' = Target /\ Net!Whole' = Net!Whole /\ Net!Share' = Net!Share
         /\ Net!Pinging' <=> Net!Pinging
<1>1. Net!Pinging' <=> Net!Pinging
  BY DEF Net!Pinging
<1>2. Net!Share' = Net!Share
  BY <1>1 DEF Net!Share
<1>3. Net!Chosen' = Net!Chosen
  BY DEF Net!Chosen
<1>4. Target' = Target
  BY <1>1, <1>3 DEF Target
<1>5. Net!Whole' = Net!Whole
  BY <1>2 DEF Net!Whole
<1> QED BY <1>1, <1>2, <1>4, <1>5

LEMMA PlaceFrame ==
  ASSUME PlaceBooks, UNCHANGED <<scan, stage, results, given, hosts>>,
         Net!Disturbed => Net!Disturbed'
  PROVE  PlaceBooks'
BY DEF PlaceBooks

LEMMA PortFrame == ASSUME PortBooks, UNCHANGED <<todo, unmarked, fetch, stage>> PROVE PortBooks'
BY DEF PortBooks

\* Nothing has its place before the hosts are chosen.
LEMMA NothingPlaced ==
  ASSUME ScanBooks, hosts = <<>>
  PROVE  /\ results = <<>> /\ given = <<>>
         /\ stage \in [Hosts -> ScanSteps] /\ \A h \in Hosts : stage[h] = "none"
         /\ scan.busy = {} /\ scan.left = <<>> /\ Net!Counted(stage, todo) = {}
<1>1. Placed(scan, stage, results, given, hosts)
  BY DEF ScanBooks, PlaceBooks
<1>2. Net!ToSet(hosts) = {}
  BY DEF Net!ToSet
<1>3. \A h \in Hosts : stage[h] = "none" /\ h \notin Net!ToSet(scan.left)
  BY <1>1, <1>2 DEF Placed
<1>4. \A h \in Hosts : h \notin Net!ToSet(results) /\ h \notin Net!ToSet(given) /\ h \notin scan.busy
  BY <1>1, <1>3 DEF Placed
<1>5. /\ scan.left \in Seq(Hosts) /\ results \in Seq(Hosts) /\ given \in Seq(Hosts)
      /\ scan.busy \subseteq Hosts
  BY <1>1 DEF Placed, PoolOK, Pools
<1>6. Net!ToSet(scan.left) = {} /\ Net!ToSet(results) = {} /\ Net!ToSet(given) = {}
  BY <1>3, <1>4, <1>5, ListFacts
<1>7. scan.left = <<>> /\ results = <<>> /\ given = <<>>
  BY <1>5, <1>6, ListFacts
<1>8. Net!Counted(stage, todo) = {}
  BY <1>2 DEF Net!Counted
<1> QED BY <1>1, <1>3, <1>4, <1>5, <1>7, <1>8 DEF Placed

LEMMA EndsKeep ==
  ASSUME ScanBooks, Net!Ends, pings.owed = 0,
         ~Net!Disturbed => Net!ToSet(given) = Net!ToSet(Target)
  PROVE  ScanBooks' /\ bar <= bar'
<1> USE DEF Net!Ends, Net!called, Net!pinged, Net!hostVars, Net!probed
<1>1. /\ Target' = Target /\ Net!Whole' = Net!Whole
      /\ bar' = IF dialog THEN Net!Whole ELSE bar
  BY TargetSame
<1>2. Net!Disturbed' <=> Net!Disturbed
  BY DEF Net!Disturbed
<1>3. bar \in Nat /\ bar <= Net!Whole /\ Net!Whole \in Nat
  BY WholeIs DEF ScanBooks, ScanTypes, BarBooks
<1>4. ScanTypes'
  BY <1>1, <1>3 DEF ScanBooks, ScanTypes
<1>5. PingBooks'
  BY DEF ScanBooks, PingBooks
<1>6. PlaceBooks' /\ PortBooks'
  BY <1>2, PlaceFrame, PortFrame DEF ScanBooks
<1>7. LoopBooks'
  <2>1. Net!EndIsWhole'
    <3> SUFFICES ASSUME ~Net!Disturbed'
                 PROVE  bar' = Net!Whole' /\ Net!ToSet(given') = Net!ToSet(Target')
      BY DEF Net!EndIsWhole, Target
    <3>1. dialog
      BY <1>2 DEF Net!Disturbed
    <3> QED BY <1>1, <1>2, <3>1
  <2> QED BY <2>1 DEF LoopBooks, Under
<1>8. BarBooks' /\ bar <= bar'
  BY <1>1, <1>3 DEF BarBooks, Under
<1> QED BY <1>4, <1>5, <1>6, <1>7, <1>8 DEF ScanBooks

LEMMA ScanOfKeeps ==
  ASSUME ScanBooks, NEW list, Net!ScanOf(list), list = Target, list # <<>>, Once(list, Hosts),
         scanning \in {"begin", "pinging"}, pings.owed = 0,
         bar' = Scale * Net!Share
  PROVE  ScanBooks'
<1> USE DEF Net!ScanOf, Net!called, Net!pinged, Net!probed
<1>1. /\ Target' = Target /\ Net!Whole' = Net!Whole /\ Net!Share' = Net!Share
  BY TargetSame
<1>2. hosts = <<>> /\ errors \in Nat
  BY DEF ScanBooks, LoopBooks, ScanTypes
<1>3. /\ results = <<>> /\ given = <<>>
      /\ stage \in [Hosts -> ScanSteps] /\ \A h \in Hosts : stage[h] = "none"
      /\ LostIn(stage) = {}
  BY <1>2, NothingPlaced DEF LostIn
<1>4. Scale * Net!Share \in Nat /\ Scale * Net!Share <= Net!Whole
  <2>1. Scale * Cardinality(Port) \in Nat
    BY ScanFacts
  <2> QED BY <2>1, WholeIs
<1>5. ScanTypes'
  BY <1>4 DEF ScanBooks, ScanTypes
<1>6. PingBooks'
  BY DEF ScanBooks, PingBooks
<1>7. PlaceBooks'
  <2>1. Placed(Net!Pool(list, Scans), stage, <<>>, <<>>, list)
    BY <1>3, ScanFacts, PlacedBegins
  <2>2. Placed(scan, stage, results, given, hosts)'
    BY <1>3, <2>1
  <2>3. Exact(scan)'
    <3>1. Exact(Net!Pool(list, Scans))
      BY ScanFacts, PoolMade
    <3> QED BY <3>1 DEF Exact
  <2> QED BY <1>3, <2>2, <2>3 DEF PlaceBooks, LostIn
<1>8. PortBooks'
  BY PortFrame DEF ScanBooks
<1>9. LoopBooks'
  BY <1>1 DEF LoopBooks, Under, Net!EndIsWhole
<1>10. BarBooks'
  <2>1. Once(hosts, Hosts)' /\ hosts' # <<>>
    OBVIOUS
  <2>3. Scale * Net!Share' <= Net!Progress(stage, todo)'
    <3>1. Net!Counted(stage, todo)' = {}
      BY <1>3, ListFacts DEF Net!Counted, Net!Counts, Once
    <3>2. Net!Progress(stage, todo)' = Scale * Net!Share + (Scale \div Len(list)) * 0
      BY <1>1, <3>1, SizeIs, FS_EmptySet DEF Net!Progress
    <3>3. Len(list) \in Nat \ {0}
      BY DEF Once
    <3>4. Scale \div Len(list) \in Nat
      BY <3>3, ScanFacts, Shares
    <3> QED BY <1>1, <1>4, <3>2, <3>4
  <2> QED BY <1>1, <1>4, <2>3 DEF BarBooks
<1> QED BY <1>5, <1>6, <1>7, <1>8, <1>9, <1>10 DEF ScanBooks

LEMMA ProgressSame ==
  ASSUME UNCHANGED <<hosts, mode>>
  PROVE  Net!Progress(stage, todo)' = Net!Progress(stage', todo')
BY DEF Net!Progress, Net!Counted, Net!Counts, Net!Share, Net!Pinging

HostFrame ==
  UNCHANGED <<mode, candidates, web, kept, scanning, cancel, dialog, pings, active, hosts, given>>

\* A step of the hosts' own: the bar stays or shows what they have reported.
LEMMA HostKeeps ==
  ASSUME ScanBooks, Under, HostFrame, PlaceBooks', PortBooks',
         errors' \in Nat, DOMAIN fetch' = Hosts, todo' \in [Hosts -> SUBSET Port],
         unmarked' \in [Hosts -> SUBSET Port], ports' \in [Hosts -> SUBSET Port],
         NEW s, Net!Counted(stage, todo) \subseteq Net!Counted(s, todo'),
         Net!Counted(s, todo') \subseteq Net!Counted(stage', todo'),
         bar' \in {bar, Net!Progress(s, todo')}
  PROVE  ScanBooks' /\ bar <= bar'
<1> USE DEF HostFrame
<1>1. Target' = Target /\ Net!Whole' = Net!Whole
  BY TargetSame
<1>2. Once(hosts, Hosts) /\ hosts # <<>> /\ bar \in Nat /\ bar <= Net!Progress(stage, todo)
  BY DEF ScanBooks, ScanTypes, LoopBooks, BarBooks
<1>3. /\ Net!Progress(stage, todo) <= Net!Progress(s, todo')
      /\ Net!Progress(s, todo') <= Net!Progress(stage', todo')
  BY <1>2, ProgressGrows
<1>4. /\ Net!Progress(stage, todo) \in Nat /\ Net!Progress(s, todo') \in Nat
      /\ Net!Progress(stage', todo') \in Nat /\ Net!Progress(stage', todo') <= Net!Whole
      /\ Net!Whole \in Nat
  BY <1>2, ProgressIs
<1>5. bar' \in Nat /\ bar <= bar' /\ bar' <= Net!Progress(stage', todo')
  BY <1>2, <1>3, <1>4
<1>6. BarBooks'
  BY <1>1, <1>4, <1>5, ProgressSame DEF BarBooks
<1>7. ScanTypes'
  BY <1>5 DEF ScanBooks, ScanTypes
<1>8. PingBooks'
  BY DEF ScanBooks, PingBooks, Under
<1>9. LoopBooks'
  BY <1>1 DEF ScanBooks, LoopBooks, Under, Net!EndIsWhole
<1> QED BY <1>5, <1>6, <1>7, <1>8, <1>9 DEF ScanBooks

LEMMA NothingToDoKeeps == ASSUME ScanBooks, Net!NothingToDo PROVE ScanBooks' /\ bar <= bar'
<1>1. scanning = "begin" /\ Net!Ends /\ (candidates = <<>> \/ cancel)
  BY DEF Net!NothingToDo
<1>2. active = <<>> /\ pings.owed = 0 /\ hosts = <<>>
  BY <1>1 DEF ScanBooks, PingBooks, LoopBooks
<1>3. given = <<>>
  BY <1>2, NothingPlaced
<1>4. ~Net!Disturbed => Net!ToSet(given) = Net!ToSet(Target)
  <2> SUFFICES ASSUME ~Net!Disturbed PROVE Net!ToSet(given) = Net!ToSet(Target)
    OBVIOUS
  <2>1. candidates = <<>>
    BY <1>1 DEF Net!Disturbed
  <2>2. PICK nil : nil = <<>>
    OBVIOUS
  <2>3. Net!ToSet(nil) = {} /\ IsFiniteSet({})
    BY <2>2, FS_EmptySet DEF Net!ToSet
  <2>4. Once(candidates, Hosts) /\ Net!ToSet(candidates) = {}
    BY <2>1, <2>2, <2>3 DEF Once, Single
  <2>5. Net!ToSet(Net!InOrder(candidates, Net!ToSet(active))) = {}
    BY <2>4, InOrderKeeps
  <2>6. Net!ToSet(Target) = {}
    BY <1>2, <2>1, <2>2, <2>3, <2>5 DEF Target, Net!Chosen
  <2> QED BY <1>3, <2>2, <2>3, <2>6
<1> QED BY <1>1, <1>2, <1>4, EndsKeep

\* Before the hosts are chosen nothing but the pings goes on.
LEMMA Pinged ==
  ASSUME ScanBooks, scanning \in {"begin", "pinging"}, scanning' \in {"begin", "pinging"},
         UNCHANGED <<mode, candidates, hosts, scan, todo, unmarked, ports, fetch, stage, results,
                     errors, given>>,
         Once(active', Hosts), PingBooks', bar' \in Nat, bar' <= Net!Whole,
         Net!Disturbed => Net!Disturbed'
  PROVE  ScanBooks'
<1>1. ScanTypes'
  BY DEF ScanBooks, ScanTypes
<1>2. PlaceBooks' /\ PortBooks'
  BY PlaceFrame, PortFrame DEF ScanBooks
<1>3. LoopBooks'
  BY DEF ScanBooks, LoopBooks, Under, Net!EndIsWhole
<1>4. BarBooks'
  BY DEF ScanBooks, BarBooks, Under, Net!Whole, Net!Share, Net!Pinging
<1> QED BY <1>1, <1>2, <1>3, <1>4 DEF ScanBooks

LEMMA StartPingsKeeps == ASSUME ScanBooks, Net!StartPings PROVE ScanBooks' /\ bar <= bar'
<1> USE DEF Net!StartPings, Net!called, Net!hostVars, Net!probed
<1>1. /\ active = <<>> /\ bar = 0 /\ Once(candidates, Hosts) /\ Once(active, Hosts)
      /\ Net!Pinging /\ candidates # <<>> /\ bar <= Net!Whole
  BY DEF ScanBooks, ScanTypes, PingBooks, BarBooks
<1>2. PoolOK(pings', Hosts) /\ pings'.owed = Len(candidates)
  BY <1>1, ScanFacts, PoolMade
<1>3. PingBooks'
  <2>1. Net!ToSet(active') = {}
    BY <1>1 DEF Net!ToSet
  <2>2. Len(candidates) \in Nat \ {0}
    BY <1>1 DEF Once
  <2>3. (Scale \div Len(candidates)) * (Len(candidates) - pings'.owed) = 0
    <3>1. Scale \div Len(candidates) \in Nat
      BY <2>2, ScanFacts, Shares
    <3> QED BY <1>2, <2>2, <3>1
  <2>4. Net!Pinging'
    BY <1>1 DEF Net!Pinging
  <2> QED BY <1>1, <1>2, <2>1, <2>2, <2>3, <2>4 DEF PingBooks
<1>4. Net!Disturbed => Net!Disturbed'
  BY DEF Net!Disturbed
<1> QED BY <1>1, <1>3, <1>4, Pinged

LEMMA StartGivenKeeps == ASSUME ScanBooks, Net!StartGiven PROVE ScanBooks' /\ bar <= bar'
<1> USE DEF Net!StartGiven
<1>1. /\ bar = 0 /\ bar' = bar /\ Once(candidates, Hosts) /\ pings.owed = 0
      /\ Net!Share = 0 /\ candidates # <<>> /\ Target = candidates
  BY DEF ScanBooks, ScanTypes, PingBooks, Net!Share, Target
<1>2. bar' = Scale * Net!Share
  BY <1>1, ScanFacts
<1> QED BY <1>1, <1>2, ScanOfKeeps

LEMMA PingNextKeeps == ASSUME ScanBooks, Net!PingNext PROVE ScanBooks' /\ bar <= bar'
<1> USE DEF Net!PingNext, Net!called, Net!hostVars, Net!probed
<1>1. PoolOK(pings, Hosts) /\ pings.left # <<>>
  BY DEF ScanBooks, PingBooks, Net!Offered
<1>2. scanning = "pinging"
  BY <1>1, PoolSizes DEF ScanBooks, PingBooks
<1>3. /\ PoolOK(pings', Hosts) /\ pings'.owed = pings.owed
      /\ Net!ToSet(pings'.left) \cup pings'.busy = Net!ToSet(pings.left) \cup pings.busy
  <2>1. pings' = Net!Take(pings)
    OBVIOUS
  <2> QED BY <1>1, <2>1, PoolTakes
<1>4. PingBooks'
  BY <1>2, <1>3 DEF ScanBooks, PingBooks, Net!Pinging
<1>5. Net!Disturbed => Net!Disturbed'
  BY DEF Net!Disturbed
<1>6. Once(active', Hosts) /\ bar' \in Nat /\ bar' <= Net!Whole /\ bar <= bar'
  BY DEF ScanBooks, ScanTypes, BarBooks
<1> QED BY <1>2, <1>4, <1>5, <1>6, Pinged

LEMMA PongKeeps ==
  ASSUME ScanBooks, NEW h \in Hosts, NEW answers \in BOOLEAN, Net!Pong(h, answers)
  PROVE  ScanBooks' /\ bar <= bar'
<1> USE DEF Net!Pong, Net!called, Net!hostVars, Net!probed
<1>1. PoolOK(pings, Hosts) /\ h \in pings.busy
  BY DEF ScanBooks, PingBooks
<1>2. scanning = "pinging" /\ pings.owed > 0 /\ pings.owed \in Nat
  BY <1>1, PoolSizes DEF ScanBooks, PingBooks
<1>3. /\ Net!Pinging /\ candidates # <<>> /\ pings.owed <= Len(candidates)
      /\ bar <= (Scale \div Len(candidates)) * (Len(candidates) - pings.owed)
      /\ bar \in Nat /\ bar <= Net!Whole /\ Once(active, Hosts) /\ Once(candidates, Hosts)
      /\ Net!ToSet(active) \cap (Net!ToSet(pings.left) \cup pings.busy) = {}
  BY <1>2 DEF ScanBooks, ScanTypes, PingBooks, BarBooks
<1>4. /\ PoolOK(pings', Hosts) /\ pings'.left = pings.left /\ pings'.busy = pings.busy \ {h}
      /\ pings'.owed = IF dialog THEN pings.owed - 1 ELSE pings.owed
  <2>1. CASE dialog
    <3>1. pings' = Net!Give(pings, h)
      BY <2>1
    <3> QED BY <1>1, <2>1, <3>1, PoolGives
  <2>2. CASE ~dialog
    <3>1. pings' = Net!Strand(pings, h)
      BY <2>2
    <3> QED BY <1>1, <2>2, <3>1, PoolStrands
  <2> QED BY <2>1, <2>2
<1> DEFINE n == Len(candidates)
           d == Scale \div n
<1>5. n \in Nat \ {0} /\ d \in Nat /\ d * n <= Scale
  <2>1. n \in Nat \ {0}
    BY <1>3 DEF Once
  <2> QED BY <2>1, ScanFacts, Shares
<1>6. bar' \in Nat /\ bar <= bar' /\ bar' <= d * (n - pings'.owed) /\ bar' <= Net!Whole
  <2>1. CASE ~dialog
    BY <1>3, <1>4, <2>1
  <2>2. CASE dialog
    <3>1. bar' = d * (n - pings'.owed) /\ pings'.owed = pings.owed - 1
      BY <1>4, <2>2
    <3>2. Net!Share = 1 /\ Net!Whole \in Nat /\ Scale <= Net!Whole /\ Scale \in Nat
      <4>1. Net!Share = 1
        BY <1>3 DEF Net!Share
      <4>2. Scale * Cardinality(Port) \in Nat /\ Scale \in Nat
        BY ScanFacts
      <4> QED BY <4>1, <4>2, WholeIs
    <3>3. bar <= d * (n - pings.owed) /\ n - pings.owed \in Nat
      BY <1>2, <1>3, <1>5
    <3> HIDE DEF n, d
    <3>4. PICK m \in Nat : m = n - pings.owed
      BY <3>3
    <3>5. n - pings'.owed = m + 1 /\ m + 1 <= n
      BY <1>2, <1>5, <3>1, <3>4
    <3>6. d * m \in Nat /\ d * m <= d * (m + 1) /\ d * (m + 1) \in Nat /\ d * (m + 1) <= d * n
      BY <1>5, <3>5, Products
    <3>7. d * n \in Nat
      BY <1>5
    <3>8. bar' = d * (m + 1) /\ bar <= d * m
      BY <3>1, <3>3, <3>4, <3>5
    <3> QED BY <1>3, <1>5, <3>1, <3>2, <3>6, <3>7, <3>8
  <2> QED BY <2>1, <2>2
<1>7. Once(active', Hosts) /\ Net!ToSet(active') \subseteq Net!ToSet(active) \cup {h}
  <2>1. CASE answers /\ ~cancel
    <3>1. active' = Append(active, h) /\ h \notin Net!ToSet(active)
      BY <1>1, <1>3, <2>1
    <3> QED BY <1>3, <3>1, ListAppend DEF Once
  <2>2. CASE ~(answers /\ ~cancel)
    BY <1>3, <2>2
  <2> QED BY <2>1, <2>2
<1>8. Net!ToSet(active') \cap (Net!ToSet(pings'.left) \cup pings'.busy) = {}
  <2>1. h \notin Net!ToSet(pings.left)
    BY <1>1 DEF PoolOK
  <2> QED BY <1>3, <1>4, <1>7, <2>1
<1>9. PingBooks'
  <2>1. Net!Pinging' /\ scanning' = "pinging" /\ candidates' = candidates
    BY <1>2, <1>3 DEF Net!Pinging
  <2>2. pings'.owed <= Len(candidates)
    BY <1>2, <1>3, <1>4, <1>5
  <2>3. bar' <= (Scale \div Len(candidates)) * (Len(candidates) - pings'.owed)
    BY <1>6
  <2> QED BY <1>3, <1>4, <1>8, <2>1, <2>2, <2>3 DEF PingBooks
<1>10. Net!Disturbed => Net!Disturbed'
  BY DEF Net!Disturbed
<1> QED BY <1>2, <1>6, <1>7, <1>9, <1>10, Pinged

LEMMA PingsOverKeeps == ASSUME ScanBooks, Net!PingsOver PROVE ScanBooks' /\ bar <= bar'
<1> USE DEF Net!PingsOver
<1>1. scanning = "pinging" /\ pings.owed = 0 /\ hosts = <<>>
  BY DEF Net!Joined, ScanBooks, LoopBooks
<1>2. /\ Net!Pinging /\ candidates # <<>> /\ Once(candidates, Hosts) /\ Once(active, Hosts)
      /\ bar <= (Scale \div Len(candidates)) * (Len(candidates) - 0) /\ bar \in Nat
  BY <1>1 DEF ScanBooks, ScanTypes, PingBooks
<1>3. Target = Net!Chosen /\ Net!Share = 1
  BY <1>2 DEF Target, Net!Share
<1>4. Once(Target, Hosts)
  <2>1. Once(Net!InOrder(candidates, Net!ToSet(active)), Hosts)
    BY <1>2, InOrderKeeps
  <2> QED BY <1>2, <2>1 DEF Target, Net!Chosen
<1>5. given = <<>>
  BY <1>1, NothingPlaced
<1>6. CASE Net!Ends /\ (cancel \/ ~dialog \/ Target = <<>>)
  <2>1. ~Net!Disturbed => Target = given
    BY <1>5, <1>6 DEF Net!Disturbed
  <2>2. ~Net!Disturbed => Net!ToSet(given) = Net!ToSet(Target)
    BY Zenon, <2>1
  <2> QED BY <1>1, <1>6, <2>2, EndsKeep
<1>7. CASE Target # <<>> /\ Net!ScanOf(Target) /\ bar' = Scale
  <2>1. bar' = Scale * Net!Share
    BY <1>3, <1>7, ScanFacts
  <2>2. bar <= bar'
    <3> DEFINE n == Len(candidates)
               d == Scale \div n
    <3>1. n \in Nat \ {0} /\ d \in Nat /\ d * n <= Scale
      <4>1. n \in Nat \ {0}
        BY <1>2 DEF Once
      <4> QED BY <4>1, ScanFacts, Shares
    <3>2. bar <= d * (n - 0)
      BY <1>2
    <3> HIDE DEF n, d
    <3>3. d * (n - 0) = d * n /\ d * n \in Nat
      BY <3>1
    <3> QED BY <1>2, <1>7, <3>1, <3>2, <3>3, ScanFacts
  <2> QED BY <1>1, <1>4, <1>7, <2>1, <2>2, ScanOfKeeps
<1> QED BY <1>3, <1>6, <1>7

LEMMA Hosted ==
  ASSUME ScanBooks
  PROVE  /\ Placed(scan, stage, results, given, hosts) /\ PoolOK(scan, Hosts) /\ Exact(scan)
         /\ stage \in [Hosts -> ScanSteps] /\ scan.busy \subseteq Hosts /\ DOMAIN fetch = Hosts
         /\ todo \in [Hosts -> SUBSET Port] /\ unmarked \in [Hosts -> SUBSET Port]
         /\ ports \in [Hosts -> SUBSET Port] /\ errors \in Nat
         /\ \A h \in Hosts : stage[h] # "none" \/ h \in Net!ToSet(scan.left) => Under \/ scanning = "ended"
<1>1. Placed(scan, stage, results, given, hosts) /\ Exact(scan)
  BY DEF ScanBooks, PlaceBooks
<1>2. PoolOK(scan, Hosts) /\ scan.busy \subseteq Hosts /\ stage \in [Hosts -> ScanSteps]
  BY <1>1 DEF Placed, PoolOK, Pools
<1>3. /\ todo \in [Hosts -> SUBSET Port] /\ unmarked \in [Hosts -> SUBSET Port]
      /\ ports \in [Hosts -> SUBSET Port] /\ errors \in Nat /\ DOMAIN fetch = Hosts
  BY DEF ScanBooks, ScanTypes
<1>4. \A h \in Hosts : stage[h] # "none" \/ h \in Net!ToSet(scan.left) => Under \/ scanning = "ended"
  <2> SUFFICES ASSUME NEW h \in Hosts, stage[h] # "none" \/ h \in Net!ToSet(scan.left),
                      scanning \in {"begin", "pinging"}
               PROVE  FALSE
    BY DEF ScanBooks, ScanTypes, Under
  <2>1. hosts = <<>>
    BY DEF ScanBooks, LoopBooks
  <2>2. stage[h] = "none" /\ scan.left = <<>>
    BY <2>1, NothingPlaced
  <2>3. PICK nil : nil = <<>>
    OBVIOUS
  <2>4. Net!ToSet(nil) = {}
    BY <2>3 DEF Net!ToSet
  <2> QED BY <2>2, <2>3, <2>4
<1> QED BY <1>1, <1>2, <1>3, <1>4

\* What a host's step does to its ports and pages leaves the others' alone.
LEMMA OneHost ==
  ASSUME ScanBooks, NEW h \in Hosts,
         \A k \in Hosts : k # h =>
           /\ todo'[k] = todo[k] /\ unmarked'[k] = unmarked[k] /\ stage'[k] = stage[k]
           /\ fetch'[k] = fetch[k],
         todo'[h] \subseteq unmarked'[h], stage'[h] # "ports" => unmarked'[h] = {},
         PoolOK(fetch'[h], Port), Exact(fetch'[h]), stage'[h] # "pages" => fetch'[h].owed = 0
  PROVE  PortBooks'
<1> SUFFICES ASSUME NEW k \in Hosts
             PROVE  /\ todo'[k] \subseteq unmarked'[k] /\ (stage'[k] # "ports" => unmarked'[k] = {})
                    /\ PoolOK(fetch'[k], Port) /\ Exact(fetch'[k])
                    /\ (stage'[k] # "pages" => fetch'[k].owed = 0)
  BY DEF PortBooks
<1>1. CASE k = h
  BY <1>1
<1>2. CASE k # h
  BY <1>2 DEF ScanBooks, PortBooks
<1> QED BY <1>1, <1>2

LEMMA DeliveredPlaces ==
  ASSUME ScanBooks, NEW h \in scan.busy, Net!Delivered(h), UNCHANGED <<hosts, given>>,
         Net!Disturbed => Net!Disturbed', cancel => Net!Disturbed'
  PROVE  PlaceBooks' /\ h \in Hosts /\ stage'[h] \in {"done", "lost"}
         /\ \A k \in Hosts : k # h => stage'[k] = stage[k]
<1> USE DEF Net!Delivered
<1>1. /\ Placed(scan, stage, results, given, hosts) /\ PoolOK(scan, Hosts) /\ Exact(scan)
      /\ h \in Hosts /\ stage \in [Hosts -> ScanSteps]
  BY Hosted
<1>2. scan' = Net!Give(scan, h)
  OBVIOUS
<1>3. Through(scan, h, scan') /\ Exact(scan')
  BY <1>1, <1>2, PoolGives DEF Through
<1>4. \A k \in Hosts : k # h => stage'[k] = stage[k]
  BY <1>1
<1>5. CASE cancel
  <2>1. stage' = [stage EXCEPT ![h] = "lost"] /\ results' = results
    BY <1>5
  <2>2. Placed(scan', [stage EXCEPT ![h] = "lost"], results, given, hosts)
    BY <1>1, <1>3, PlacedLoses
  <2>3. Placed(scan', stage', results', given', hosts')
    BY <2>1, <2>2
  <2> QED BY <1>1, <1>3, <1>4, <1>5, <2>1, <2>3 DEF PlaceBooks
<1>6. CASE ~cancel
  <2>1. stage' = [stage EXCEPT ![h] = "done"] /\ results' = Append(results, h)
    BY <1>6
  <2>2. Placed(scan', [stage EXCEPT ![h] = "done"], Append(results, h), given, hosts)
    BY <1>1, <1>3, PlacedDelivers
  <2>3. Placed(scan', stage', results', given', hosts')
    BY <2>1, <2>2
  <2>4. LostIn(stage') \subseteq LostIn(stage)
    BY <1>1, <1>4, <2>1 DEF LostIn
  <2>5. LostIn(stage') # {} => Net!Disturbed'
    BY <2>4 DEF ScanBooks, PlaceBooks
  <2> QED BY <1>1, <1>3, <1>4, <2>1, <2>3, <2>5 DEF PlaceBooks
<1> QED BY <1>5, <1>6

LEMMA LostPlaces ==
  ASSUME ScanBooks, NEW h \in scan.busy, Net!Lost(h), UNCHANGED <<hosts, given>>, Net!Disturbed'
  PROVE  PlaceBooks' /\ h \in Hosts /\ stage'[h] = "lost"
         /\ \A k \in Hosts : k # h => stage'[k] = stage[k]
<1> USE DEF Net!Lost
<1>1. /\ Placed(scan, stage, results, given, hosts) /\ PoolOK(scan, Hosts) /\ Exact(scan)
      /\ h \in Hosts /\ stage \in [Hosts -> ScanSteps]
  BY Hosted
<1>2. scan' = Net!Lose(scan, h)
  OBVIOUS
<1>3. Through(scan, h, scan') /\ Exact(scan')
  <2> DEFINE then == Net!Lose(scan, h)
  <2>1. /\ PoolOK(then, Hosts) /\ then.left = scan.left /\ then.busy = scan.busy \ {h}
        /\ Cardinality(then.busy) = Cardinality(scan.busy) - 1
    <3>1. PoolOK(scan, Hosts) /\ h \in scan.busy
      BY <1>1
    <3> QED BY <3>1, PoolDrops
  <2>3. Exact(then)
    <3>1. PoolOK(scan, Hosts) /\ h \in scan.busy /\ Exact(scan)
      BY <1>1
    <3> QED BY <3>1, PoolDrops
  <2> HIDE DEF then
  <2>2. Through(scan, h, then)
    BY <2>1 DEF Through
  <2> QED BY <1>2, <2>2, <2>3 DEF then
<1>4. Placed(scan', [stage EXCEPT ![h] = "lost"], results, given, hosts)
  BY <1>1, <1>3, PlacedLoses
<1>5. Placed(scan', stage', results', given', hosts')
  BY <1>4
<1> QED BY <1>1, <1>3, <1>5 DEF PlaceBooks

LEMMA TakeHostKeeps == ASSUME ScanBooks, Net!TakeHost PROVE ScanBooks' /\ bar <= bar'
<1> USE DEF Net!TakeHost, Net!called, Net!pinged
<1> DEFINE h == Head(scan.left)
<1>1. /\ Placed(scan, stage, results, given, hosts) /\ PoolOK(scan, Hosts) /\ Exact(scan)
      /\ stage \in [Hosts -> ScanSteps] /\ scan.left # <<>> /\ Under
      /\ todo \in [Hosts -> SUBSET Port] /\ unmarked \in [Hosts -> SUBSET Port]
      /\ ports \in [Hosts -> SUBSET Port] /\ errors \in Nat /\ DOMAIN fetch = Hosts
  BY Hosted DEF Net!Offered, Under
<1>2. /\ scan' = Net!Take(scan) /\ stage' = [stage EXCEPT ![h] = "ports"]
      /\ todo' = [todo EXCEPT ![h] = Port] /\ unmarked' = [unmarked EXCEPT ![h] = Port]
  OBVIOUS
<1>3. h \in Hosts /\ h \in Net!ToSet(scan.left) /\ Exact(scan')
  BY <1>1, <1>2, PoolTakes
<1>4. stage[h] = "none"
  BY <1>1, <1>3 DEF Placed
<1>5. Placed(Net!Take(scan), [stage EXCEPT ![h] = "ports"], results, given, hosts)
  BY <1>1, PlacedStarts
<1> HIDE DEF h
<1>6. /\ stage'[h] = "ports" /\ todo'[h] = Port /\ unmarked'[h] = Port
      /\ \A k \in Hosts : k # h =>
           stage'[k] = stage[k] /\ todo'[k] = todo[k] /\ unmarked'[k] = unmarked[k]
  BY <1>1, <1>2, <1>3
<1>7. PlaceBooks'
  <2>1. Placed(scan', stage', results', given', hosts')
    BY <1>2, <1>5
  <2>2. LostIn(stage') = LostIn(stage)
    BY <1>1, <1>4, <1>6 DEF LostIn
  <2>3. Net!Disturbed => Net!Disturbed'
    BY DEF Net!Disturbed
  <2> QED BY <1>3, <2>1, <2>2, <2>3 DEF ScanBooks, PlaceBooks
<1>8. PortBooks'
  <2>1. PoolOK(fetch[h], Port) /\ Exact(fetch[h]) /\ fetch[h].owed = 0
    BY <1>3, <1>4 DEF ScanBooks, PortBooks
  <2> QED BY <1>3, <1>6, <2>1, OneHost
<1>9. Net!Counted(stage, todo) \subseteq Net!Counted(stage', todo')
  <2>1. Net!ToSet(hosts) \subseteq Hosts
    BY <1>1, ListFacts DEF Placed
  <2> SUFFICES ASSUME NEW x \in Net!Counted(stage, todo) PROVE x \in Net!Counted(stage', todo')
    OBVIOUS
  <2>2. x \in Net!ToSet(hosts) \X Port /\ Net!Counts(stage, todo, x[1], x[2]) /\ x[1] \in Hosts
    BY <2>1 DEF Net!Counted
  <2>3. x[1] # h
    BY <1>4, <2>2 DEF Net!Counts
  <2>4. Net!Counts(stage', todo', x[1], x[2])
    BY <1>6, <2>2, <2>3 DEF Net!Counts
  <2>5. hosts' = hosts
    OBVIOUS
  <2> QED BY <2>2, <2>4 DEF Net!Counted
<1>10. todo' \in [Hosts -> SUBSET Port] /\ unmarked' \in [Hosts -> SUBSET Port]
  <2>1. \A f \in [Hosts -> SUBSET Port], all \in SUBSET Port :
          [f EXCEPT ![h] = all] \in [Hosts -> SUBSET Port]
    OBVIOUS
  <2>2. Port \in SUBSET Port
    OBVIOUS
  <2>3. [todo EXCEPT ![h] = Port] \in [Hosts -> SUBSET Port]
    <3>1. todo \in [Hosts -> SUBSET Port]
      BY <1>1
    <3> QED BY <2>1, <2>2, <3>1
  <2>4. [unmarked EXCEPT ![h] = Port] \in [Hosts -> SUBSET Port]
    <3>1. unmarked \in [Hosts -> SUBSET Port]
      BY <1>1
    <3> QED BY <2>1, <2>2, <3>1
  <2> QED BY <1>2, <2>3, <2>4
<1> QED BY <1>1, <1>7, <1>8, <1>9, <1>10, HostKeeps DEF HostFrame

\* A host that was not counted, or counted in part, counts in full from now on.
LEMMA CountsMore ==
  ASSUME Net!ToSet(hosts) \subseteq Hosts, NEW s, NEW s2, NEW r, NEW h, s2[h] \notin {"none", "ports"},
         \A k \in Hosts : k # h => s2[k] = s[k]
  PROVE  Net!Counted(s, r) \subseteq Net!Counted(s2, r)
<1> SUFFICES ASSUME NEW x \in Net!Counted(s, r) PROVE x \in Net!Counted(s2, r)
  OBVIOUS
<1>1. x \in Net!ToSet(hosts) \X Port /\ Net!Counts(s, r, x[1], x[2]) /\ x[1] \in Hosts
  BY DEF Net!Counted
<1>2. Net!Counts(s2, r, x[1], x[2])
  BY <1>1 DEF Net!Counts
<1> QED BY <1>1, <1>2 DEF Net!Counted

LEMMA TakeKeptKeeps == ASSUME ScanBooks, Net!TakeKept PROVE ScanBooks' /\ bar <= bar'
<1> USE DEF Net!called, Net!pinged
<1> DEFINE h == Head(scan.left)
           taken == Net!Take(scan)
           busy2 == [stage EXCEPT ![h] = "pages"]
<1>1. PICK found \in SUBSET Port :
        /\ IF dialog THEN bar' = Net!Progress([stage EXCEPT ![h] = "done"], todo) ELSE UNCHANGED bar
        /\ \/ /\ ~dialog
              /\ scan' = Net!Lose(taken, h) /\ stage' = [stage EXCEPT ![h] = "lost"]
              /\ UNCHANGED <<ports, fetch, results>>
           \/ /\ dialog /\ web
              /\ ports' = [ports EXCEPT ![h] = found]
              /\ fetch' = [fetch EXCEPT ![h] = Net!Pool(Net!SetToSeq(found), Fetches)]
              /\ scan' = taken /\ stage' = [stage EXCEPT ![h] = "pages"] /\ UNCHANGED results
           \/ /\ dialog /\ ~web
              /\ ports' = [ports EXCEPT ![h] = found]
              /\ scan' = Net!Give(taken, h) /\ stage' = [stage EXCEPT ![h] = "done"]
              /\ results' = Append(results, h) /\ UNCHANGED fetch
  BY DEF Net!TakeKept
<1>2. /\ Placed(scan, stage, results, given, hosts) /\ PoolOK(scan, Hosts) /\ Exact(scan)
      /\ stage \in [Hosts -> ScanSteps] /\ scan.left # <<>> /\ Under
      /\ todo \in [Hosts -> SUBSET Port] /\ unmarked \in [Hosts -> SUBSET Port]
      /\ ports \in [Hosts -> SUBSET Port] /\ errors \in Nat /\ DOMAIN fetch = Hosts
  BY Hosted DEF Net!Offered, Under, Net!TakeKept
<1>3. HostFrame /\ UNCHANGED <<todo, unmarked, errors>>
  BY DEF Net!TakeKept, HostFrame
<1>4. /\ h \in Hosts /\ h \in Net!ToSet(scan.left) /\ PoolOK(taken, Hosts) /\ Exact(taken)
      /\ h \in taken.busy
  <2>1. /\ h \in Hosts /\ h \in Net!ToSet(scan.left) /\ taken.busy = scan.busy \cup {h}
    BY <1>2, PoolTakes
  <2>2. PoolOK(taken, Hosts) /\ Exact(taken)
    BY <1>2, PoolTakes
  <2> QED BY <2>1, <2>2
<1>5. stage[h] = "none"
  BY <1>2, <1>4 DEF Placed
<1>6. Placed(taken, busy2, results, given, hosts)
  BY <1>2, PlacedStarts
<1> HIDE DEF h, taken
<1>7. \A aim : /\ [stage EXCEPT ![h] = aim][h] = aim
               /\ [busy2 EXCEPT ![h] = aim] = [stage EXCEPT ![h] = aim]
               /\ \A k \in Hosts : k # h => [stage EXCEPT ![h] = aim][k] = stage[k]
  BY <1>2, <1>4
<1> HIDE DEF busy2
<1>8. Net!Disturbed => Net!Disturbed'
  BY <1>3 DEF Net!Disturbed, HostFrame
<1>9. PoolOK(fetch[h], Port) /\ Exact(fetch[h]) /\ fetch[h].owed = 0 /\ todo[h] = {} /\ unmarked[h] = {}
  BY <1>2, <1>4, <1>5 DEF ScanBooks, PortBooks
<1>10. Net!ToSet(hosts) \subseteq Hosts
  BY <1>2, ListFacts DEF Placed
<1>11. PlaceBooks'
  <2>1. \A aim : aim # "lost" => LostIn([stage EXCEPT ![h] = aim]) \subseteq LostIn(stage)
    BY <1>2, <1>4, <1>7 DEF LostIn
  <2>2. \/ Placed(scan', stage', results', given, hosts) /\ Exact(scan')
           /\ (LostIn(stage') # {} => Net!Disturbed')
    <3>1. CASE ~dialog /\ scan' = Net!Lose(taken, h) /\ stage' = [stage EXCEPT ![h] = "lost"]
               /\ results' = results
      <4>1. Through(taken, h, scan') /\ Exact(scan')
        BY <1>4, <3>1, PoolDrops DEF Through
      <4>2. Placed(scan', [busy2 EXCEPT ![h] = "lost"], results, given, hosts)
        BY <1>6, <4>1, PlacedLoses
      <4>3. Placed(scan', stage', results', given, hosts)
        BY <1>7, <3>1, <4>2
      <4>4. Net!Disturbed'
        BY <1>3, <3>1 DEF HostFrame, Net!Disturbed
      <4> QED BY <4>1, <4>3, <4>4
    <3>2. CASE scan' = taken /\ stage' = [stage EXCEPT ![h] = "pages"] /\ results' = results
      <4>1. Placed(scan', stage', results', given, hosts)
        BY <1>6, <3>2 DEF busy2
      <4>2. LostIn(stage') \subseteq LostIn(stage)
        BY <2>1, <3>2
      <4> QED BY <1>4, <1>8, <3>2, <4>1, <4>2 DEF ScanBooks, PlaceBooks
    <3>3. CASE scan' = Net!Give(taken, h) /\ stage' = [stage EXCEPT ![h] = "done"]
               /\ results' = Append(results, h)
      <4>1. Through(taken, h, scan') /\ Exact(scan')
        BY <1>4, <3>3, PoolGives DEF Through
      <4>2. Placed(scan', [busy2 EXCEPT ![h] = "done"], Append(results, h), given, hosts)
        BY <1>6, <4>1, PlacedDelivers
      <4>3. Placed(scan', stage', results', given, hosts)
        BY <1>7, <3>3, <4>2
      <4>4. LostIn(stage') \subseteq LostIn(stage)
        BY <2>1, <3>3
      <4> QED BY <1>8, <4>1, <4>3, <4>4 DEF ScanBooks, PlaceBooks
    <3> QED BY <1>1, <3>1, <3>2, <3>3
  <2>3. given' = given /\ hosts' = hosts
    BY <1>3 DEF HostFrame
  <2> QED BY <2>2, <2>3 DEF PlaceBooks
<1>12. stage'[h] \in {"pages", "done", "lost"} /\ \A k \in Hosts : k # h => stage'[k] = stage[k]
  BY <1>1, <1>7
<1>13. /\ PoolOK(fetch'[h], Port) /\ Exact(fetch'[h]) /\ (stage'[h] # "pages" => fetch'[h].owed = 0)
       /\ DOMAIN fetch' = Hosts /\ \A k \in Hosts : k # h => fetch'[k] = fetch[k]
  <2>1. CASE fetch' = [fetch EXCEPT ![h] = Net!Pool(Net!SetToSeq(found), Fetches)]
             /\ stage' = [stage EXCEPT ![h] = "pages"]
    <3>1. Once(Net!SetToSeq(found), Port)
      BY ScanFacts, FS_Subset, SubSetList
    <3>2. PoolOK(Net!Pool(Net!SetToSeq(found), Fetches), Port)
          /\ Exact(Net!Pool(Net!SetToSeq(found), Fetches))
      BY <3>1, ScanFacts, PoolMade
    <3> QED BY <1>2, <1>4, <1>7, <2>1, <3>2
  <2>2. CASE fetch' = fetch
    BY <1>2, <1>9, <2>2
  <2> QED BY <1>1, <2>1, <2>2
<1>14. PortBooks'
  BY <1>3, <1>4, <1>9, <1>12, <1>13, OneHost
<1>15. ports' \in [Hosts -> SUBSET Port]
  BY <1>1, <1>2
<1> DEFINE s == [stage EXCEPT ![h] = "done"]
<1>16. s[h] = "done" /\ \A k \in Hosts : k # h => s[k] = stage[k]
  BY <1>7
<1> HIDE DEF s
<1>17. Net!Counted(stage, todo) \subseteq Net!Counted(s, todo')
  BY <1>3, <1>10, <1>16, CountsMore
<1>18. Net!Counted(s, todo') \subseteq Net!Counted(stage', todo')
  BY <1>3, <1>10, <1>12, <1>16, CountsMore
<1>19. bar' \in {bar, Net!Progress(s, todo')}
  BY <1>1, <1>3 DEF s
<1>20. errors' \in Nat /\ todo' \in [Hosts -> SUBSET Port] /\ unmarked' \in [Hosts -> SUBSET Port]
  BY <1>2, <1>3
<1> QED BY <1>2, <1>3, <1>11, <1>13, <1>14, <1>15, <1>17, <1>18, <1>19, <1>20, HostKeeps

LEMMA PortAnswersKeeps ==
  ASSUME ScanBooks, NEW h \in Hosts, NEW port \in Port, NEW isOpen \in BOOLEAN,
         Net!PortAnswers(h, port, isOpen)
  PROVE  ScanBooks' /\ bar <= bar'
<1> USE DEF Net!PortAnswers, Net!called, Net!pinged
<1>1. /\ Placed(scan, stage, results, given, hosts)
      /\ stage \in [Hosts -> ScanSteps] /\ DOMAIN fetch = Hosts
      /\ todo \in [Hosts -> SUBSET Port] /\ unmarked \in [Hosts -> SUBSET Port]
      /\ ports \in [Hosts -> SUBSET Port] /\ errors \in Nat
  BY Hosted
<1>2. port \in todo[h] /\ port \in unmarked[h] /\ stage[h] = "ports"
  BY DEF ScanBooks, PortBooks
<1>3. Under
  BY <1>2, Hosted DEF Net!Going
<1>4. todo' \in [Hosts -> SUBSET Port] /\ todo'[h] = todo[h] \ {port}
      /\ \A k \in Hosts : k # h => todo'[k] = todo[k]
  BY <1>1
<1>5. unmarked' \in [Hosts -> SUBSET Port] /\ unmarked'[h] \in {unmarked[h], unmarked[h] \ {port}}
      /\ \A k \in Hosts : k # h => unmarked'[k] = unmarked[k]
  <2>1. CASE dialog
    BY <1>1, <2>1
  <2>2. CASE ~dialog
    BY <1>1, <2>2
  <2> QED BY <2>1, <2>2
<1>6. ports' \in [Hosts -> SUBSET Port]
  <2>1. CASE isOpen
    <3>1. ports' = [ports EXCEPT ![h] = ports[h] \cup {port}] /\ ports[h] \cup {port} \in SUBSET Port
      BY <1>1, <2>1
    <3> QED BY <1>1, <3>1
  <2>2. CASE ~isOpen
    BY <1>1, <2>2
  <2> QED BY <2>1, <2>2
<1>7. PlaceBooks'
  BY PlaceFrame DEF ScanBooks, Net!Disturbed
<1>8. PortBooks'
  <2>1. PoolOK(fetch[h], Port) /\ Exact(fetch[h]) /\ fetch[h].owed = 0 /\ todo[h] \subseteq unmarked[h]
    BY <1>2 DEF ScanBooks, PortBooks
  <2>2. todo'[h] \subseteq unmarked'[h]
    BY <1>4, <1>5, <2>1
  <2> QED BY <1>2, <1>4, <1>5, <2>1, <2>2, OneHost
<1>9. Net!ToSet(hosts) \subseteq Hosts
  BY <1>1, ListFacts DEF Placed
<1>10. Net!Counted(stage, todo) \subseteq Net!Counted(stage, todo')
  <2> SUFFICES ASSUME NEW x \in Net!Counted(stage, todo) PROVE x \in Net!Counted(stage, todo')
    OBVIOUS
  <2>1. x \in Net!ToSet(hosts) \X Port /\ Net!Counts(stage, todo, x[1], x[2]) /\ x[1] \in Hosts
    BY <1>9 DEF Net!Counted
  <2>2. todo'[x[1]] \subseteq todo[x[1]]
    BY <1>4, <2>1
  <2>3. Net!Counts(stage, todo', x[1], x[2])
    BY <2>1, <2>2 DEF Net!Counts
  <2> QED BY <2>1, <2>3 DEF Net!Counted
<1>11. /\ Net!Counted(stage, todo') \subseteq Net!Counted(stage', todo')
       /\ bar' \in {bar, Net!Progress(stage, todo')}
  <2>1. stage' = stage
    OBVIOUS
  <2> QED BY <2>1
<1>12. HostFrame /\ errors' \in Nat /\ DOMAIN fetch' = Hosts
  BY <1>1 DEF HostFrame
<1> QED BY <1>3, <1>4, <1>5, <1>6, <1>7, <1>8, <1>10, <1>11, <1>12, HostKeeps

LEMMA PortsOverKeeps ==
  ASSUME ScanBooks, NEW h \in Hosts, Net!PortsOver(h)
  PROVE  ScanBooks' /\ bar <= bar'
<1> USE DEF Net!called, Net!pinged, Net!probed
<1>1. /\ Placed(scan, stage, results, given, hosts) /\ PoolOK(scan, Hosts) /\ Exact(scan)
      /\ stage \in [Hosts -> ScanSteps] /\ DOMAIN fetch = Hosts
      /\ todo \in [Hosts -> SUBSET Port] /\ unmarked \in [Hosts -> SUBSET Port]
      /\ ports \in [Hosts -> SUBSET Port] /\ errors \in Nat
  BY Hosted
<1>2. stage[h] = "ports" /\ unmarked[h] = {} /\ Net!Going
  BY DEF Net!PortsOver
<1>3. Under /\ h \in scan.busy
  BY <1>1, <1>2, Hosted DEF Net!Going, Placed
<1>4. HostFrame /\ UNCHANGED <<todo, unmarked, ports>>
  BY DEF Net!PortsOver, HostFrame
<1>5. PoolOK(fetch[h], Port) /\ Exact(fetch[h]) /\ fetch[h].owed = 0 /\ todo[h] = {}
  BY <1>2 DEF ScanBooks, PortBooks
<1>6. /\ PlaceBooks' /\ stage'[h] \in {"pages", "done", "lost"} /\ errors' \in Nat
      /\ \A k \in Hosts : k # h => stage'[k] = stage[k] /\ fetch'[k] = fetch[k]
      /\ PoolOK(fetch'[h], Port) /\ Exact(fetch'[h]) /\ DOMAIN fetch' = Hosts
      /\ (stage'[h] # "pages" => fetch'[h].owed = 0)
  <2>1. CASE Net!Lost(h) /\ fetch' = fetch /\ errors' \in Nat /\ Net!Disturbed'
    <3>1. PlaceBooks' /\ stage'[h] = "lost" /\ \A k \in Hosts : k # h => stage'[k] = stage[k]
      BY <1>3, <1>4, <2>1, LostPlaces DEF HostFrame
    <3> QED BY <1>1, <1>5, <2>1, <3>1
  <2>2. CASE Net!AfterPorts(h) /\ web /\ errors' = errors
    <3>1. /\ fetch' = [fetch EXCEPT ![h] = Net!Pool(Net!SetToSeq(ports[h]), Fetches)]
          /\ stage' = [stage EXCEPT ![h] = "pages"] /\ UNCHANGED <<scan, results>>
      BY <2>2 DEF Net!AfterPorts
    <3>2. Once(Net!SetToSeq(ports[h]), Port)
      <4>1. ports[h] \in SUBSET Port
        BY <1>1
      <4>2. IsFiniteSet(ports[h])
        BY <4>1, ScanFacts, FS_Subset
      <4> QED BY <4>1, <4>2, SubSetList
    <3>3. /\ PoolOK(Net!Pool(Net!SetToSeq(ports[h]), Fetches), Port)
          /\ Exact(Net!Pool(Net!SetToSeq(ports[h]), Fetches))
      BY <3>2, ScanFacts, PoolMade
    <3>4. PoolOK(fetch'[h], Port) /\ Exact(fetch'[h]) /\ DOMAIN fetch' = Hosts
          /\ \A k \in Hosts : k # h => fetch'[k] = fetch[k]
      BY <1>1, <3>1, <3>3
    <3>5. stage'[h] = "pages" /\ \A k \in Hosts : k # h => stage'[k] = stage[k]
      BY <1>1, <3>1
    <3>6. Placed(scan, [stage EXCEPT ![h] = "pages"], results, given, hosts)
      BY <1>1, <1>2, PlacedMoves
    <3>7. Placed(scan', stage', results', given', hosts')
      BY <1>4, <3>1, <3>6 DEF HostFrame
    <3>8. LostIn(stage') \subseteq LostIn(stage)
      BY <3>5 DEF LostIn
    <3>9. Net!Disturbed => Net!Disturbed'
      BY <1>4, <2>2 DEF HostFrame, Net!Disturbed
    <3>10. PlaceBooks'
      BY <1>1, <3>1, <3>7, <3>8, <3>9 DEF ScanBooks, PlaceBooks
    <3> QED BY <1>1, <2>2, <3>4, <3>5, <3>10
  <2>3. CASE Net!AfterPorts(h) /\ ~web /\ errors' = errors
    <3>1. Net!Delivered(h) /\ fetch' = fetch
      BY <2>3 DEF Net!AfterPorts
    <3>2. (Net!Disturbed => Net!Disturbed') /\ (cancel => Net!Disturbed')
      BY <1>4, <2>3 DEF HostFrame, Net!Disturbed
    <3>3. hosts' = hosts /\ given' = given
      BY <1>4 DEF HostFrame
    <3>4. PlaceBooks' /\ stage'[h] \in {"done", "lost"} /\ \A k \in Hosts : k # h => stage'[k] = stage[k]
      BY <1>3, <3>1, <3>2, <3>3, DeliveredPlaces
    <3> QED BY <1>1, <1>5, <2>3, <3>1, <3>4
  <2>4. \/ Net!AfterPorts(h) /\ errors' = errors
        \/ Net!Lost(h) /\ fetch' = fetch /\ errors' \in Nat /\ Net!Disturbed'
    <3>1. CASE dialog /\ Net!AfterPorts(h) /\ UNCHANGED errors
      BY <3>1
    <3>2. CASE dialog /\ Net!CacheRaises /\ Net!Lost(h) /\ UNCHANGED fetch
      BY <1>1, <3>2 DEF Net!CacheRaises, Net!Disturbed
    <3>3. CASE ~dialog /\ Net!Lost(h) /\ UNCHANGED <<fetch, errors>>
      BY <1>1, <1>4, <3>3 DEF HostFrame, Net!Disturbed
    <3> QED BY <3>1, <3>2, <3>3 DEF Net!PortsOver
  <2> QED BY <2>1, <2>2, <2>3, <2>4
<1>7. PortBooks'
  BY <1>2, <1>4, <1>5, <1>6, OneHost
<1>8. Net!ToSet(hosts) \subseteq Hosts
  BY <1>1, ListFacts DEF Placed
<1> DEFINE s == [stage EXCEPT ![h] = "done"]
<1>9. s[h] = "done" /\ \A k \in Hosts : k # h => s[k] = stage[k]
  BY <1>1
<1>10. bar' \in {bar, Net!Progress(s, todo')}
  BY <1>4 DEF Net!PortsOver
<1> HIDE DEF s
<1>11. Net!Counted(stage, todo) \subseteq Net!Counted(s, todo')
  BY <1>4, <1>8, <1>9, CountsMore
<1>12. Net!Counted(s, todo') \subseteq Net!Counted(stage', todo')
  <2>1. stage'[h] \notin {"none", "ports"} /\ \A k \in Hosts : k # h => stage'[k] = s[k]
    BY <1>6, <1>9
  <2> QED BY <1>8, <2>1, CountsMore
<1>13. todo' \in [Hosts -> SUBSET Port] /\ unmarked' \in [Hosts -> SUBSET Port]
       /\ ports' \in [Hosts -> SUBSET Port]
  BY <1>1, <1>4
<1> QED BY <1>3, <1>4, <1>6, <1>7, <1>10, <1>11, <1>12, <1>13, HostKeeps

LEMMA PagesKeep ==
  ASSUME ScanBooks, NEW h \in Hosts,
         Net!FetchNext(h) \/ \E port \in Port : Net!Fetched(h, port)
  PROVE  ScanBooks' /\ bar <= bar'
<1> USE DEF Net!called, Net!pinged, Net!probed
<1>1. /\ Placed(scan, stage, results, given, hosts)
      /\ stage \in [Hosts -> ScanSteps] /\ DOMAIN fetch = Hosts
      /\ todo \in [Hosts -> SUBSET Port] /\ unmarked \in [Hosts -> SUBSET Port]
      /\ ports \in [Hosts -> SUBSET Port] /\ errors \in Nat
  BY Hosted
<1>2. /\ PoolOK(fetch[h], Port) /\ Exact(fetch[h]) /\ todo[h] \subseteq unmarked[h]
      /\ (stage[h] # "ports" => unmarked[h] = {}) /\ (stage[h] # "pages" => fetch[h].owed = 0)
  BY DEF ScanBooks, PortBooks
<1>3. HostFrame /\ UNCHANGED <<scan, todo, unmarked, ports, stage, results, bar>> /\ Net!Going
  BY DEF Net!FetchNext, Net!Fetched, HostFrame
<1>4. /\ stage[h] = "pages" /\ PoolOK(fetch'[h], Port) /\ Exact(fetch'[h]) /\ errors' \in Nat
      /\ errors <= errors' /\ DOMAIN fetch' = Hosts /\ \A k \in Hosts : k # h => fetch'[k] = fetch[k]
  <2>1. CASE Net!FetchNext(h)
    <3>1. fetch' = [fetch EXCEPT ![h] = Net!Take(fetch[h])] /\ fetch[h].left # <<>> /\ stage[h] = "pages"
          /\ errors' = errors
      BY <2>1 DEF Net!FetchNext, Net!Offered
    <3>2. PoolOK(Net!Take(fetch[h]), Port) /\ Exact(Net!Take(fetch[h]))
      BY <1>2, <3>1, PoolTakes
    <3> QED BY <1>1, <3>1, <3>2
  <2>2. CASE \E port \in Port : Net!Fetched(h, port)
    <3>1. PICK port \in Port : Net!Fetched(h, port)
      BY <2>2
    <3>2. port \in fetch[h].busy
      BY <3>1 DEF Net!Fetched
    <3>3. stage[h] = "pages"
      BY <1>2, <3>2, PoolSizes
    <3>4. /\ PoolOK(Net!Give(fetch[h], port), Port) /\ Exact(Net!Give(fetch[h], port))
      BY <1>2, <3>2, PoolGives
    <3>5. PoolOK(Net!Lose(fetch[h], port), Port) /\ Exact(Net!Lose(fetch[h], port))
      BY <1>2, <3>2, PoolDrops
    <3>6. CASE fetch' = [fetch EXCEPT ![h] = Net!Give(@, port)] /\ UNCHANGED errors
      BY <1>1, <3>3, <3>4, <3>6
    <3>7. CASE fetch' = [fetch EXCEPT ![h] = Net!Lose(@, port)] /\ Net!CacheRaises
      BY <1>1, <3>3, <3>5, <3>7 DEF Net!CacheRaises
    <3> QED BY <3>1, <3>6, <3>7 DEF Net!Fetched
  <2> QED BY <2>1, <2>2
<1>5. Under
  BY <1>3, <1>4, Hosted DEF Net!Going
<1>6. Net!Disturbed => Net!Disturbed'
  BY <1>1, <1>3, <1>4 DEF Net!Disturbed, HostFrame
<1>7. PlaceBooks'
  BY <1>3, <1>6, PlaceFrame DEF ScanBooks, HostFrame
<1>8. PortBooks'
  BY <1>2, <1>3, <1>4, OneHost
<1>9. /\ Net!Counted(stage, todo) \subseteq Net!Counted(stage, todo')
      /\ Net!Counted(stage, todo') \subseteq Net!Counted(stage', todo')
      /\ bar' \in {bar, Net!Progress(stage, todo')}
  <2>1. todo' = todo /\ stage' = stage /\ bar' = bar
    BY <1>3
  <2> QED BY <2>1
<1>10. todo' \in [Hosts -> SUBSET Port] /\ unmarked' \in [Hosts -> SUBSET Port]
       /\ ports' \in [Hosts -> SUBSET Port]
  BY <1>1, <1>3
<1> QED BY <1>3, <1>4, <1>5, <1>7, <1>8, <1>9, <1>10, HostKeeps

LEMMA PagesOverKeeps ==
  ASSUME ScanBooks, NEW h \in Hosts, Net!PagesOver(h)
  PROVE  ScanBooks' /\ bar <= bar'
<1> USE DEF Net!called, Net!pinged, Net!probed
<1>1. /\ Placed(scan, stage, results, given, hosts)
      /\ stage \in [Hosts -> ScanSteps] /\ DOMAIN fetch = Hosts
      /\ todo \in [Hosts -> SUBSET Port] /\ unmarked \in [Hosts -> SUBSET Port]
      /\ ports \in [Hosts -> SUBSET Port] /\ errors \in Nat
  BY Hosted
<1>2. /\ stage[h] = "pages" /\ fetch[h].owed = 0 /\ Net!Delivered(h) /\ Net!Going /\ HostFrame
      /\ UNCHANGED <<todo, unmarked, ports, fetch, errors, bar>>
  BY DEF Net!PagesOver, Net!Joined, HostFrame
<1>3. Under /\ h \in scan.busy
  BY <1>1, <1>2, Hosted DEF Net!Going, Placed
<1>4. (Net!Disturbed => Net!Disturbed') /\ (cancel => Net!Disturbed') /\ hosts' = hosts /\ given' = given
  BY <1>2 DEF Net!Disturbed, HostFrame
<1>5. PlaceBooks' /\ stage'[h] \in {"done", "lost"} /\ \A k \in Hosts : k # h => stage'[k] = stage[k]
  BY <1>2, <1>3, <1>4, DeliveredPlaces
<1>6. PortBooks'
  <2>1. PoolOK(fetch[h], Port) /\ Exact(fetch[h]) /\ todo[h] \subseteq unmarked[h] /\ unmarked[h] = {}
    BY <1>2 DEF ScanBooks, PortBooks
  <2> QED BY <1>2, <1>5, <2>1, OneHost
<1>7. Net!Counted(stage, todo) \subseteq Net!Counted(stage', todo')
  <2>1. Net!ToSet(hosts) \subseteq Hosts
    BY <1>1, ListFacts DEF Placed
  <2> QED BY <1>2, <1>5, <2>1, CountsMore
<1>8. Net!Counted(stage', todo') \subseteq Net!Counted(stage', todo') /\ bar' \in {bar, Net!Progress(stage', todo')}
  BY <1>2
<1>9. /\ todo' \in [Hosts -> SUBSET Port] /\ unmarked' \in [Hosts -> SUBSET Port]
      /\ ports' \in [Hosts -> SUBSET Port] /\ errors' \in Nat /\ DOMAIN fetch' = Hosts
  BY <1>1, <1>2
<1> QED BY <1>2, <1>3, <1>5, <1>6, <1>7, <1>8, <1>9, HostKeeps

LEMMA LoopKeepsScan == ASSUME ScanBooks, Net!Loop PROVE ScanBooks' /\ bar <= bar'
<1> USE DEF Net!Loop, Net!called, Net!pinged, Net!hostVars, Net!probed
<1>1. Target' = Target /\ Net!Whole' = Net!Whole
  BY TargetSame
<1>2. Under /\ Under'
  BY DEF Under
<1>3. ScanTypes' /\ bar <= bar'
  BY DEF ScanBooks, ScanTypes
<1>4. PingBooks'
  BY DEF ScanBooks, PingBooks
<1>5. PlaceBooks' /\ PortBooks'
  BY PlaceFrame, PortFrame DEF ScanBooks, Net!Disturbed
<1>6. LoopBooks'
  BY <1>1, <1>2 DEF ScanBooks, LoopBooks, Net!EndIsWhole
<1>7. BarBooks'
  <2>1. Net!Progress(stage, todo)' = Net!Progress(stage, todo)
    BY ProgressSame
  <2> QED BY <1>1, <1>2, <2>1 DEF ScanBooks, BarBooks
<1> QED BY <1>3, <1>4, <1>5, <1>6, <1>7 DEF ScanBooks

LEMMA ReceiveKeeps == ASSUME ScanBooks, Net!Receive PROVE ScanBooks' /\ bar <= bar'
<1> USE DEF Net!Receive, Net!called, Net!pinged, Net!probed
<1>1. Target' = Target /\ Net!Whole' = Net!Whole
  BY TargetSame
<1>2. Under /\ scanning = "waiting" /\ scanning' \in {"looping", "ended"} /\ (scanning' = "ended" => ~dialog)
  BY DEF Under
<1>3. ScanTypes' /\ bar <= bar'
  BY DEF ScanBooks, ScanTypes
<1>4. PingBooks'
  BY DEF ScanBooks, PingBooks
<1>5. PlaceBooks'
  <2>1. Placed(scan, stage, Tail(results), Append(given, Head(results)), hosts)
    BY Hosted, PlacedYields
  <2>2. Placed(scan', stage', results', given', hosts')
    BY <2>1
  <2>3. Net!Disturbed' <=> Net!Disturbed
    BY DEF Net!Disturbed
  <2> QED BY <2>2, <2>3 DEF ScanBooks, PlaceBooks
<1>6. PortBooks'
  BY PortFrame DEF ScanBooks
<1>7. LoopBooks'
  <2>1. Net!EndIsWhole'
    BY <1>2 DEF Net!EndIsWhole, Net!Disturbed
  <2> QED BY <1>1, <1>2, <2>1 DEF ScanBooks, LoopBooks, Under
<1>8. BarBooks'
  <2>1. Net!Progress(stage, todo)' = Net!Progress(stage, todo)
    BY ProgressSame
  <2> QED BY <1>1, <1>2, <2>1 DEF ScanBooks, BarBooks
<1> QED BY <1>3, <1>4, <1>5, <1>6, <1>7, <1>8 DEF ScanBooks

LEMMA ScanOverKeeps == ASSUME ScanBooks, Net!ScanOver PROVE ScanBooks' /\ bar <= bar'
<1>1. scanning = "joining" /\ scan.owed = 0 /\ Net!Ends
  BY DEF Net!ScanOver, Net!Joined
<1>2. pings.owed = 0 /\ hosts = Target /\ (Len(given) = Len(hosts) \/ cancel)
  BY <1>1 DEF ScanBooks, PingBooks, LoopBooks, Under
<1>3. ~Net!Disturbed => Net!ToSet(given) = Net!ToSet(Target)
  <2> SUFFICES ASSUME ~Net!Disturbed PROVE Net!ToSet(given) = Net!ToSet(hosts)
    BY <1>2
  <2>1. Placed(scan, stage, results, given, hosts) /\ PoolOK(scan, Hosts)
    BY Hosted
  <2>2. scan.left = <<>> /\ scan.busy = {}
    BY <1>1, <2>1, PoolSizes
  <2>3. LostIn(stage) = {} /\ Len(given) = Len(hosts)
    BY <1>2 DEF ScanBooks, PlaceBooks, Net!Disturbed
  <2>4. results \in Seq(Hosts) /\ given \in Seq(Hosts) /\ Len(results) \in Nat /\ Len(given) \in Nat
    BY <2>1 DEF Placed
  <2>5. results = <<>>
    <3>1. Len(hosts) = Len(scan.left) + Cardinality(scan.busy) + Len(results) + Len(given)
                         + Cardinality(LostIn(stage))
      BY <2>1 DEF Placed
    <3>2. Len(scan.left) = 0 /\ Cardinality(scan.busy) = 0 /\ Cardinality(LostIn(stage)) = 0
      BY <2>2, <2>3, FS_EmptySet
    <3>3. Len(results) = 0
      BY <2>3, <2>4, <3>1, <3>2
    <3> QED BY <2>4, <3>3
  <2>6. Net!ToSet(results) = {} /\ Net!ToSet(scan.left) = {}
    <3>1. \A nil : nil = <<>> => Net!ToSet(nil) = {}
      BY DEF Net!ToSet
    <3> QED BY <2>2, <2>5, <3>1
  <2>7. \A h \in Hosts : h \in Net!ToSet(hosts) <=> h \in Net!ToSet(given)
    <3> SUFFICES ASSUME NEW h \in Hosts PROVE h \in Net!ToSet(hosts) <=> h \in Net!ToSet(given)
      OBVIOUS
    <3>1. stage[h] \in ScanSteps /\ stage[h] \notin {"ports", "pages", "lost"}
      BY <2>1, <2>2, <2>3 DEF Placed, LostIn
    <3>2. h \in Net!ToSet(given) <=> stage[h] = "done"
      BY <2>1, <2>6 DEF Placed
    <3>3. h \in Net!ToSet(hosts) <=> stage[h] # "none"
      BY <2>1, <2>6 DEF Placed
    <3> QED BY <3>1, <3>2, <3>3 DEF ScanSteps
  <2>8. Net!ToSet(hosts) \subseteq Hosts /\ Net!ToSet(given) \subseteq Hosts
    BY <2>1, ListFacts DEF Placed
  <2> QED BY <2>7, <2>8
<1> QED BY <1>1, <1>2, <1>3, EndsKeep

LEMMA OthersKeepScan ==
  ASSUME ScanBooks, Net!Cancel \/ Net!CloseWindow \/ UNCHANGED Net!scanVars
  PROVE  ScanBooks' /\ bar <= bar'
<1> USE DEF Net!Cancel, Net!CloseWindow, Net!scanVars, Net!called, Net!pinged, Net!hostVars, Net!probed
<1>1. /\ UNCHANGED <<mode, candidates, web, kept, scanning, bar, pings, active, hosts, scan, todo,
                     unmarked, ports, fetch, stage, results, given, errors>>
      /\ (Net!Disturbed => Net!Disturbed') /\ (cancel => cancel')
      /\ (scanning = "ended" => (Net!Disturbed' <=> Net!Disturbed))
  BY DEF Net!Disturbed, Net!Going
<1>2. Target' = Target /\ Net!Whole' = Net!Whole
  BY <1>1, TargetSame
<1>3. ScanTypes' /\ bar <= bar'
  BY <1>1 DEF ScanBooks, ScanTypes
<1>4. PingBooks'
  BY <1>1 DEF ScanBooks, PingBooks, Net!Pinging
<1>5. PlaceBooks' /\ PortBooks'
  BY <1>1, PlaceFrame, PortFrame DEF ScanBooks
<1>6. LoopBooks'
  <2>1. Net!EndIsWhole'
    BY <1>1, <1>2 DEF ScanBooks, LoopBooks, Net!EndIsWhole, Target
  <2> QED BY <1>1, <1>2, <2>1 DEF ScanBooks, LoopBooks, Under
<1>7. BarBooks'
  <2>1. Net!Progress(stage, todo)' = Net!Progress(stage, todo)
    BY <1>1, ProgressSame
  <2> QED BY <1>1, <1>2, <2>1 DEF ScanBooks, BarBooks, Under
<1> QED BY <1>3, <1>4, <1>5, <1>6, <1>7 DEF ScanBooks

LEMMA ScanGoes ==
  ScanBooks /\ [Net!ScanNext]_(Net!scanVars) => ScanBooks' /\ bar <= bar'
BY NothingToDoKeeps, StartPingsKeeps, StartGivenKeeps, PingNextKeeps, PongKeeps, PingsOverKeeps,
   TakeHostKeeps, TakeKeptKeeps, PortAnswersKeeps, PortsOverKeeps, PagesKeep, PagesOverKeeps,
   LoopKeepsScan, ReceiveKeeps, ScanOverKeeps, OthersKeepScan
DEF Net!ScanNext, Net!Working, Hosts
-----------------------------------------------------------------------------
(* The desktop. *)

\* Whichever part is under way, every part takes its own steps or none.

LEMMA SessionsAre == UNCHANGED sessions <=> UNCHANGED Kill!dialogVars
BY DEF sessions, Kill!dialogVars, Kill!chooser, Kill!dialog, Kill!threads, Kill!results,
       Kill!target, Kill!history

LEMMA WatcherIs == UNCHANGED watcher <=> UNCHANGED Watch!watcherVars
BY DEF watcher, Watch!watcherVars, Watch!machine, Watch!sampling, Watch!events, Watch!dialog

LEMMA ScansAre == UNCHANGED scans <=> UNCHANGED Net!scanVars
BY DEF scans, Net!scanVars, Net!called, Net!pinged, Net!hostVars, Net!probed

LEMMA CenterIs == UNCHANGED center <=> UNCHANGED Center!vars
BY DEF center, Center!vars

LEMMA EachStep ==
  [AllNext]_<<part, overlayVars, sessions, watcher, scans, center>> =>
    /\ [OverlayNext]_overlayVars
    /\ [Kill!DialogNext]_(Kill!dialogVars)
    /\ [Watch!WatcherNext]_(Watch!watcherVars)
    /\ [Net!ScanNext]_(Net!scanVars)
    /\ [Center!Next]_(Center!vars)
BY SessionsAre, WatcherIs, ScansAre, CenterIs DEF AllNext

\* Each component keeps its own books whatever the others do.
DesktopBooks == OverlayBooks /\ SessionBooks /\ WatcherBooks /\ ScanBooks /\ CenterBooks

\* The overlay is what its handlers expect; the dialog is away exactly while a
\* session lasts, and no overlay outlives its session, unless it was closed while
\* choose() still showed it; what is on its way adds up to the watcher's snapshot;
\* every host of a scan has one place, a result says all there is, and a scan that ends
\* undisturbed has yielded every host; and the switches, the jobs and the busy
\* messages of the Security Center agree.
THEOREM DesktopHolds == AllSpec => []DesktopInv
<1>1. AllInit => DesktopBooks
  BY OverlayBegins, SessionBegins, WatcherBegins, ScanBegins, CenterBegins DEF AllInit, DesktopBooks
<1>2. DesktopBooks /\ [AllNext]_<<part, overlayVars, sessions, watcher, scans, center>>
        => DesktopBooks'
  BY EachStep, OverlayGoes, SessionGoes, WatcherGoes, ScanGoes, CenterGoes DEF DesktopBooks
<1>3. DesktopBooks => DesktopInv
  <2>1. OverlayBooks => OverlayInv
    BY DEF OverlayBooks, OverlayInv
  <2>2. SessionBooks => SessionInv
    BY DEF SessionBooks, SessionInv
  <2>3. WatcherBooks => WatchInv
    BY DEF WatcherBooks, WatchInv, Watch!WatchInv
  <2>4. ScanBooks => ScanInv
    BY ScanShown DEF ScanInv
  <2>5. CenterBooks => CenterInv
    BY DEF CenterBooks, CenterInv
  <2> QED BY <2>1, <2>2, <2>3, <2>4, <2>5 DEF DesktopBooks, DesktopInv
<1> QED BY <1>1, <1>2, <1>3, PTL DEF AllSpec

\* choose() keeps its promise (Chooser) through hooks that die, late updates
\* and timers that outlive a reset.
THEOREM PromiseHolds == AllSpec => Promised
<1>1. AllInit => OverlayBooks /\ Promise!ChooserInit
  BY OverlayBegins, PromiseBegins DEF AllInit
<1>2. OverlayBooks /\ [AllNext]_<<part, overlayVars, sessions, watcher, scans, center>>
        => OverlayBooks' /\ [Promise!ChooserNext]_(Promise!chooser)
  BY EachStep, OverlayGoes, PromiseGoes
<1> QED BY <1>1, <1>2, PTL DEF AllSpec, Promised, Promise!ChooserSpec

\* A process is killed for the last session that began, and not for one whose
\* cancel went through, and it is one that was clicked since that session began.
THEOREM KillsHold == AllSpec => KillsChosen
<1>1. AllInit => SessionBooks
  BY SessionBegins DEF AllInit
<1>2. SessionBooks /\ [AllNext]_<<part, overlayVars, sessions, watcher, scans, center>>
        => SessionBooks' /\ [KillsRight]_(Kill!dialogVars)
  BY EachStep, SessionGoes, AimedStep
<1>3. KillsRight <=>
        (killed' # killed =>
           /\ killed'.of = session /\ session # cancelled /\ killed'.win \in hits[session]
           /\ skipped => read[session] \in {Kill!Unread, killed'.proc})
  BY DEF KillsRight
<1> QED BY <1>1, <1>2, <1>3, PTL DEF AllSpec, KillsChosen, Kill!KillsChosen

\* What a scan shows of its progress never goes back, over pings, ports, cached
\* results and hosts that are scanned side by side.
THEOREM ProgressHolds == AllSpec => ProgressClimbs
<1>1. AllInit => ScanBooks
  BY ScanBegins DEF AllInit
<1>2. ScanBooks /\ [AllNext]_<<part, overlayVars, sessions, watcher, scans, center>>
        => ScanBooks' /\ bar <= bar'
  BY EachStep, ScanGoes
<1>3. ScanBooks /\ ScanBooks' => bar \in Nat /\ bar' \in Nat
  BY DEF ScanBooks, ScanTypes
<1>4. ScanBooks /\ [AllNext]_<<part, overlayVars, sessions, watcher, scans, center>>
        => ScanBooks' /\ [bar' >= bar]_(Net!scanVars)
  BY <1>2, <1>3
<1> QED BY <1>1, <1>4, PTL DEF AllSpec, ProgressClimbs, Net!ProgressClimbs
=============================================================================
