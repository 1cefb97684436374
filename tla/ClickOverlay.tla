---------------------------- MODULE ClickOverlay ----------------------------
(***************************************************************************)
(* ClickOverlay (src/coolbox/ui/views/overlays/click_overlay.py) over the  *)
(* shared GlobalMouseListener (src/coolbox/utils/display/mouse_listener.py *)
(* without native hooks).  choose() runs two nested Tk loops: one until the *)
(* overlay is visible, in which a close is lost, and one until it is       *)
(* closed.  The hook thread reports moves and clicks; the update loop      *)
(* draws and, while hooks are used, a monitor checks every half second for *)
(* a sign of life.                                                         *)
(*                                                                         *)
(* Geometry, probing and scoring are left out: a click is the process they *)
(* settle on, or Nobody.  What Tk runs by after(0) keeps its order, timers *)
(* and idle callbacks may come in any.  A hook event reaches the overlay   *)
(* before the user's next action.                                          *)
(***************************************************************************)
EXTENDS Naturals, Sequences

CONSTANTS
  Window, Nobody, Call,   \* Call: a posted call of choose()
  MaxAsks,
  MaxPosted,      \* bound on clicks and calls posted at once
  MaxLoops,       \* updates of a kind counted: MaxLoops stands for this many or more
  Configured,     \* skip_confirm as its owner may have set it, a set of Booleans
  EnvSkip,        \* KILL_BY_CLICK_SKIP_CONFIRM
  Owner           \* whether the owner of the overlay, the dialog, holds the listener, too

ASSUME OverlayAssumption ==
  /\ Nobody \notin Window /\ Call \notin Window \cup {Nobody}
  /\ Configured \subseteq BOOLEAN /\ EnvSkip \in BOOLEAN /\ Owner \in BOOLEAN
  /\ MaxAsks \in Nat /\ MaxPosted \in Nat \ {0} /\ MaxLoops \in Nat \ {0}

VARIABLES
  asked, open, waiting, clicked, answer,   \* as in Chooser
  phase,        \* of the innermost choose(): away, showing, starting, waiting
  written,      \* _closed has been set since its wait began
  state,        \* OverlayState; hooks are used (_using_hooks) when HOOKED
  bound,        \* the pointer is bound to the overlay's window
  pid, skip,    \* pid, skip_confirm
  own,          \* _listener is set
  started,      \* the calls under way that have started the listener
  refs,         \* the listener's _ref_count
  hook,         \* the listener's thread is alive
  wired,        \* it calls the overlay
  posted,       \* after(0): clicks and calls of choose()
  update,       \* UpdateState
  queued, queries, ticks,   \* updates queued, windows being looked up, timers of the loop
  ping, pinged  \* the monitor's timer; _last_ping since it was set

calls == <<open, waiting, started>>
call == <<asked, clicked, answer, phase, calls>>
listener == <<refs, hook, wired>>
loop == <<update, queued, queries, ticks>>
monitor == <<ping, pinged>>
window == <<written, state, bound, pid, skip, own>>
overlayVars == <<call, listener, loop, monitor, window, posted>>

\* The Tk thread runs callbacks, unless choose() sets up or is about to return
Free == phase \in {"away", "showing"} \/ (phase = "waiting" /\ ~written)
Inner(c) == c \in open /\ \A d \in open : d <= c
Waits == \E c \in waiting : Inner(c)
ClickedFor(s) == [c \in 1..MaxAsks |-> IF c \in s THEN clicked[c] ELSE {}]
More(n) == IF n = MaxLoops THEN n ELSE n + 1
Fewer(n) == IF n = MaxLoops THEN {n - 1, n} ELSE {n - 1}
Looping == queued + queries + ticks > 0

OverlayInit ==
  /\ asked = 0 /\ clicked = [c \in 1..MaxAsks |-> {}] /\ answer = Nobody /\ phase = "away"
  /\ open = {} /\ waiting = {} /\ started = {}
  /\ written = FALSE /\ state = "INIT" /\ bound = FALSE /\ pid = Nobody /\ own = FALSE
  /\ skip \in Configured
  /\ refs = IF Owner THEN 1 ELSE 0
  /\ hook = Owner /\ wired = FALSE /\ posted = <<>>
  /\ update = "IDLE" /\ queued = 0 /\ queries = 0 /\ ticks = 0 /\ ping = FALSE /\ pinged = FALSE

-----------------------------------------------------------------------------
(* Steps shared by the handlers *)

\* _queue_update(): one update at a time; while polling, a pointer that has not
\* moved ends the loop
QueueUpdate ==
  /\ pinged' = TRUE
  /\ \/ update = "IDLE" /\ update' = "PENDING" /\ queued' = More(queued)
     \/ (update # "IDLE" \/ state = "POLLING") /\ UNCHANGED <<update, queued>>

\* _ensure_hooked(), on the hook's thread
EnsureHooked ==
  IF state = "HOOKED" THEN UNCHANGED <<state, bound, ping, pinged>>
  ELSE state' = "HOOKED" /\ bound' = FALSE /\ ping' = TRUE /\ pinged' = FALSE

\* stop() of the listener
StopListener ==
  /\ refs' = IF refs > 0 THEN refs - 1 ELSE 0
  /\ hook' = (hook /\ refs # 1)
  /\ UNCHANGED wired

KeepPid(w) ==                             \* mutant of ResetTo
  /\ written' = (phase = "waiting") /\ state' = "INIT" /\ bound' = FALSE /\ own' = FALSE
  /\ skip' = EnvSkip /\ pid' = IF w = Nobody THEN pid ELSE w
  /\ update' = "IDLE" /\ ping' = FALSE

\* reset() clears pid, which a caller may set anew; it writes _closed, which
\* ends a wait for it, and applies the defaults of the environment.  Updates
\* under way go on.
ResetTo(w) ==
  /\ written' = (phase = "waiting") /\ state' = "INIT" /\ bound' = FALSE /\ own' = FALSE
  /\ skip' = EnvSkip /\ pid' = w
  /\ update' = "IDLE" /\ ping' = FALSE

\* close() cancels the timer that was set last, which may have come already
CloseTo(w) ==
  /\ ResetTo(w)
  /\ ticks' \in IF ticks = 0 THEN {0} ELSE {ticks - 1, ticks}

Posted(item) == Len(posted) < MaxPosted /\ posted' = Append(posted, item)
Clicked(w) ==
  /\ Posted(w)
  /\ clicked' = [c \in 1..MaxAsks |->
                  IF c \in open \cup {asked} THEN clicked[c] \cup ({w} \ {Nobody}) ELSE clicked[c]]

-----------------------------------------------------------------------------
(* choose() *)

\* A caller posts it: when none is under way, or when the last one was closed
\* in vain, which has cleared _listener
Ask ==
  /\ phase = "away" \/ ~own
  /\ asked < MaxAsks /\ \A i \in 1..Len(posted) : posted[i] # Call
  /\ asked' = asked + 1 /\ Posted(Call)
  /\ clicked' = ClickedFor(open)
  /\ UNCHANGED <<answer, phase, calls, listener, loop, monitor, window>>

\* Up to wait_visibility().  A call under way is left where it is: _closed is
\* written, so that one that waited returns after this one.
Begin ==
  /\ Free /\ posted # <<>> /\ Head(posted) = Call
  /\ posted' = Tail(posted) /\ phase' = "showing" /\ open' = open \cup {asked}
  /\ written' = FALSE /\ own' = TRUE /\ pinged' = TRUE
  /\ UNCHANGED <<asked, clicked, answer, waiting, started, listener, loop, ping, state, bound, pid,
                 skip>>

\* wait_visibility() is over or has failed; start() of the listener may fail
Appear ==
  /\ phase = "showing" /\ phase' = "starting"
  /\ \/ /\ \E c \in open : Inner(c) /\ started' = started \cup {c}
        /\ refs' = refs + 1 /\ hook' = TRUE /\ wired' = TRUE
     \/ UNCHANGED <<started, listener>>
  /\ UNCHANGED <<asked, clicked, answer, open, waiting, loop, monitor, window, posted>>

\* it polls until the hook shows life
Wait ==
  /\ phase = "starting" /\ phase' = "waiting"
  /\ \E c \in open : Inner(c) /\ waiting' = waiting \cup {c}
  /\ state' = "POLLING" /\ bound' = TRUE /\ pinged' = TRUE
  /\ \/ UNCHANGED <<update, queued>>
     \/ update = "IDLE" /\ update' = "PENDING" /\ queued' = More(queued)
  /\ UNCHANGED <<asked, clicked, answer, open, started, listener, queries, ticks, ping, written,
                 pid, skip, own, posted>>

\* wait_variable() is over; the call around this one, if any, goes on
Return ==
  /\ phase = "waiting" /\ written /\ answer' = pid
  /\ \E c \in open :
       /\ Inner(c) /\ open' = open \ {c} /\ waiting' = waiting \ {c} /\ started' = started \ {c}
       /\ IF c \in started THEN StopListener ELSE UNCHANGED listener
  /\ phase' = IF open' = {} THEN "away" ELSE IF Waits' THEN "waiting" ELSE "showing"
  /\ written' = Waits' /\ clicked' = ClickedFor(open' \cup {asked})
  /\ state' = "INIT" /\ bound' = FALSE /\ own' = FALSE /\ skip' = EnvSkip /\ pid' = Nobody
  /\ update' = "IDLE" /\ ping' = FALSE
  /\ UNCHANGED <<asked, posted, queued, queries, ticks, pinged>>

-----------------------------------------------------------------------------
(* What ends it *)

KeepWaiting ==                            \* mutant of OnClick
  /\ Free /\ posted # <<>> /\ Head(posted) # Call /\ posted' = Tail(posted)
  /\ IF skip THEN CloseTo(Nobody)
     ELSE pid' = Head(posted) /\ UNCHANGED <<update, ticks, ping, written, state, bound, skip, own>>
  /\ UNCHANGED <<call, listener, queued, queries, pinged>>

\* _on_click() closes the overlay before it knows the process, unless
\* skip_confirm: then it knows the process before it closes the overlay
OnClick ==
  /\ Free /\ posted # <<>> /\ Head(posted) # Call /\ posted' = Tail(posted)
  /\ CloseTo(IF skip THEN Nobody ELSE Head(posted))
  /\ UNCHANGED <<call, listener, queued, queries, pinged>>

\* close(): Escape, the timeout or the window manager while it is shown, the
\* dialog and its watchdog at any time
Close ==
  /\ Free /\ CloseTo(Nobody)
  /\ UNCHANGED <<call, listener, queued, queries, pinged, posted>>

-----------------------------------------------------------------------------
(* The pointer *)

\* _click() of the hook
HookClick(w) ==
  /\ hook /\ wired /\ EnsureHooked /\ Clicked(w)
  /\ UNCHANGED <<asked, answer, phase, calls, listener, loop, written, pid, skip, own>>

\* _on_move() with, unless the move is too small, _handle_move()
HookMove ==
  /\ hook /\ wired
  /\ state' = "HOOKED" /\ bound' = FALSE /\ ping' = (ping \/ state # "HOOKED")
  /\ \/ pinged' = (state = "HOOKED") /\ UNCHANGED <<update, queued>>
     \/ /\ pinged' = TRUE
        /\ IF update = "IDLE" THEN update' = "PENDING" /\ queued' = More(queued)
           ELSE UNCHANGED <<update, queued>>
  /\ UNCHANGED <<call, listener, queries, ticks, written, pid, skip, own, posted>>

\* _click_event() and _queue_update() of the overlay's window
WindowClick(w) ==
  /\ Free /\ phase # "away" /\ bound /\ Clicked(w) /\ pinged' = TRUE
  /\ UNCHANGED <<asked, answer, phase, calls, listener, loop, ping, window>>

WindowMove ==
  /\ Free /\ phase # "away" /\ bound /\ QueueUpdate
  /\ UNCHANGED <<call, listener, queries, ticks, ping, window, posted>>

\* _on_active_window(), shown or not
WindowChange ==
  /\ Free /\ QueueUpdate
  /\ UNCHANGED <<call, listener, queries, ticks, ping, window, posted>>

HookDies ==
  /\ hook /\ hook' = FALSE
  /\ UNCHANGED <<call, refs, wired, loop, monitor, window, posted>>

-----------------------------------------------------------------------------
(* The update loop and the monitor *)

\* _process_update() hands the lookup to another thread
Process ==
  /\ Free /\ queued > 0
  /\ queued' \in Fewer(queued) /\ update' = "RUNNING"
  /\ queries' = More(queries)
  /\ UNCHANGED <<call, listener, ticks, monitor, window, posted>>

\* _finish_update() sets a timer, whatever has happened since
Finish ==
  /\ Free /\ queries > 0
  /\ queries' \in Fewer(queries) /\ update' = "IDLE"
  /\ ticks' = More(ticks)
  /\ UNCHANGED <<call, listener, queued, monitor, window, posted>>

Tick ==
  /\ Free /\ ticks > 0 /\ QueueUpdate
  /\ ticks' \in Fewer(ticks)
  /\ UNCHANGED <<call, listener, queries, ping, window, posted>>

\* _monitor_hooks(); a loop that runs pings between two of its checks
Monitor ==
  /\ Free /\ ping /\ (Looping => pinged)
  /\ IF state # "HOOKED"
     THEN ping' = FALSE /\ UNCHANGED <<pinged, listener, update, queued, own, bound, state>>
     ELSE IF pinged
     THEN pinged' = FALSE /\ UNCHANGED <<ping, listener, update, queued, own, bound, state>>
     ELSE /\ ping' = FALSE /\ own' = FALSE /\ bound' = TRUE /\ state' = "POLLING"
          /\ IF own THEN StopListener ELSE UNCHANGED listener
          /\ pinged' = TRUE
          /\ \/ UNCHANGED <<update, queued>>
             \/ update = "IDLE" /\ update' = "PENDING" /\ queued' = More(queued)
  /\ UNCHANGED <<call, queries, ticks, written, pid, skip, posted>>

Callback == Begin \/ OnClick
Choosing == Wait \/ Return
OverlayNext ==
  \/ Ask \/ Callback \/ Appear \/ Choosing \/ Close
  \/ \E w \in Window \cup {Nobody} : HookClick(w) \/ WindowClick(w)
  \/ HookMove \/ HookDies \/ WindowMove \/ WindowChange
  \/ Process \/ Finish \/ Tick \/ Monitor
OverlaySpec == OverlayInit /\ [][OverlayNext]_overlayVars

\* Tk runs what is posted and the timers, and wait_variable() returns; a window
\* need not become visible
OverlayFairness ==
  /\ WF_overlayVars(Callback) /\ WF_overlayVars(Choosing)
  /\ WF_overlayVars(Process) /\ WF_overlayVars(Finish) /\ WF_overlayVars(Tick)
  /\ SF_overlayVars(Monitor)
FairOverlay == OverlaySpec /\ OverlayFairness

-----------------------------------------------------------------------------
OverlayTypeOK ==
  /\ asked \in 0..MaxAsks /\ clicked \in [1..MaxAsks -> SUBSET Window]
  /\ answer \in Window \cup {Nobody} /\ phase \in {"away", "showing", "starting", "waiting"}
  /\ open \subseteq 1..asked /\ waiting \subseteq open /\ started \subseteq open
  /\ refs \in 0..MaxAsks + 1 /\ hook \in BOOLEAN /\ wired \in BOOLEAN
  /\ posted \in Seq(Window \cup {Nobody, Call}) /\ Len(posted) <= MaxPosted
  /\ update \in {"IDLE", "PENDING", "RUNNING"}
  /\ queued \in 0..MaxLoops /\ queries \in 0..MaxLoops /\ ticks \in 0..MaxLoops
  /\ ping \in BOOLEAN /\ pinged \in BOOLEAN /\ written \in BOOLEAN
  /\ state \in {"INIT", "POLLING", "HOOKED"} /\ bound \in BOOLEAN
  /\ pid \in Window \cup {Nobody} /\ skip \in BOOLEAN /\ own \in BOOLEAN

\* A call answers with a process that was clicked since it was asked for, or with
\* none, whatever came late from before or is still to come (Chooser).
Closed == phase = "waiting" /\ written
Promise == INSTANCE Chooser WITH closed <- Closed, picked <- IF Closed THEN pid ELSE Nobody
Promised == Promise!ChooserSpec

\* A click that is next while the overlay waits for it ends the wait (_on_click,
\* wait_variable).  One that comes while the overlay is still being shown does not.
Hit == phase = "waiting" /\ posted # <<>> /\ Head(posted) # Call
ClickEnds == Hit ~> phase = "away" \/ Closed
=============================================================================
