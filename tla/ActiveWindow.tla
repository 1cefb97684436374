---------------------------- MODULE ActiveWindow ----------------------------
(* Who is told of the foreground window (subscribe_active_window of
   utils/display/window_utils.py): the overlays that subscribe on the main
   thread, and the one thread that looks at the foreground window (X11) or is
   told of it (Windows) and calls them.  An overlay that is called asks its
   window to redraw: a call of tkinter from another thread waits until the main
   thread is back in its event loop.  macOS is left out, and looks that fail. *)
EXTENDS Naturals, Sequences, FiniteSets

CONSTANTS
  Overlay,   \* the subscribers
  Pid,       \* processes whose windows come to the foreground
  MaxFocus,  \* bound: changes of the foreground window
  MaxJoins   \* bound: subscriptions

VARIABLES
  platform,     \* "x11" or "win"
  focus,        \* the process of the foreground window
  changes,
  events,       \* windows: changes the thread is yet to be told of
  subscribers,  \* _ACTIVE_SUBSCRIBERS
  joins,
  late,         \* subscribers that joined a thread that was running already
  destroyed,    \* overlays whose destroy() has begun
  main,         \* "loop": in its event loop; "locking", "joining": in unsubscribe()
  leaving,      \* the overlay that does
  lock,         \* the holder of _ACTIVE_SUB_LOCK: "main", "thread" or "free"
  stop,         \* _ACTIVE_STOP
  thread,       \* where _ACTIVE_THREAD is, or "none"
  threadId,     \* _WIN_THREAD_ID: "none", of this thread, or of one that has ended
  quit,         \* WM_QUIT is in the thread's queue
  last,         \* what the poller saw last, or 0
  info,         \* what is being dispatched
  todo,         \* callbacks it still has to call
  heard         \* the last process an overlay was told of, or 0

vars == <<platform, focus, changes, events, subscribers, joins, late, destroyed, main, leaving,
          lock, stop, thread, threadId, quit, last, info, todo, heard>>
threadVars == <<thread, threadId, last, info, todo>>

Init ==
  /\ platform \in {"x11", "win"} /\ focus \in Pid /\ changes = 0 /\ events = <<>>
  /\ subscribers = {} /\ joins = 0 /\ late = {} /\ destroyed = {}
  /\ main = "loop" /\ leaving = {} /\ lock = "free" /\ stop = FALSE
  /\ thread = "none" /\ threadId = "none" /\ quit = FALSE
  /\ last = 0 /\ info = 0 /\ todo = {} /\ heard = [o \in Overlay |-> 0]

----------------------------------------------------------------------------
(* The main thread *)

\* The overlay has asked for the foreground window itself a moment ago.
Subscribe(o) ==
  /\ main = "loop" /\ lock = "free" /\ o \notin subscribers \union destroyed
  /\ joins < MaxJoins /\ joins' = joins + 1
  /\ subscribers' = subscribers \union {o}
  /\ heard' = [heard EXCEPT ![o] = focus]
  /\ IF thread = "none"
       THEN thread' = "starting" /\ last' = 0 /\ late' = late \ {o}
       ELSE late' = late \union {o} /\ UNCHANGED <<thread, last>>
  /\ UNCHANGED <<platform, focus, changes, events, destroyed, main, leaving, lock, stop,
                 threadId, quit, info, todo>>

\* destroy(): no redraws from here on, then unsubscribe()
Destroy(o) ==
  /\ main = "loop" /\ o \in subscribers
  /\ destroyed' = destroyed \union {o} /\ leaving' = {o} /\ main' = "locking"
  /\ UNCHANGED <<platform, focus, changes, events, subscribers, joins, late, lock, stop, quit,
                 heard>> /\ UNCHANGED threadVars

Unsubscribe ==
  /\ main = "locking" /\ lock = "free"
  /\ subscribers' = subscribers \ leaving /\ leaving' = {}
  /\ IF subscribers' # {}
       THEN main' = "loop" /\ UNCHANGED <<lock, stop, quit>>
       ELSE /\ main' = "joining" /\ lock' = "main" /\ stop' = TRUE
            /\ quit' = (platform = "win" /\ threadId = "current")
  /\ UNCHANGED <<platform, focus, changes, events, joins, late, destroyed, heard>>
  /\ UNCHANGED threadVars

\* mutant of Joined: the stop flag stays set
JoinedStopped ==
  /\ main = "joining" /\ thread = "ended"
  /\ main' = "loop" /\ lock' = "free" /\ thread' = "none"
  /\ quit' = FALSE /\ threadId' = IF threadId = "current" THEN "former" ELSE threadId
  /\ UNCHANGED <<platform, focus, changes, events, subscribers, joins, late, destroyed, leaving,
                 stop, last, info, todo, heard>>

\* _ACTIVE_THREAD.join() returns.
Joined ==
  /\ main = "joining" /\ thread = "ended"
  /\ main' = "loop" /\ lock' = "free" /\ stop' = FALSE /\ thread' = "none"
  /\ quit' = FALSE /\ threadId' = IF threadId = "current" THEN "former" ELSE threadId
  /\ UNCHANGED <<platform, focus, changes, events, subscribers, joins, late, destroyed, leaving,
                 last, info, todo, heard>>

----------------------------------------------------------------------------
(* The thread *)

ThreadStep(from, to) == thread = from /\ thread' = to

\* mutant of HookUp: the thread goes to wait without a look at the flag, unknown
HookUpLate ==
  /\ platform = "win" /\ ThreadStep("starting", IF stop THEN "ended" ELSE "told")
  /\ UNCHANGED threadId
  /\ UNCHANGED <<last, info, todo>>

\* SetWinEventHook, and _WIN_THREAD_ID is set, before the loop looks at the flag
HookUp ==
  /\ platform = "win" /\ ThreadStep("starting", "top") /\ threadId' = "current"
  /\ UNCHANGED <<last, info, todo>>

\* while not _ACTIVE_STOP.is_set()
Top ==
  /\ thread = (IF platform = "win" THEN "top" ELSE "starting")
  /\ thread' = IF stop THEN "ended" ELSE "told"
  /\ UNCHANGED <<threadId, last, info, todo>>

\* GetMessageW delivers an event, or the message that ends the thread.
Told ==
  /\ platform = "win" /\ thread = "told"
  /\ \/ /\ events # <<>> /\ events' = Tail(events) /\ info' = Head(events)
        /\ thread' = "dispatching" /\ UNCHANGED quit
     \/ /\ events = <<>> /\ quit /\ quit' = FALSE /\ thread' = "ended"
        /\ UNCHANGED <<events, info>>
  /\ UNCHANGED <<threadId, last, todo>>

\* What a look at the foreground window finds, in whatever way the system tells it
InFront == focus

\* mutant of Sample: a pid that was not seen before is what counts
SampleOnce ==
  /\ platform = "x11" /\ thread = "told"
  /\ IF focus > last
       THEN last' = focus /\ info' = focus /\ thread' = "dispatching"
       ELSE thread' = "starting" /\ UNCHANGED <<last, info>>
  /\ UNCHANGED <<threadId, todo>>

\* One look at the foreground window and, if nothing has changed, the sleep
Sample ==
  /\ platform = "x11" /\ thread = "told"
  /\ IF InFront # last
       THEN last' = InFront /\ info' = InFront /\ thread' = "dispatching"
       ELSE thread' = "starting" /\ UNCHANGED <<last, info>>
  /\ UNCHANGED <<threadId, todo>>

\* _dispatch_active: the subscribers are copied under the lock.
Dispatch ==
  /\ thread = "dispatching" /\ lock = "free"
  /\ todo' = subscribers /\ thread' = "calling"
  /\ UNCHANGED <<threadId, last, info>>

\* _on_active_window: the overlay notes the process and asks for a redraw.
Call ==
  /\ thread = "calling"
  /\ \E o \in todo :
       /\ todo' = todo \ {o} /\ heard' = [heard EXCEPT ![o] = info]
       /\ thread' = IF o \in destroyed THEN "calling" ELSE "posting"
  /\ UNCHANGED <<threadId, last, info>>

\* The main thread's event loop takes the call.
Posted ==
  /\ ThreadStep("posting", "calling") /\ main = "loop"
  /\ UNCHANGED <<threadId, last, info, todo>>

Dispatched ==
  /\ thread = "calling" /\ todo = {}
  /\ thread' = IF platform = "win" THEN "told" ELSE "starting"
  /\ info' = 0 /\ UNCHANGED <<threadId, last, todo>>

Thread ==
  \/ Told /\ UNCHANGED <<platform, focus, changes, subscribers, joins, late, destroyed, main,
                         leaving, lock, stop, heard>>
  \/ /\ Call
     /\ UNCHANGED <<platform, focus, changes, events, subscribers, joins, late, destroyed, main,
                    leaving, lock, stop, quit>>
  \/ /\ HookUp \/ Top \/ Sample \/ Dispatch \/ Posted \/ Dispatched
     /\ UNCHANGED <<platform, focus, changes, events, subscribers, joins, late, destroyed, main,
                    leaving, lock, stop, quit, heard>>

\* Another window comes to the foreground; a hook that is set is told.
Focus ==
  /\ changes < MaxFocus /\ changes' = changes + 1
  /\ \E p \in Pid \ {focus} :
       /\ focus' = p
       /\ events' = IF platform = "win" /\ thread \notin {"none", "starting", "ended"}
                      THEN Append(events, p) ELSE <<>>
  /\ UNCHANGED <<platform, subscribers, joins, late, destroyed, main, leaving, lock, stop, quit,
                 heard>> /\ UNCHANGED threadVars

Next ==
  \/ \E o \in Overlay : Subscribe(o) \/ Destroy(o)
  \/ Unsubscribe \/ Joined \/ Thread \/ Focus

Spec == Init /\ [][Next]_vars
MainSteps == Unsubscribe \/ Joined
FairSpec == Spec /\ WF_vars(MainSteps) /\ WF_vars(Thread)

----------------------------------------------------------------------------
(* Properties *)

\* While somebody is subscribed a thread looks for them and has not been told to
\* stop, and when the last one's unsubscribe() has returned there is none
\* (_ensure_active_thread and unsubscribe, window_utils.py:502, 526).
ActiveInv ==
  main = "loop" =>
    /\ ~stop /\ lock = "free"
    /\ subscribers # {} => thread \notin {"none", "ended"}
    /\ subscribers = {} => thread = "none"

\* The thread wants the lock, or the event loop, that the main thread has while
\* it waits for it.
Deadlocked == main = "joining" /\ thread \in {"dispatching", "posting"}

\* What is to end: destroy() unless it is Deadlocked; and the news of a
\* foreground window reaches whoever started the thread, where it is polled
\* (window_utils.py:541, 494).
Leaving == main # "loop"
Left == main = "loop" \/ Deadlocked
Unheard(o) == /\ platform = "x11" /\ o \in subscribers \ (late \union destroyed)
              /\ heard[o] # focus
Heard(o) == heard[o] = focus \/ o \notin subscribers \ destroyed
ActiveEnds == /\ Leaving ~> Left
              /\ \A o \in Overlay : Unheard(o) ~> Heard(o)

\* destroy() comes to its end (click_overlay.py:953: "Ensure background threads
\* exit before destroying the window").
DestroyEnds == Leaving ~> main = "loop"
=============================================================================
