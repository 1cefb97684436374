----------------------------- MODULE ErrorPopups -----------------------------
(* How CoolBox tells its user of an error (app/error_handler.py), from the main
   thread, from a thread of its own and from a tool that fails in one
   (ThreadManager of utils/processes/thread_manager.py).

   The main thread shows a dialog and waits for it in an event loop of its own,
   in which callbacks of the windows go on running.  Another thread puts the
   error into a queue, which a callback of a window (_poll) takes it from; a
   thread that looks a second later (probe) tells the user natively when no
   callback has taken anything since.  The callback is scheduled when a window
   comes up, twice each time, and not again after it has run.

   Tkinter is there.  An error's popup is never suppressed as a repetition: its
   message has the time in it.  Warnings take the same way and are left out. *)
EXTENDS Naturals, Sequences, SequencesExt, FiniteSets

CONSTANT Error   \* what goes wrong, each once

VARIABLES
  keep,      \* COOLBOX_ERROR_UI_FORCE: the hidden window is kept
  app,       \* the application's window: "none" yet, "open" or "gone"
  hidden,    \* a hidden window of the handler is there
  rootRef,   \* _root_ref: "app", "hidden" or "none"
  pump,      \* _PUMP_STARTED
  polls,     \* callbacks of each window that are scheduled to take the queue
  queue,     \* _UI_QUEUE
  posted,    \* errors of tools that wait for the application's event loop
  stack,     \* what the main thread is in: dialogs it waits for, and _poll
  probes,    \* errors whose probe has not looked yet
  taken,     \* those since whose arrival _poll has taken something
  shown,     \* errors that a dialog was shown for
  native,    \* errors that were told natively
  lost,      \* posted errors whose window went away
  reported,
  over       \* the process has ended

vars == <<keep, app, hidden, rootRef, pump, polls, queue, posted, stack, probes, taken, shown, native,
          lost, reported, over>>

Window == {"app", "hidden"}
Dialog == [kind : {"dialog"}, error : Error, root : Window, open : BOOLEAN]
Polling == [kind |-> "poll"]

TypeOK ==
  /\ keep \in BOOLEAN /\ app \in {"none", "open", "gone"} /\ hidden \in BOOLEAN
  /\ rootRef \in Window \union {"none"} /\ pump \in BOOLEAN
  /\ polls \in [Window -> 0..4]
  /\ queue \in Seq(Error) /\ posted \subseteq Error
  /\ stack \in Seq(Dialog \union {Polling})
  /\ probes \subseteq Error /\ taken \subseteq Error
  /\ shown \subseteq Error /\ native \subseteq Error /\ lost \subseteq Error
  /\ reported \subseteq Error /\ over \in BOOLEAN

Init ==
  /\ keep \in BOOLEAN /\ app = "none" /\ hidden = FALSE /\ rootRef = "none" /\ pump = FALSE
  /\ polls = [w \in Window |-> 0] /\ queue = <<>> /\ posted = {} /\ stack = <<>>
  /\ probes = {} /\ taken = {} /\ shown = {} /\ native = {} /\ lost = {}
  /\ reported = {} /\ over = FALSE

Alive(w) == IF w = "app" THEN app = "open" ELSE w = "hidden" /\ hidden

\* _current_root(): the window of the pump, else any that is there.
Current ==
  IF Alive(rootRef) THEN rootRef
  ELSE IF \E w \in Window : Alive(w) THEN CHOOSE w \in Window : Alive(w) ELSE "none"

\* The main thread is in an event loop: the application's, or a dialog's.
InLoop ==
  IF stack = <<>> THEN app = "open"
  ELSE Last(stack).kind = "dialog" /\ Last(stack).open

\* CTk() starts the pump through the patched Tk.__init__, and install() once
\* more; each time two callbacks are scheduled.
OpenApp ==
  /\ app = "none" /\ stack = <<>> /\ ~over
  /\ app' = "open" /\ rootRef' = "app" /\ pump' = TRUE /\ polls' = [polls EXCEPT !["app"] = 4]
  /\ UNCHANGED <<keep, hidden, queue, posted, stack, probes, taken, shown, native, lost, reported, over>>

-----------------------------------------------------------------------------
(* The main thread *)

\* The dialog of e over window w, which the main thread waits for; when it
\* cannot be made, the user is told natively and the window is dealt with as
\* after a dialog (Return).
Over(e, w, below) ==
  \E made \in BOOLEAN :
    /\ stack' = Append(below, [kind |-> "dialog", error |-> e, root |-> w, open |-> made])
    /\ shown' = IF made THEN shown \union {e} ELSE shown
    /\ native' = IF made THEN native ELSE native \union {e}

\* _show_error_dialog() on the main thread.  Without a window a hidden one is
\* made, with its pump; without a display there is none.
Show(e, below) ==
  \/ Current # "none" /\ Over(e, Current, below) /\ UNCHANGED <<hidden, rootRef, pump, polls>>
  \/ /\ Current = "none"
     /\ hidden' = TRUE /\ rootRef' = "hidden" /\ pump' = TRUE
     /\ polls' = [polls EXCEPT !["hidden"] = 4]
     /\ Over(e, "hidden", below)
  \/ /\ Current = "none"
     /\ native' = native \union {e} /\ stack' = below
     /\ UNCHANGED <<hidden, rootRef, pump, polls, shown>>

MainRaises(e) ==
  /\ ~over /\ e \notin reported /\ (stack = <<>> \/ InLoop)
  /\ reported' = reported \union {e}
  /\ Show(e, stack)
  /\ UNCHANGED <<keep, app, queue, posted, probes, taken, lost, over>>

\* window.after(0, ...): the application's event loop reports a tool's error.
RunPosted(e) ==
  /\ ~over /\ InLoop /\ e \in posted /\ posted' = posted \ {e}
  /\ Show(e, stack)
  /\ UNCHANGED <<keep, app, queue, probes, taken, lost, reported, over>>

PollStarts(w) ==
  /\ ~over /\ InLoop /\ polls[w] > 0
  /\ polls' = [polls EXCEPT ![w] = @ - 1]
  /\ stack' = Append(stack, Polling)
  /\ UNCHANGED <<keep, app, hidden, rootRef, pump, queue, posted, probes, taken, shown, native, lost,
                 reported, over>>

\* mutant of PollTakes: one job is taken each time
PollTakesOne ==
  /\ ~over /\ stack # <<>> /\ Last(stack) = Polling /\ queue # <<>>
  /\ queue' = Tail(queue) /\ taken' = taken \union probes
  /\ Show(Head(queue), Front(stack))
  /\ UNCHANGED <<keep, app, posted, probes, lost, reported, over>>

\* _poll takes all there is, one dialog after the other.
PollTakes ==
  /\ ~over /\ stack # <<>> /\ Last(stack) = Polling /\ queue # <<>>
  /\ queue' = Tail(queue) /\ taken' = taken \union probes
  /\ Show(Head(queue), stack)
  /\ UNCHANGED <<keep, app, posted, probes, lost, reported, over>>

PollEnds ==
  /\ ~over /\ stack # <<>> /\ Last(stack) = Polling /\ queue = <<>>
  /\ stack' = Front(stack)
  /\ UNCHANGED <<keep, app, hidden, rootRef, pump, polls, queue, posted, probes, taken, shown, native,
                 lost, reported, over>>

Closed(frames, w) ==
  [i \in DOMAIN frames |->
     IF frames[i].kind = "dialog" /\ frames[i].root = w
     THEN [frames[i] EXCEPT !.open = FALSE] ELSE frames[i]]

\* A window goes away with its dialogs and its scheduled callbacks.
Destroy(w, frames) ==
  /\ stack' = Closed(frames, w)
  /\ polls' = [polls EXCEPT ![w] = 0]
  /\ rootRef' = IF rootRef = w THEN "none" ELSE rootRef
  /\ IF w = "app"
     THEN app' = "gone" /\ posted' = {} /\ lost' = lost \union posted /\ UNCHANGED hidden
     ELSE hidden' = FALSE /\ UNCHANGED <<app, posted, lost>>

CloseDialog(i) ==
  /\ ~over /\ stack[i].kind = "dialog" /\ stack[i].open
  /\ stack' = [stack EXCEPT ![i].open = FALSE]
  /\ UNCHANGED <<keep, app, hidden, rootRef, pump, polls, queue, posted, probes, taken, shown, native,
                 lost, reported, over>>

\* wait_window() returns, and the window the dialog was over is destroyed unless
\* it is a hidden one that is kept.  When the window has gone before, waiting for
\* its dialog may have raised, and the user is told natively as well.
Return ==
  /\ ~over /\ stack # <<>> /\ Last(stack).kind = "dialog" /\ ~Last(stack).open
  /\ LET w == Last(stack).root IN
     /\ IF (w = "hidden" /\ keep) \/ ~Alive(w)
        THEN stack' = Front(stack) /\ UNCHANGED <<app, hidden, rootRef, polls, posted, lost>>
        ELSE Destroy(w, Front(stack))
     /\ native' \in {native} \union
                    (IF Alive(w) THEN {} ELSE {native \union {Last(stack).error}})
  /\ UNCHANGED <<keep, pump, queue, probes, taken, shown, reported, over>>

CloseApp ==
  /\ ~over /\ app = "open" /\ InLoop
  /\ Destroy("app", stack)
  /\ UNCHANGED <<keep, pump, queue, probes, taken, shown, native, reported, over>>

\* The process ends with its threads; what is queued is logged.
Exit ==
  /\ ~over /\ app = "gone" /\ stack = <<>>
  /\ over' = TRUE
  /\ UNCHANGED <<keep, app, hidden, rootRef, pump, polls, queue, posted, stack, probes, taken, shown,
                 native, lost, reported>>

-----------------------------------------------------------------------------
(* The other threads *)

\* _enqueue_ui(): a thread that finds a window and no pump makes the window the
\* pump's, but cannot start it.
Enqueue(e) ==
  /\ queue' = Append(queue, e) /\ probes' = probes \union {e}
  /\ rootRef' = IF Current # "none" /\ ~pump THEN Current ELSE rootRef

ThreadRaises(e) ==
  /\ ~over /\ e \notin reported /\ reported' = reported \union {e}
  /\ Enqueue(e)
  /\ UNCHANGED <<keep, app, hidden, pump, polls, posted, stack, taken, shown, native, lost, over>>

\* run_tool(): the error goes to the window's event loop; when the window is
\* gone, it is reported in the tool's thread.
ToolFails(e) ==
  /\ ~over /\ app # "none" /\ e \notin reported /\ reported' = reported \union {e}
  /\ IF app = "open"
     THEN posted' = posted \union {e} /\ UNCHANGED <<queue, probes, rootRef>>
     ELSE Enqueue(e) /\ UNCHANGED posted
  /\ UNCHANGED <<keep, app, hidden, pump, polls, stack, taken, shown, native, lost, over>>

\* A second after e was queued: nothing was taken since, or there is no pump.
Probe(e) ==
  /\ ~over /\ e \in probes /\ probes' = probes \ {e} /\ taken' = taken \ {e}
  /\ native' = IF ~pump \/ e \notin taken THEN native \union {e} ELSE native
  /\ UNCHANGED <<keep, app, hidden, rootRef, pump, polls, queue, posted, stack, shown, lost, reported,
                 over>>

Next ==
  \/ OpenApp \/ PollTakes \/ PollEnds \/ Return \/ CloseApp \/ Exit
  \/ \E e \in Error :
       MainRaises(e) \/ RunPosted(e) \/ ThreadRaises(e) \/ ToolFails(e) \/ Probe(e)
  \/ \E w \in Window : PollStarts(w)
  \/ \E i \in DOMAIN stack : CloseDialog(i)

Spec == Init /\ [][Next]_vars

-----------------------------------------------------------------------------
(* Properties *)

\* An error that nobody has been told of is on its way as long as the process
\* runs: it waits for the application's event loop, or in the queue, where its
\* probe has yet to look or a _poll is at work that will come to it.
NobodyForgotten ==
  ~over =>
    \A e \in reported \ (shown \union native \union lost) :
      \/ e \in posted /\ app = "open"
      \/ e \in ToSet(queue) /\ (e \in probes \/ Polling \in ToSet(stack))

\* An error of a tool is lost only with the application's window.
LostWithWindow == lost # {} => app = "gone"

\* A dialog is over a window that is there, or is closed.
DialogsHaveWindows ==
  \A i \in DOMAIN stack :
    stack[i].kind = "dialog" /\ stack[i].open => Alive(stack[i].root)

PopupsInv == TypeOK /\ NobodyForgotten /\ LostWithWindow /\ DialogsHaveWindows

\* The application's window stays until the user closes it, whatever fails.
WindowSurvives == [][app = "open" /\ app' = "gone" => CloseApp]_vars
=============================================================================
