----------------------------- MODULE KillByClick -----------------------------
(***************************************************************************)
(* Kill by Click of ForceQuitDialog                                        *)
(* (src/coolbox/ui/views/dialogs/force_quit.py) over what choose() of its  *)
(* overlay promises (Chooser).  Each session has a thread that posts       *)
(* choose(), waits for it and posts the end; in developer mode another     *)
(* thread listens to a watchdog process                                    *)
(* (src/coolbox/utils/processes/force_quit_watchdog.py), which reports an  *)
(* overlay without a sign of life.  The dialog is hidden and its process   *)
(* list paused while a session lasts.                                      *)
(*                                                                         *)
(* What Tk runs by after(0) keeps its order.  The watchdog may report at   *)
(* any time: how long the overlay was silent is not modelled.  A close     *)
(* that comes while choose() still shows the overlay is lost, and a watch- *)
(* dog that does not die within a tenth of a second fails the cleanup.     *)
(***************************************************************************)
EXTENDS Chooser, Sequences

CONSTANTS
  Error,        \* a choose() that raised
  Timeout,      \* what the watchdog ends a session with
  Watched,      \* bound: the settings of skip that developer mode is seen with
  MaxReuses     \* bound on process ids given to another process

DialogAssumption ==
  /\ Nobody \notin Window /\ {Error, Timeout} \cap (Window \cup {Nobody}) = {}
  /\ MaxAsks \in Nat /\ MaxReuses \in Nat /\ Watched \subseteq BOOLEAN

VARIABLES
  developer,    \* developer_mode
  skip,         \* KILL_BY_CLICK_SKIP_CONFIRM, as reset() applies it to the overlay
  visible,      \* the dialog is not withdrawn
  paused,       \* the user has paused the list
  watching,     \* the process watcher runs
  session,      \* sessions begun
  ctx,          \* _overlay_ctx, by session; 0 for None
  thread,       \* _overlay_thread
  done,         \* sessions whose done event is set
  runner,       \* per session: unborn, starting, waiting, ended
  held,         \* per session: what choose() left for its thread
  read,         \* per session: the process its thread found behind the window
  poller,       \* per session: unborn, listening, closing, reporting, ended
  posted,       \* after(0): calls of choose() and ends of sessions
  prompt,       \* the session whose target is to be confirmed, 0
  process,      \* window -> its process: how often its id has been reused
  killed,       \* the last kill: its session, window and process
  joining,      \* cancel_kill_by_click() waits for the thread
  cancelled,    \* the last session it ended
  missed,       \* calls under way that were closed before they waited
  raised,       \* the last cleanup gave up on the watchdog process
  robbed        \* the poller of an earlier session took the thread of this one

Session == 1..MaxAsks
dialog == <<paused, visible, watching, session, ctx, thread, prompt, joining>>
threads == <<runner, read, poller>>
results == <<done, held>>
target == <<process, killed>>
history == <<cancelled, missed, raised, robbed>>
dialogVars == <<developer, skip, chooser, dialog, threads, results, posted, target, history>>

NoKill == [of |-> 0, win |-> Nobody, proc |-> 0]
Unread == MaxReuses + 1
Item(kind, s, res) == [kind |-> kind, of |-> s, res |-> res]
Alive(s) == s # 0 /\ runner[s] # "ended"

\* Tk runs what comes next, unless choose() is about to return or a cancel waits
Free == ~closed /\ ~joining
Serve(kind) == Free /\ posted # <<>> /\ Head(posted).kind = kind /\ posted' = Tail(posted)

DialogInit ==
  /\ ChooserInit
  /\ developer \in BOOLEAN /\ skip \in BOOLEAN /\ (developer => skip \in Watched)
  /\ paused = FALSE /\ visible = TRUE /\ watching = TRUE
  /\ session = 0 /\ ctx = 0 /\ thread = 0 /\ done = {}
  /\ runner = [s \in Session |-> "unborn"] /\ held = [s \in Session |-> Nobody]
  /\ read = [s \in Session |-> Unread] /\ poller = [s \in Session |-> "unborn"]
  /\ posted = <<>> /\ prompt = 0
  /\ process = [w \in Window |-> 0] /\ killed = NoKill /\ joining = FALSE
  /\ cancelled = 0 /\ missed = {} /\ raised = FALSE /\ robbed = FALSE

-----------------------------------------------------------------------------
(* Beginning a session *)

\* _toggle_pause()
TogglePause ==
  /\ Free /\ visible /\ prompt = 0
  /\ paused' = ~paused /\ watching' = paused
  /\ UNCHANGED <<developer, skip, chooser, visible, session, ctx, thread, prompt, joining,
                 threads, results, posted, target, history>>

\* _kill_by_click() by the button, which cannot be reached while the dialog is
\* hidden or asks
Start ==
  /\ Free /\ visible /\ prompt = 0 /\ ~Alive(thread) /\ session < MaxAsks
  /\ session' = session + 1 /\ ctx' = session + 1 /\ thread' = session + 1 /\ Asked
  /\ visible' = FALSE /\ watching' = FALSE
  /\ runner' = [runner EXCEPT ![session + 1] = "starting"]
  /\ poller' = [poller EXCEPT ![session + 1] = IF developer THEN "listening" ELSE "ended"]
  /\ robbed' = FALSE
  /\ UNCHANGED <<developer, skip, paused, prompt, joining, read, results, posted, target,
                 cancelled, missed, raised>>

\* its thread posts choose()
PostChoose(s) ==
  /\ runner[s] = "starting" /\ runner' = [runner EXCEPT ![s] = "waiting"]
  /\ posted' = Append(posted, Item("choose", s, Nobody))
  /\ UNCHANGED <<developer, skip, chooser, dialog, read, poller, results, target, history>>

ChooseAnyway ==                           \* mutant of Choose
  /\ Serve("choose") /\ Open(Head(posted).of)
  /\ UNCHANGED <<developer, skip, dialog, threads, results, target, history>>

\* invoke_choose() is dropped when its session is over; choose() may raise
Choose ==
  LET s == Head(posted).of
  IN /\ Serve("choose")
     /\ \/ s \in done /\ UNCHANGED <<chooser, results>>
        \/ s \notin done /\ Open(s) /\ UNCHANGED results
        \/ /\ s \notin done /\ done' = done \cup {s} /\ held' = [held EXCEPT ![s] = Error]
           /\ UNCHANGED chooser
     /\ UNCHANGED <<developer, skip, dialog, threads, target, history>>

-----------------------------------------------------------------------------
(* The overlay, as Chooser has it *)

Shows ==
  /\ Free /\ \E s \in open : Show(s)
  /\ UNCHANGED <<developer, skip, dialog, threads, results, posted, target, history>>

Click(w) ==
  /\ asked > 0 /\ ClickOn(w)
  /\ UNCHANGED <<developer, skip, dialog, threads, results, posted, target, history>>

\* a click, Escape or the overlay's own timeout
Closes(w) ==
  /\ Free /\ CloseOn(w)
  /\ UNCHANGED <<developer, skip, dialog, threads, results, posted, target, history>>

\* choose() returns into invoke_choose()
Returns ==
  /\ ~joining /\ Return
  /\ \E s \in open :
       /\ Inner(s) /\ held' = [held EXCEPT ![s] = picked]
       /\ done' = done \cup {s} /\ missed' = missed \ {s}
  /\ UNCHANGED <<developer, skip, dialog, threads, posted, target, cancelled, raised, robbed>>

\* close() or reset() of the overlay by the dialog, lost on a call that does not
\* wait yet
CloseOverlay ==
  \/ closed /\ UNCHANGED <<chooser, missed>>
  \/ CloseOn(Nobody) /\ UNCHANGED missed
  \/ ~closed /\ ~Waits /\ missed' = missed \cup {s \in open : Inner(s)} /\ UNCHANGED chooser

-----------------------------------------------------------------------------
(* Ending a session *)

\* The session's thread wakes, looks at the process, if it can, and posts the end,
\* unless the session has been taken from it.  Until it posts, no one knows.
PostEnd(s) ==
  /\ runner[s] = "waiting" /\ s \in done
  /\ runner' = [runner EXCEPT ![s] = "ended"]
  /\ \E found \in {Unread} \cup {process[w] : w \in {held[s]} \cap Window} :
       read' = [read EXCEPT ![s] = found]
  /\ posted' = IF thread = 0 THEN posted ELSE Append(posted, Item("end", s, held[s]))
  /\ UNCHANGED <<developer, skip, chooser, dialog, poller, results, target, history>>

AlwaysResume(s) ==                        \* mutant of Cleanup
  /\ done' = done \cup {s} /\ thread' = 0 /\ ctx' = 0 /\ raised' = FALSE
  /\ poller' = [poller EXCEPT ![s] = IF @ = "listening" THEN "ended" ELSE @]
  /\ visible' = TRUE /\ watching' = TRUE
  /\ CloseOverlay
  /\ UNCHANGED <<held, runner, read, paused, session, robbed>>

\* _cleanup_overlay() and, with it, _OverlayContext.__exit__()
Cleanup(s) ==
  /\ done' = done \cup {s} /\ thread' = 0 /\ ctx' = 0 /\ raised' = FALSE
  /\ poller' = [poller EXCEPT ![s] = IF @ = "listening" THEN "ended" ELSE @]
  /\ visible' = TRUE /\ watching' = ~paused
  /\ CloseOverlay
  /\ UNCHANGED <<held, runner, read, paused, session, robbed>>

\* ... whose wait for the watchdog process raises
CleanupRaises(s) ==
  /\ developer /\ done' = done \cup {s} /\ thread' = 0 /\ raised' = TRUE
  /\ UNCHANGED <<chooser, missed, held, runner, read, poller, paused, visible, watching, session,
                 ctx, robbed>>

Kill(s, w) == killed' = [of |-> s, win |-> w, proc |-> process[w]]

AnyEnd ==                                 \* mutant of End
  LET item == Head(posted)
      same == item.res \in Window /\ read[item.of] \in {Unread, process[item.res]}
  IN /\ Serve("end")
     /\ Cleanup(item.of)
     /\ IF same /\ skip THEN Kill(item.of, item.res) ELSE UNCHANGED killed
     /\ prompt' = IF same /\ ~skip THEN item.of ELSE prompt
     /\ UNCHANGED <<developer, skip, process, joining, cancelled>>

\* _finish_kill_by_click(): an end of another session is ignored, and with the
\* cleanup the end fails; a process that is not the one that was read is spared
End ==
  LET item == Head(posted)
      same == item.res \in Window /\ read[item.of] \in {Unread, process[item.res]}
  IN /\ Serve("end")
     /\ \/ /\ item.of # ctx
           /\ UNCHANGED <<chooser, dialog, threads, results, killed, missed, raised, robbed>>
        \/ item.of = ctx /\ CleanupRaises(ctx) /\ UNCHANGED <<killed, prompt>>
        \/ /\ item.of = ctx /\ Cleanup(ctx)
           /\ IF same /\ skip THEN Kill(ctx, item.res) ELSE UNCHANGED killed
           /\ prompt' = IF same /\ ~skip THEN ctx ELSE prompt
     /\ UNCHANGED <<developer, skip, process, joining, cancelled>>

\* the user answers the prompt
Confirm(yes) ==
  /\ Free /\ prompt # 0 /\ prompt' = 0
  /\ IF yes THEN Kill(prompt, held[prompt]) ELSE UNCHANGED killed
  /\ UNCHANGED <<developer, skip, chooser, paused, visible, watching, session, ctx, thread,
                 joining, threads, results, posted, process, history>>

\* cancel_kill_by_click() closes the overlay and tells the thread, which may
\* still post its end ...
Cancel ==
  /\ Free /\ ctx # 0 /\ joining' = TRUE /\ done' = done \cup {ctx}
  /\ IF Alive(thread) THEN CloseOverlay ELSE UNCHANGED <<chooser, missed>>
  /\ UNCHANGED <<developer, skip, paused, visible, watching, session, ctx, thread, prompt,
                 threads, held, posted, target, cancelled, raised, robbed>>

\* ... and cleans up
Cancelled ==
  /\ joining /\ joining' = FALSE
  /\ \/ Cleanup(ctx) /\ cancelled' = ctx
     \/ CleanupRaises(ctx) /\ UNCHANGED cancelled
  /\ UNCHANGED <<developer, skip, prompt, posted, target>>

-----------------------------------------------------------------------------
(* The watchdog, _poll_watchdog_output() *)

Report(s) ==
  /\ poller[s] = "listening" /\ poller' = [poller EXCEPT ![s] = "closing"]
  /\ UNCHANGED <<developer, skip, chooser, dialog, runner, read, results, posted, target, history>>

\* Tk closes the overlay on behalf of the thread
PollerCloses(s) ==
  /\ Free /\ poller[s] = "closing" /\ poller' = [poller EXCEPT ![s] = "reporting"]
  /\ CloseOverlay
  /\ UNCHANGED <<developer, skip, dialog, runner, read, results, posted, target, cancelled, raised,
                 robbed>>

ForgetToPost(s) ==                        \* mutant of PollerEnds
  /\ poller[s] = "reporting" /\ poller' = [poller EXCEPT ![s] = "ended"]
  /\ thread' = 0 /\ robbed' = (robbed \/ ctx \notin {0, s})
  /\ UNCHANGED <<developer, skip, chooser, paused, visible, watching, session, ctx, prompt,
                 joining, runner, read, results, posted, target, cancelled, missed, raised>>

PollerEnds(s) ==
  /\ poller[s] = "reporting" /\ poller' = [poller EXCEPT ![s] = "ended"]
  /\ thread' = 0 /\ robbed' = (robbed \/ ctx \notin {0, s})
  /\ posted' = Append(posted, Item("end", s, Timeout))
  /\ UNCHANGED <<developer, skip, chooser, paused, visible, watching, session, ctx, prompt,
                 joining, runner, read, results, target, cancelled, missed, raised>>

\* It matters once the thread of the session has looked at the process.
Reuse(w) ==
  /\ session # 0 /\ held[session] = w /\ runner[session] = "ended"
  /\ process[w] < MaxReuses /\ process' = [process EXCEPT ![w] = @ + 1]
  /\ UNCHANGED <<developer, skip, chooser, dialog, threads, results, posted, killed, history>>

Tk == Choose \/ End \/ Cancelled
Thread(s) == PostChoose(s) \/ PostEnd(s)
Poller(s) == PollerCloses(s) \/ PollerEnds(s)
DialogNext ==
  \/ TogglePause \/ Start \/ Tk \/ Shows \/ Returns \/ Cancel
  \/ \E w \in Window : Click(w) \/ Reuse(w)
  \/ \E w \in Window \cup {Nobody} : Closes(w)
  \/ \E s \in Session : Thread(s) \/ Report(s) \/ Poller(s)
  \/ \E yes \in BOOLEAN : Confirm(yes)
DialogSpec == DialogInit /\ [][DialogNext]_dialogVars

\* Tk and the threads keep running; nobody has to click, answer or cancel
DialogFairness ==
  /\ WF_dialogVars(Tk) /\ WF_dialogVars(Returns)
  /\ \A s \in Session : WF_dialogVars(Thread(s)) /\ WF_dialogVars(Poller(s))
FairDialog == DialogSpec /\ DialogFairness

-----------------------------------------------------------------------------
\* The dialog is hidden and its list paused exactly while a session lasts, and
\* the list runs on unless the user had paused it (_OverlayContext).
Restored == /\ visible <=> ctx = 0
            /\ watching <=> visible /\ ~paused

\* choose() waits for the session under way and for no other: not for one that
\* was cancelled before choose() began, nor after the dialog is back, unless the
\* close came while the overlay was still being shown.
NoOrphan == \A s \in open : s \in {ctx} \cup missed \/ (closed /\ Inner(s))

\* Both (_kill_by_click, _cleanup_overlay).
SessionInv == Restored /\ NoOrphan

\* What is killed was clicked since the session began that ends in the kill,
\* and nobody cancelled the session, unless the cancel failed; a process that was
\* identified is the one that is killed, unless the prompt was open in between.
KillsChosen ==
  [][killed' # killed =>
       /\ killed'.of = session /\ session # cancelled /\ killed'.win \in clicked[session]
       /\ skip => read[session] \in {Unread, killed'.proc}]_dialogVars

\* Once choose() is over the dialog comes back (run, _finish_kill_by_click,
\* _poll_watchdog_output), unless its cleanup gave up on the watchdog process, or
\* the poller of an earlier session took its thread away.
Ending == ctx \in done
Ended == ctx = 0 \/ raised \/ robbed
SessionEnds == Ending ~> Ended
=============================================================================
