------------------------------- MODULE Chooser -------------------------------
(***************************************************************************)
(* What ClickOverlay.choose() promises its callers: "Show the overlay and  *)
(* return the PID and title of the clicked window"                         *)
(* (src/coolbox/ui/views/overlays/click_overlay.py:1908).  A call shows    *)
(* the overlay and then waits until it is closed, on a window clicked      *)
(* since the call was asked for or on none; it answers with what the       *)
(* overlay was closed on.  Calls nest: the last one asked for is the       *)
(* innermost, and the others, their wait being over with its begin, answer *)
(* after it.                                                               *)
(***************************************************************************)
EXTENDS Naturals

CONSTANTS
  Window,     \* what can be clicked; stands for its process
  Nobody,     \* no process
  MaxAsks     \* bound on calls of choose()

VARIABLES
  asked,      \* calls of choose() so far
  open,       \* those under way
  waiting,    \* of these, those whose overlay is shown, so that a close ends them
  closed,     \* the innermost is about to return
  clicked,    \* windows clicked since a call under way, or the last, was asked for
  picked,     \* what the innermost will return
  answer      \* what the last to return returned

chooser == <<asked, open, waiting, closed, clicked, picked, answer>>
Asks == 1..MaxAsks

ChooserInit ==
  /\ asked = 0 /\ open = {} /\ waiting = {} /\ closed = FALSE
  /\ clicked = [c \in Asks |-> {}] /\ picked = Nobody /\ answer = Nobody

Inner(c) == c \in open /\ \A d \in open : d <= c
Waits == \E c \in waiting : Inner(c)

\* what may still matter of the clicks
ClickedFor(calls) == [c \in Asks |-> IF c \in calls THEN clicked[c] ELSE {}]

Asked ==
  /\ asked' = asked + 1 /\ clicked' = ClickedFor(open)
  /\ UNCHANGED <<open, waiting, closed, picked, answer>>
Ask == asked < MaxAsks /\ Asked

Open(c) ==
  /\ ~closed /\ c <= asked /\ \A d \in open : d < c
  /\ open' = open \cup {c}
  /\ UNCHANGED <<asked, waiting, closed, clicked, picked, answer>>

Show(c) ==
  /\ Inner(c) /\ c \notin waiting /\ waiting' = waiting \cup {c}
  /\ UNCHANGED <<asked, open, closed, clicked, picked, answer>>

ClickOn(w) ==
  /\ clicked' = [c \in Asks |-> IF c \in open \cup {asked} THEN clicked[c] \cup {w} ELSE clicked[c]]
  /\ UNCHANGED <<asked, open, waiting, closed, picked, answer>>

CloseOn(w) ==
  /\ ~closed /\ \E c \in waiting : Inner(c) /\ w \in clicked[c] \cup {Nobody}
  /\ closed' = TRUE /\ picked' = w
  /\ UNCHANGED <<asked, open, waiting, clicked, answer>>

Return ==
  /\ closed
  /\ \E c \in open : Inner(c) /\ open' = open \ {c} /\ waiting' = waiting \ {c}
  /\ closed' = Waits' /\ picked' = Nobody /\ answer' = picked
  /\ clicked' = ClickedFor(open' \cup {asked})
  /\ UNCHANGED asked

ChooserNext ==
  \/ Ask \/ Return
  \/ \E c \in Asks : Open(c) \/ Show(c)
  \/ \E w \in Window : ClickOn(w)
  \/ \E w \in Window \cup {Nobody} : CloseOn(w)
ChooserSpec == ChooserInit /\ [][ChooserNext]_chooser
=============================================================================
