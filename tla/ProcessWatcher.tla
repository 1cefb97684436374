---------------------------- MODULE ProcessWatcher ----------------------------
(***************************************************************************)
(* ProcessWatcher (src/coolbox/utils/processes/monitor.py), the thread     *)
(* that samples the processes of the machine batch by batch, and the list  *)
(* ForceQuitDialog (src/coolbox/ui/views/dialogs/force_quit.py) keeps in   *)
(* step with it from the differences the thread leaves in a queue of one   *)
(* place.                                                                  *)
(*                                                                         *)
(* An entry is an object both sides hold, so a change of its figures needs *)
(* no message; entries are told apart by a number per pid.  Figures,       *)
(* filters and the pacing of the loop are left out.                        *)
(***************************************************************************)
EXTENDS Integers, Sequences, FiniteSets

CONSTANTS
  Pid,          \* process ids, in the order the system lists them
  Sizes,        \* batch sizes _update_batch_size() may choose
  MaxBirths,    \* bound on processes started
  MaxRefreshes  \* bound on refreshes scheduled at the same time

WatcherAssumption ==
  /\ Pid \subseteq Nat /\ IsFiniteSet(Pid)
  /\ Sizes \subseteq Nat \ {0} /\ MaxBirths \in Nat /\ MaxRefreshes \in Nat \ {0}

VARIABLES
  running,      \* pids in use
  young,        \* those whose process is younger than ignore_age
  births,       \* processes started
  snapshot,     \* _snapshot: pid -> its entry, 0 for none
  made,         \* entries made, by pid
  listing,      \* _proc_iter: none, due (process_iter() lists at its first next), open
  left,         \* pids the listing has still to give
  newPids,      \* _new_pids
  size,         \* batch_size
  step,         \* where run() is
  hand,         \* updates and removed of this batch
  queue,        \* the queue of one place
  pauseEvent, stopEvent,
  shown,        \* the dialog's process_snapshot
  refresh,      \* where _auto_refresh() is
  scheduled,    \* refreshes that after() will run
  open, paused, \* the dialog; the user's pause
  lost          \* pids whose last news was dropped unread

machine == <<running, young, births>>
sampling == <<snapshot, made, listing, left, newPids, size>>
events == <<pauseEvent, stopEvent>>
dialog == <<shown, refresh, scheduled, open, paused>>
watcherVars == <<machine, sampling, step, hand, queue, events, dialog, lost>>

Nothing == [updates |-> [p \in Pid |-> 0], removed |-> {}]
About(item) == item.removed \cup {p \in Pid : item.updates[p] # 0}
Listed(s) == {p \in Pid : s[p] # 0}

\* What _drain_queue() makes of an item
Applied(s, item) ==
  [p \in Pid |-> IF p \in item.removed THEN 0
                 ELSE IF item.updates[p] # 0 THEN item.updates[p] ELSE s[p]]

WatcherInit ==
  /\ running \in SUBSET Pid /\ young = {} /\ births = 0
  /\ snapshot = [p \in Pid |-> 0] /\ made = [p \in Pid |-> 0]
  /\ listing = "none" /\ left = {} /\ newPids = {} /\ size \in Sizes
  /\ step = "top" /\ hand = Nothing /\ queue = <<>>
  /\ pauseEvent = FALSE /\ stopEvent = FALSE
  /\ shown = [p \in Pid |-> 0] /\ refresh = "starting" /\ scheduled = 0
  /\ open = TRUE /\ paused = FALSE /\ lost = {}

-----------------------------------------------------------------------------
(* Processes *)

Starts(p) ==
  /\ p \notin running /\ births < MaxBirths /\ births' = births + 1
  /\ running' = running \cup {p} /\ young' = young \cup {p}
  /\ UNCHANGED <<sampling, step, hand, queue, events, dialog, lost>>

Ages(p) ==
  /\ p \in young /\ young' = young \ {p}
  /\ UNCHANGED <<running, births, sampling, step, hand, queue, events, dialog, lost>>

Exits(p) ==
  /\ p \in running /\ running' = running \ {p} /\ young' = young \ {p}
  /\ UNCHANGED <<births, sampling, step, hand, queue, events, dialog, lost>>

-----------------------------------------------------------------------------
(* The watcher's thread *)

\* run(): the head of the loop, with pids() when a new cycle begins
Loop ==
  /\ step = "top" /\ ~stopEvent /\ ~pauseEvent /\ step' = "sampling"
  /\ IF listing = "none"
     THEN listing' = "due" /\ newPids' = running
     ELSE UNCHANGED <<listing, newPids>>
  /\ UNCHANGED <<machine, snapshot, made, left, size, hand, queue, events, dialog, lost>>

\* A pause, or a load above the threshold: wait and look again
Rest ==
  /\ step = "top" /\ ~stopEvent /\ step' = "waiting"
  /\ UNCHANGED <<machine, sampling, hand, queue, events, dialog, lost>>

\* The next processes of the listing that still run, in order
Batch(all) ==
  LET here == all \cap running
      before(p) == {q \in here : q < p}
  IN {p \in here : Cardinality(before(p)) < size}

\* What the sampled processes leave in the snapshot: an entry is kept while
\* its pid is listed, whichever process has it
Collected(visited) ==
  [p \in Pid |-> IF p \in visited /\ snapshot[p] = 0 THEN made[p] + 1 ELSE snapshot[p]]

\* Whose entry is passed on: the new ones, and those found changed or due for
\* their details
Told(visited) ==
  {told \in SUBSET visited : {p \in visited : snapshot[p] = 0} \subseteq told}

\* At the end of a cycle, what pids() did not name when the cycle began
Gone(entries, ended) == IF ended THEN Listed(entries) \ newPids ELSE {}

\* stop() has shut the executor: the first task submitted raises and ends run()
Raises(visited) == stopEvent /\ visited # {}

Sample ==
  /\ step = "sampling"
  /\ LET all == IF listing = "due" THEN running ELSE left
         batch == Batch(all)
         visited == batch \ young
         ended == Cardinality(batch) < size
         entries == Collected(visited)
         gone == Gone(entries, ended)
     IN /\ listing' = IF ended THEN "none" ELSE "open"
        /\ left' = IF ended THEN {} ELSE {p \in all : \A q \in batch : q < p}
        /\ \/ /\ Raises(visited) /\ step' = "ended"
              /\ UNCHANGED <<snapshot, made, newPids, size, hand>>
           \/ /\ ~Raises(visited)
              /\ snapshot' = entries /\ newPids' = IF ended THEN {} ELSE newPids
              /\ made' = [p \in Pid |-> IF entries[p] > made[p] THEN entries[p] ELSE made[p]]
              /\ size' \in IF ended THEN Sizes ELSE {size}
              /\ \E told \in Told(visited) :
                   hand' = [updates |-> [p \in Pid |-> IF p \in told THEN entries[p] ELSE 0],
                            removed |-> gone]
              /\ step' = IF About(hand') = {} THEN "waiting" ELSE "putting"
  /\ UNCHANGED <<machine, queue, events, dialog, lost>>

Put ==
  /\ step = "putting" /\ queue = <<>> /\ queue' = <<hand>> /\ step' = "pruning"
  /\ lost' = lost \ About(hand)
  /\ UNCHANGED <<machine, sampling, hand, events, dialog>>

\* queue.Full: the item nobody has read makes room
Displace ==
  /\ step = "putting" /\ queue # <<>> /\ step' = "displacing"
  /\ UNCHANGED <<machine, sampling, hand, queue, events, dialog, lost>>

Drop ==
  /\ step = "displacing" /\ step' = "putting"
  /\ queue' = <<>>
  /\ lost' = IF queue = <<>> THEN lost ELSE lost \cup About(Head(queue))
  /\ UNCHANGED <<machine, sampling, hand, events, dialog>>

KeepEntries ==                            \* mutant of Prune
  /\ step = "pruning" /\ step' = "waiting" /\ hand' = Nothing
  /\ UNCHANGED <<machine, sampling, queue, events, dialog, lost>>

Prune ==
  /\ step = "pruning" /\ step' = "waiting" /\ hand' = Nothing
  /\ snapshot' = [p \in Pid |-> IF p \in hand.removed THEN 0 ELSE snapshot[p]]
  /\ UNCHANGED <<machine, made, listing, left, newPids, size, queue, events, dialog, lost>>

\* _stop_event.wait(interval)
Wait ==
  /\ step = "waiting" /\ step' = "top"
  /\ UNCHANGED <<machine, sampling, hand, queue, events, dialog, lost>>

DeafWait ==                               \* mutant of Leave
  /\ step \in {"top", "waiting"} /\ stopEvent /\ ~pauseEvent /\ step' = "ended"
  /\ UNCHANGED <<machine, sampling, hand, queue, events, dialog, lost>>

Leave ==
  /\ step \in {"top", "waiting"} /\ stopEvent /\ step' = "ended"
  /\ UNCHANGED <<machine, sampling, hand, queue, events, dialog, lost>>

-----------------------------------------------------------------------------
(* The dialog *)

\* _auto_refresh(): what after() runs, the constructor's first call
Refresh ==
  /\ open /\ ~paused
  /\ \/ refresh = "starting" /\ UNCHANGED scheduled
     \/ refresh = "idle" /\ scheduled > 0 /\ scheduled' = scheduled - 1
  /\ refresh' = "draining"
  /\ UNCHANGED <<machine, sampling, step, hand, queue, events, shown, open, paused, lost>>

\* _drain_queue(): the test for an empty queue; the rest of the refresh
Drained ==
  /\ refresh = "draining"
  /\ IF queue = <<>> THEN refresh' = "idle" /\ scheduled' = scheduled + 1
     ELSE refresh' = "getting" /\ UNCHANGED scheduled
  /\ UNCHANGED <<machine, sampling, step, hand, queue, events, shown, open, paused, lost>>

\* get_nowait(): an item the watcher has taken back meanwhile raises Empty, and
\* the refresh ends before it has scheduled the next
Get ==
  /\ refresh = "getting"
  /\ IF queue = <<>> THEN refresh' = "idle" /\ UNCHANGED <<shown, queue>>
     ELSE /\ shown' = Applied(shown, Head(queue)) /\ queue' = <<>>
          /\ refresh' = "draining"
  /\ UNCHANGED <<machine, sampling, step, hand, events, scheduled, open, paused, lost>>

\* _toggle_pause(): resuming refreshes at once, besides what is scheduled
TogglePause ==
  /\ open /\ refresh = "idle"
  /\ paused' = ~paused /\ pauseEvent' = paused'
  /\ IF paused THEN scheduled < MaxRefreshes /\ refresh' = "draining" ELSE UNCHANGED refresh
  /\ UNCHANGED <<machine, sampling, step, hand, queue, stopEvent, shown, scheduled, open, lost>>

\* _on_close() and stop(); what after() still holds finds no window
Close ==
  /\ open /\ refresh = "idle"
  /\ open' = FALSE /\ scheduled' = 0 /\ stopEvent' = TRUE
  /\ UNCHANGED <<machine, sampling, step, hand, queue, pauseEvent, shown, refresh, paused, lost>>

-----------------------------------------------------------------------------
Machine == \E p \in Pid : Starts(p) \/ Ages(p) \/ Exits(p)
Run == Loop \/ Rest \/ Sample \/ Put \/ Displace \/ Drop \/ Prune \/ Wait \/ Leave
Tk == Refresh \/ Drained \/ Get \/ TogglePause \/ Close

WatcherNext == Machine \/ Run \/ Tk
WatcherSpec == WatcherInit /\ [][WatcherNext]_watcherVars

\* The thread goes on; a wait that ends finds the stop event
Going == Loop \/ Sample \/ Put \/ Displace \/ Drop \/ Prune \/ Leave
FairWatcher == WatcherSpec /\ WF_watcherVars(Going)

-----------------------------------------------------------------------------
(* Properties *)

Entry == Nat
Items == [updates : [Pid -> Entry], removed : SUBSET Pid]

WatcherTypeOK ==
  /\ running \subseteq Pid /\ young \subseteq running /\ births \in 0..MaxBirths
  /\ snapshot \in [Pid -> Entry] /\ made \in [Pid -> Entry]
  /\ listing \in {"none", "due", "open"} /\ left \subseteq Pid /\ newPids \subseteq Pid
  /\ size \in Sizes /\ hand \in Items
  /\ step \in {"top", "sampling", "putting", "displacing", "pruning", "waiting", "ended"}
  /\ queue = <<>> \/ queue \in [1..1 -> Items]
  /\ pauseEvent \in BOOLEAN /\ stopEvent \in BOOLEAN /\ open \in BOOLEAN /\ paused \in BOOLEAN
  /\ shown \in [Pid -> Entry] /\ refresh \in {"starting", "idle", "draining", "getting"}
  /\ scheduled \in 0..MaxRefreshes /\ lost \subseteq Pid

\* The differences add up: with what is still on its way the dialog holds the
\* very entries of the watcher, for every pid whose last news has not been
\* dropped (run() 1721-1737, _drain_queue()).
DeltasAddUp ==
  LET read == IF queue = <<>> THEN shown ELSE Applied(shown, Head(queue))
      known == IF step \in {"putting", "displacing"} THEN Applied(read, hand) ELSE read
  IN \A p \in Pid \ lost : known[p] = IF p \in hand.removed THEN 0 ELSE snapshot[p]

WatchInv == WatcherTypeOK /\ DeltasAddUp

\* A closed dialog leaves no thread behind, wherever its loop was and whether or
\* not it was paused (stop(), run()).
WatcherEnds == stopEvent ~> step = "ended"

\* The class says that removed holds what has disappeared since the last
\* refresh: when all news has been read, the list names no process the watcher
\* has dropped.
ListInStep ==
  queue = <<>> /\ hand = Nothing /\ refresh = "idle" => Listed(shown) \subseteq Listed(snapshot)
=============================================================================
