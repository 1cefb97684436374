----------------------------- MODULE ScanDialog -----------------------------
(* The window of the automatic network scan (AutoNetworkScanDialog,
   ui/views/dialogs/auto_scan.py), around a scan that NetworkScan models: here it
   only reports, finds hosts and ends.  A scan has a thread of its own, whose calls
   of Tk are run by the window's thread one at a time; what it leaves for later,
   with after(), is run in order.  The scan's end hides the bar with a timer, which
   the next scan may meet.  Numbers, sorting and the files that are exported are
   left out; the ten details of a host are one. *)
EXTENDS Naturals, Sequences, FiniteSets

CONSTANTS
  Host,
  MaxStarts, MaxSwitched   \* bounds: clicks of Start, changes of filter and switches

VARIABLES
  buttons,   \* start_btn enabled; cancel_btn there; the export buttons there
  bar,       \* the progress bar and its label: shown, and what the label says
  event,     \* cancel_event: "none", "clear" or "set"
  thread,    \* where the scan's thread is; "idle" when there is none
  asked,     \* the details it was started with
  found,     \* its results
  last,      \* last_results, and the details they have
  rows,      \* the table: its hosts, those the filter leaves, and the details it tells
  posted,    \* after(0): "refresh", "hide" or "show", in order
  timers,    \* after(750) under way
  on,        \* the switches
  query,     \* the hosts that match the filter
  window,
  starts, switched,
  ended,     \* history: how the last scan ended
  stopped,   \* history: Cancel was pressed "before" the finally: of it, or "after"; or "no"
  late,      \* history: a timer of an earlier scan ran since its last report
  typed      \* history: the filter was typed after the table was last made

dialogVars == <<buttons, bar, event, thread, asked, found, last, rows, posted, timers, on, query,
                window, starts, switched, ended, stopped, late, typed>>

Detail == {"service", "banner", "latency", "host"}
Presets == {{}, {"service", "latency", "host"}, Detail}

DialogInit ==
  /\ buttons = [start |-> TRUE, abort |-> FALSE, export |-> FALSE]
  /\ bar = [shown |-> FALSE, says |-> "nothing"] /\ event = "none" /\ thread = "idle"
  /\ asked = {} /\ found = {} /\ last = [hosts |-> {}, asked |-> {}]
  /\ rows = [all |-> {}, seen |-> {}, told |-> {}]
  /\ posted = <<>> /\ timers = 0 /\ on \in {{}, {"service"}} /\ query = Host /\ window = TRUE
  /\ starts = 0 /\ switched = 0
  /\ ended = "never" /\ stopped = "no" /\ late = FALSE /\ typed = TRUE

Says(text) == bar' = [bar EXCEPT !.says = text]
Table == <<last, rows, typed>>
Form == <<on, query, window, switched>>

----------------------------------------------------------------------------
(* What the user does *)

\* _start_scan(): what is written for ports or numbers may be refused; a new event
\* is there by then.
Start(legal) ==
  /\ window /\ buttons.start /\ starts < MaxStarts /\ starts' = starts + 1
  /\ event' = "clear"
  /\ buttons' = [start |-> ~legal, abort |-> legal, export |-> FALSE]
  /\ IF legal
     THEN /\ bar' = [shown |-> TRUE, says |-> "detecting"] /\ thread' = "begin"
          /\ found' = {} /\ stopped' = "no" /\ late' = FALSE
     ELSE bar' = [bar EXCEPT !.shown = FALSE] /\ UNCHANGED <<thread, found, stopped, late>>
  /\ UNCHANGED <<asked, Table, posted, timers, Form, ended>>
Cancel ==
  /\ window /\ buttons.abort /\ event = "clear" /\ event' = "set"
  /\ stopped' = (IF thread \in {"begin", "scan", "draw", "end"} THEN "before" ELSE "after")
  /\ UNCHANGED <<buttons, bar, thread, asked, found, Table, posted, timers, Form, starts, ended, late>>
Switched == window /\ switched < MaxSwitched /\ switched' = switched + 1
Switch ==
  /\ Switched
  /\ \/ \E d \in Detail : on' = (on \ {d}) \cup ({d} \ on)
     \/ on' \in Presets                                       \* _set_preset()
  /\ UNCHANGED <<buttons, bar, event, thread, asked, found, Table, posted, timers, query, window,
                 starts, ended, stopped, late>>
\* _filter_results() looks at the rows that are there.
Filter ==
  /\ Switched /\ query' \in SUBSET Host
  /\ rows' = [rows EXCEPT !.seen = rows.all \cap query'] /\ typed' = TRUE
  /\ UNCHANGED <<buttons, bar, event, thread, asked, found, last, posted, timers, on, window, starts,
                 ended, stopped, late>>
\* What is still to be run fails without a word.
Close ==
  /\ window /\ window' = FALSE /\ posted' = <<>> /\ timers' = 0
  /\ UNCHANGED <<buttons, bar, event, thread, asked, found, Table, on, query, starts, switched,
                 ended, stopped, late>>

----------------------------------------------------------------------------
(* The thread: run() *)

Tools == <<buttons, event, Form, starts, stopped>>
\* mutant of Hides: the bar of a scan that was cancelled stays
HidesNever == <<>>
\* the finally: of run()
Hides == IF event = "set" THEN <<"hide">> ELSE <<>>
\* The switches are read by the thread, not by the click.
Begin ==
  /\ thread = "begin" /\ thread' = "scan" /\ asked' = on
  /\ UNCHANGED <<Tools, bar, found, Table, posted, timers, ended, late>>
\* update(value), two calls of Tk: the bar is there, then it says how far the scan is.
Report ==
  /\ thread = "scan" /\ window /\ thread' = "draw"
  /\ bar' = [bar EXCEPT !.shown = TRUE] /\ late' = FALSE
  /\ UNCHANGED <<Tools, asked, found, Table, posted, timers, ended>>
Draw ==
  /\ thread = "draw" /\ window /\ thread' = "scan"
  /\ Says(IF found # {} \/ bar.says = "scanning" THEN "scanning" ELSE "detecting")
     \/ Says("scanning")
  /\ UNCHANGED <<Tools, asked, found, Table, posted, timers, ended, late>>
Find(h) ==
  /\ thread = "scan" /\ window /\ h \notin found /\ found' = found \cup {h}
  /\ last' = [hosts |-> found', asked |-> asked] /\ posted' = Append(posted, "refresh")
  /\ UNCHANGED <<Tools, bar, thread, asked, rows, typed, timers, ended, late>>
\* update(None): the end of the loop over the hosts
EndsWhole ==
  /\ thread = "scan" /\ window /\ thread' = "end" /\ ended' = "whole"
  /\ Says("complete") /\ timers' = timers + 1
  /\ UNCHANGED <<Tools, asked, found, Table, posted, late>>
\* update(1.0): nobody answered the pings, or the event was set by then
EndsEarly ==
  /\ thread = "scan" /\ window /\ found = {} /\ thread' = "end" /\ ended' = "early"
  /\ bar' = [shown |-> TRUE, says |-> "scanning"]
  /\ UNCHANGED <<Tools, asked, found, Table, posted, timers, late>>
\* An exception, which any call of Tk raises when the window has gone: show() is
\* never left for later.
Raises ==
  /\ thread \in {"begin", "scan", "draw"} \/ (~window /\ thread \in {"end", "left"})
  /\ thread' = "idle" /\ ended' = "raised"
  /\ posted' = IF window THEN posted \o Hides ELSE posted
  /\ UNCHANGED <<Tools, bar, asked, found, Table, timers, late>>
Finally ==
  /\ thread = "end" /\ window /\ thread' = "left" /\ posted' = posted \o Hides
  /\ UNCHANGED <<Tools, bar, asked, found, Table, timers, ended, late>>
Leave ==
  /\ thread = "left" /\ window /\ thread' = "idle" /\ posted' = Append(posted, "show")
  /\ UNCHANGED <<Tools, bar, asked, found, Table, timers, ended, late>>

----------------------------------------------------------------------------
(* The window's thread *)

\* fmt_port(): a port that was asked for its banner or its latency has the name of
\* its service as well; one that only has the name tells it in any case.
Told(has) ==
  (has \cap on \cap {"host"}) \cup
  (IF has \cap {"banner", "latency"} = {} THEN has \cap {"service"}
   ELSE IF "banner" \in on THEN {"service"} \cup (has \cap {"banner"})
   ELSE IF "service" \in on THEN {"service"}
   ELSE has \cap on \cap {"latency"})
\* _refresh_rows() makes all rows anew, whatever the filter says.
Rows(results) == rows' = [all |-> results.hosts, seen |-> results.hosts, told |-> Told(results.asked)]
Posted(what) ==
  /\ window /\ posted # <<>> /\ Head(posted) = what /\ posted' = Tail(posted)
  /\ UNCHANGED <<thread, asked, found, timers, Form, starts, ended, stopped, late>>
RunRefresh ==
  /\ Posted("refresh") /\ Rows(last) /\ typed' = FALSE
  /\ UNCHANGED <<buttons, bar, event, last>>
RunHide ==
  /\ Posted("hide") /\ bar' = [bar EXCEPT !.shown = FALSE]
  /\ UNCHANGED <<buttons, event, Table>>
\* show(): of a scan that was cancelled the label says so, without being there.
RunShow ==
  /\ Posted("show") /\ last' = [hosts |-> found, asked |-> asked] /\ Rows(last') /\ typed' = FALSE
  /\ Says(IF event = "set" THEN "cancelled" ELSE "complete")
  /\ buttons' = [start |-> TRUE, abort |-> FALSE, export |-> TRUE] /\ event' = "none"
Timer ==
  /\ window /\ timers > 0 /\ timers' = timers - 1 /\ bar' = [bar EXCEPT !.shown = FALSE]
  /\ late' = (late \/ thread \notin {"idle", "end", "left"})
  /\ UNCHANGED <<buttons, event, thread, asked, found, Table, posted, Form, starts, ended, stopped>>

DialogNext ==
  \/ \E legal \in BOOLEAN : Start(legal)
  \/ Cancel \/ Switch \/ Filter \/ Close
  \/ Begin \/ Report \/ Draw \/ EndsWhole \/ EndsEarly \/ Raises \/ Finally \/ Leave
  \/ \E h \in Host : Find(h)
  \/ RunRefresh \/ RunHide \/ RunShow \/ Timer

----------------------------------------------------------------------------
AtRest == window /\ thread = "idle" /\ posted = <<>>
(* A scan can be started only when the one before has left nothing to be run but the
   timer of its bar, and cancelled from its start to its end; and what can be exported is
   what the table shows. *)
OneAtATime ==
  /\ buttons.start => thread = "idle" /\ posted = <<>>
  /\ buttons.abort = ~buttons.start
  /\ buttons.export => buttons.start /\ rows.all = last.hosts /\ last.hosts = found
(* The Start button comes back, unless the scan raised: then nothing enables it. *)
ComesBack == AtRest /\ ended # "raised" => buttons.start
(* While a scan is under way the bar is there, unless a timer of the scan before has
   run since the last report; and it goes in the end, but for a scan that raised or
   met nobody, and was cancelled too late if at all. *)
BarFollows ==
  /\ window /\ thread \in {"begin", "scan", "draw"} /\ ~late => bar.shown
  /\ AtRest /\ timers = 0 /\ bar.shown =>
       ended = "raised" \/ (ended = "early" /\ stopped # "before")
(* A scan that is over says that it was cancelled just when it was; and when that was
   before its end it says so to nobody. *)
TextIsTrue ==
  AtRest /\ buttons.start /\ ended \in {"whole", "early"} =>
    /\ (bar.says = "cancelled") = (stopped # "no")
    /\ stopped = "before" /\ timers = 0 => ~bar.shown
(* At rest the table shows the results there are, all of them unless the filter was
   typed since; and it tells what was asked for, and beside it only services. *)
RowsAreResults ==
  AtRest =>
    /\ rows.all = last.hosts /\ rows.seen = (IF typed THEN rows.all \cap query ELSE rows.all)
    /\ rows.told \ {"service"} \subseteq last.asked
    /\ last.asked = {} => rows.told = {}
DialogInv == OneAtATime /\ ComesBack /\ BarFollows /\ TextIsTrue /\ RowsAreResults
=============================================================================
