--------------------------- MODULE ForceQuitList ---------------------------
(* The list of the force quit dialog: a timer takes what the watcher has collected
   into the snapshot and, when something or the filter has changed, chooses the
   processes to list; typing does so a little later; and an idle callback brings
   the rows in line with the choice it was made for.  Rows are inserted at the end
   and never moved. *)
EXTENDS Naturals, SequencesExt

CONSTANTS
  MaxProc,     \* process numbers are 1..MaxProc
  Limit,       \* max_processes: rows of the list, 0 for no limit
  Window,      \* change_window: updates for which a change is marked
  MaxIdle,     \* bound: idle callbacks waiting
  MaxUpdates,  \* bound: updates of the watcher that change something
  MaxTyped,    \* bound: changes of the filter
  MaxPauses    \* bound: pauses

VARIABLES
  entry,      \* process_snapshot: "none", "normal", "hot" or "changed"
  key,        \* the filter and the direction of the sorting
  normals,    \* show_normal
  cache,      \* _filter_cache, None before the first choice
  rows,       \* the rows of the tree
  tags,       \* _changed_tags
  idle,       \* the choices whose idle callbacks have not run, and who had changed
  debounced,  \* a _debounce_id is pending
  timers,     \* the _auto_refresh() calls that are pending
  paused, open,
  enabled,    \* _actions_enabled
  progress,   \* _enum_progress is 1.0
  updates, typed, pauses,
  resumes,    \* (history) how often the dialog was resumed
  chosen      \* (history) the last choice

listVars == <<entry, key, normals, cache, rows, tags, idle, debounced, timers, paused, open, enabled,
              progress, updates, typed, pauses, resumes, chosen>>
watched == <<entry, enabled, progress, updates>>
input == <<key, normals, typed>>

Proc == 1..MaxProc
Filters == {"all", "hot", "Changed"}
Keys == [filter : Filters, reverse : BOOLEAN]
NoKey == [filter |-> "none", reverse |-> FALSE]

ListInit ==
  /\ entry = [p \in Proc |-> "none"] /\ key = [filter |-> "all", reverse |-> TRUE] /\ normals \in BOOLEAN
  /\ cache = NoKey /\ rows = <<>> /\ tags = [p \in Proc |-> 0] /\ idle = <<>>
  /\ debounced = FALSE /\ timers = 1 /\ paused = FALSE /\ open = TRUE
  /\ enabled = FALSE /\ progress = FALSE
  /\ updates = 0 /\ typed = 0 /\ pauses = 0 /\ resumes = 0 /\ chosen = <<>>

\* Who passes the filter; without a query the normal ones are listed on demand.
Passes(e, p) ==
  CASE key.filter = "hot" -> e[p] = "hot"
    [] key.filter = "Changed" -> e[p] # "none" /\ tags[p] > 0
    [] key.filter = "all" -> e[p] # "none" /\ (normals \/ e[p] # "normal")
InOrder(set) ==
  SetToSortSeq(set, LAMBDA p, q : IF key.reverse THEN p > q ELSE p < q)
\* the first so many of them, sorted: here by number
Choice(e) ==
  LET all == InOrder({p \in Proc : Passes(e, p)})
  IN IF Limit = 0 \/ Len(all) <= Limit THEN all ELSE SubSeq(all, 1, Limit)
\* _apply_filter_sort()
ApplyFilterSort(e) ==
  /\ chosen' = Choice(e) /\ cache' = key
  /\ idle' = Append(idle, [list |-> chosen', changed |-> {p \in Proc : e[p] = "changed"}])

\* _auto_refresh() of a dialog that is not paused: e is the snapshot after the queue
\* is drained.
Refreshes(e, all) ==
  /\ entry' = e /\ updates' = updates + (IF e = entry THEN 0 ELSE 1) /\ updates' <= MaxUpdates
  /\ progress' = (progress \/ all)
  /\ enabled' = (enabled \/ progress' \/ \E p \in Proc : e[p] # "none")
  /\ IF e # entry \/ key # cache
     THEN ApplyFilterSort(e) ELSE UNCHANGED <<idle, cache, chosen>>
\* A process that is removed loses its mark.
Forget(e) == tags' = [p \in Proc |-> IF entry[p] # "none" /\ e[p] = "none" THEN 0 ELSE tags[p]]
AutoRefresh(e, all) ==
  /\ open /\ timers > 0 /\ ~paused /\ Len(idle) < MaxIdle
  /\ IF e = entry THEN UNCHANGED tags ELSE Forget(e)
  /\ Refreshes(e, all)
  /\ UNCHANGED <<input, rows, debounced, timers, paused, open, pauses, resumes>>

\* A resumed dialog refreshes at once, and goes on doing so beside the timer that
\* has been waiting for it.
TogglePause(e, all) ==
  /\ open /\ pauses < MaxPauses /\ pauses' = pauses + 1 /\ paused' = ~paused
  /\ IF paused
     THEN /\ Forget(e) /\ Refreshes(e, all)
          /\ timers' = timers + 1 /\ resumes' = resumes + 1
     ELSE UNCHANGED <<watched, tags, idle, cache, chosen, timers, resumes>>
  /\ UNCHANGED <<input, rows, debounced, open>>

\* The search field, the filter, the columns and the settings of the list
Type(k, n) ==
  /\ open /\ typed < MaxTyped /\ typed' = typed + 1 /\ key' = k /\ normals' = n
  /\ <<k, n>> # <<key, normals>> /\ debounced' = TRUE
  /\ UNCHANGED <<watched, cache, rows, tags, idle, timers, paused, open, pauses, resumes, chosen>>
Debounced ==
  /\ open /\ debounced /\ Len(idle) < MaxIdle /\ debounced' = FALSE /\ ApplyFilterSort(entry)
  /\ UNCHANGED <<watched, input, rows, tags, timers, paused, open, pauses, resumes>>

\* mutant of Left: rows that are not chosen any more stay
LeftAll(list) == rows
Left(list) == SelectSeq(rows, LAMBDA p : p \in ToSet(list))
\* update_tree(): a change is marked for as many updates as the window has; a row
\* that is not listed any more goes with its mark.
UpdateTree ==
  /\ open /\ idle # <<>> /\ idle' = Tail(idle)
  /\ LET list == Head(idle).list IN
       /\ rows' = Left(list) \o SelectSeq(list, LAMBDA p : p \notin ToSet(rows))
       /\ tags' = [p \in Proc |->
            IF p \in ToSet(list)
            THEN IF p \in Head(idle).changed THEN Window ELSE IF tags[p] > 0 THEN tags[p] - 1 ELSE 0
            ELSE IF p \in ToSet(rows) THEN 0 ELSE tags[p]]
  /\ UNCHANGED <<watched, input, cache, debounced, timers, paused, open, pauses, resumes, chosen>>

\* Only the timer that was set last is cancelled; the others find no window.
Close ==
  /\ open /\ open' = FALSE /\ timers' = timers - 1
  /\ UNCHANGED <<watched, input, cache, rows, tags, idle, debounced, paused, pauses, resumes, chosen>>
LateRefresh ==
  /\ ~open /\ timers > 0 /\ timers' = timers - 1
  /\ UNCHANGED <<watched, input, cache, rows, tags, idle, debounced, paused, open, pauses, resumes,
                 chosen>>

\* one process is told of at a time
Told == {[entry EXCEPT ![p] = e] : p \in Proc, e \in {"none", "normal", "hot", "changed"}}
ListNext ==
  \/ Debounced \/ UpdateTree \/ Close \/ LateRefresh
  \/ \E e \in Told, all \in BOOLEAN : AutoRefresh(e, all) \/ TogglePause(e, all)
  \/ \E k \in Keys, n \in BOOLEAN : Type(k, n)

----------------------------------------------------------------------------
(* When everything that was asked for has been done the rows are those of the last
   choice, each once, and that choice is what the filter says of the processes
   there are now; only which of them have changed is as old as the choice. *)
ListCurrent ==
  open /\ idle = <<>> /\ ~debounced =>
    /\ ToSet(rows) = ToSet(chosen) /\ IsInjective(rows)
    /\ key = cache /\ key.filter # "Changed" => ToSet(rows) = ToSet(Choice(entry))
\* Only a row that is shown, or a process whose row is yet to come, is marked.
MarksAreShown == \A p \in Proc : tags[p] > 0 => p \in ToSet(rows)
(* The actions are enabled as soon as there is a process to act on, and there are
   as many refreshes going on as the dialog was resumed, and one. *)
RefreshesAccounted ==
  /\ (\E p \in Proc : entry[p] # "none") => enabled
  /\ timers <= 1 + resumes /\ (open => timers = 1 + resumes)
ListInv == ListCurrent /\ MarksAreShown /\ RefreshesAccounted
(* While the changed processes are asked for none comes into the list: a process is
   marked when its row is updated, and only what is marked has a row. *)
ChangedShrinks ==
  (open /\ cache.filter = "Changed" /\ cache' = cache /\ \A i \in DOMAIN idle : ToSet(idle[i].list) \subseteq ToSet(rows))
     => ToSet(rows') \subseteq ToSet(rows)
=============================================================================
