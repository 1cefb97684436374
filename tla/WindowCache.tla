----------------------------- MODULE WindowCache -----------------------------
(* The list of windows behind list_windows_at (utils/display/window_utils.py)
   where python-xlib is there: a worker enumerates the desktop when it is asked
   to, callers on any thread are served from the windows accessed last and from
   the worker's last list and never wait.

   All windows cover the point that is asked for.  A listing sees the desktop as
   it is at one moment. *)
EXTENDS Naturals, Sequences, SequencesExt, FiniteSets

CONSTANTS
  Window,      \* a window and its handle
  PidOf,       \* its process
  Tips,        \* windows that are small, tooltips or menus
  Caller,      \* threads
  RecentMax,
  MaxChanges   \* bound: changes of the desktop

WindowAssumption == Tips \subseteq Window /\ RecentMax \in Nat \ {0}

VARIABLES
  desktop,    \* the windows, front to back
  changes,    \* changes of it so far, a clock
  workers,    \* threads in _window_enum_worker: one, or two after a race of two callers
  made,       \* workers started
  at,         \* where each is: "waiting", "enumerating", "storing", "cleaning", "remembering"
  listing,    \* what each has enumerated, and when; then what it has to remember of it
  refresh,    \* _WINDOWS_REFRESH
  cache,      \* _WINDOWS_CACHE: the list and when it was taken
  recent,     \* _RECENT_WINDOWS
  transient,  \* _TRANSIENT_PIDS
  calling,    \* callers: "out", "starting" a worker, "ready" for the lists, "remembering"
  found,      \* what they are about to remember
  asked       \* history: the time of the last request for a refresh

winVars == <<desktop, changes, workers, made, at, listing, refresh, cache, recent, transient,
             calling, found, asked>>
Nothing == [list |-> <<>>, time |-> 0]
Worker == 1..2

WindowInit ==
  /\ desktop = <<>> /\ changes = 0
  /\ workers = {} /\ made = FALSE /\ at = [w \in Worker |-> "waiting"]
  /\ listing = [w \in Worker |-> Nothing]
  /\ refresh = FALSE /\ cache = Nothing /\ recent = <<>> /\ transient = {}
  /\ calling = [c \in Caller |-> "out"] /\ found = [c \in Caller |-> <<>>] /\ asked = 0

\* the windows of a list that are in S, in their order
Kept(list, S) ==
  LET kept[n \in 0..Len(list)] ==
        IF n = 0 THEN <<>> ELSE IF list[n] \in S THEN Append(kept[n - 1], list[n]) ELSE kept[n - 1]
  IN kept[Len(list)]

----------------------------------------------------------------------------
(* The recent windows *)

\* mutant of Remembered: the window is added as if it were new
RememberedAgain(list, w) ==
  LET all == Append(list, w)
  IN IF Len(all) > RecentMax THEN Tail(all) ELSE all

\* _remember_window: one call, under the lock
Remembered(list, w) ==
  LET all == Append(Kept(list, Window \ {w}), w)
  IN IF Len(all) > RecentMax THEN Tail(all) ELSE all


\* filter_windows_at
Shown(ws) == Kept(ws, Window \ Tips)
\* The processes of tooltips and small windows are noted for good.
Note(ws) == transient' = transient \union {PidOf[w] : w \in ToSet(ws) \intersect Tips}

----------------------------------------------------------------------------
(* The worker *)

\* _WINDOWS_REFRESH.wait() and clear()
Wake(w) ==
  /\ w \in workers /\ at[w] = "waiting" /\ refresh /\ refresh' = FALSE
  /\ at' = [at EXCEPT ![w] = "enumerating"]
  /\ UNCHANGED <<desktop, changes, workers, made, listing, cache, recent, transient,
                 calling, found, asked>>

\* _refresh_windows(): from here on it is late
Enumerate(w) ==
  /\ w \in workers /\ at[w] = "enumerating" /\ at' = [at EXCEPT ![w] = "storing"]
  /\ listing' = [listing EXCEPT ![w] = [list |-> desktop, time |-> changes]]
  /\ UNCHANGED <<desktop, changes, workers, made, refresh, cache, recent, transient, calling,
                 found, asked>>

\* what a worker has left to remember, whenever it was listed
Recalls(w, list) ==
  /\ listing' = [listing EXCEPT ![w] = [list |-> list, time |-> 0]]
  /\ at' = [at EXCEPT ![w] = IF list = <<>> THEN "waiting" ELSE "remembering"]

\* mutant of Store: the event is cleared only now
StoreAndClear(w) ==
  /\ w \in workers /\ at[w] = "storing" /\ at' = [at EXCEPT ![w] = "cleaning"]
  /\ cache' = listing[w] /\ refresh' = FALSE
  /\ UNCHANGED <<desktop, changes, workers, made, listing, recent, transient, calling,
                 found, asked>>

Store(w) ==
  /\ w \in workers /\ at[w] = "storing" /\ at' = [at EXCEPT ![w] = "cleaning"]
  /\ cache' = listing[w]
  /\ UNCHANGED <<desktop, changes, workers, made, listing, refresh, recent, transient, calling,
                 found, asked>>

\* _cleanup_recent: the windows that are not in the list are forgotten
Clean(w) ==
  /\ w \in workers /\ at[w] = "cleaning" /\ Recalls(w, listing[w].list)
  /\ recent' = Kept(recent, ToSet(listing[w].list))
  /\ UNCHANGED <<desktop, changes, workers, made, refresh, cache, transient, calling, found,
                 asked>>

\* Every window listed is remembered, one after the other.
RememberListed(w) ==
  /\ w \in workers /\ at[w] = "remembering" /\ Recalls(w, Tail(listing[w].list))
  /\ recent' = Remembered(recent, Head(listing[w].list))
  /\ UNCHANGED <<desktop, changes, workers, made, refresh, cache, transient, calling, found,
                 asked>>

----------------------------------------------------------------------------
(* Callers *)

\* _ensure_window_worker: no worker is seen.  Two callers may see none.
Ensure(c) ==
  /\ calling[c] = "out"
  /\ calling' = [calling EXCEPT ![c] = IF made THEN "ready" ELSE "starting"]
  /\ UNCHANGED <<desktop, changes, workers, made, at, listing, refresh, cache, recent,
                 transient, found, asked>>

StartWorker(c) ==
  /\ calling[c] = "starting" /\ calling' = [calling EXCEPT ![c] = "ready"]
  /\ made' = TRUE /\ workers' = workers \union {Cardinality(workers) + 1}
  /\ UNCHANGED <<desktop, changes, at, listing, refresh, cache, recent, transient, found,
                 asked>>

\* prime_window_cache
Prime(c) ==
  /\ calling[c] = "ready" /\ calling' = [calling EXCEPT ![c] = "out"]
  /\ refresh' = TRUE /\ asked' = changes
  /\ UNCHANGED <<desktop, changes, workers, made, at, listing, cache, recent, transient,
                 found>>

\* _fallback_list_windows_at: windows accessed before answer at once, and nobody
\* asks whether they are still there.
LookRecent(c) ==
  /\ calling[c] = "ready" /\ Shown(recent) # <<>>
  /\ calling' = [calling EXCEPT ![c] = "out"] /\ Note(recent)
  /\ UNCHANGED <<desktop, changes, workers, made, at, listing, refresh, cache, recent, found,
                 asked>>

\* what a caller has left to remember
Keeps(c, list) ==
  /\ found' = [found EXCEPT ![c] = list]
  /\ calling' = [calling EXCEPT ![c] = IF list = <<>> THEN "out" ELSE "remembering"]

\* Else the worker's last list answers, and is asked for anew when it is empty or
\* older than _WINDOWS_CACHE_SEC, which it may be at any time.
LookCached(c) ==
  /\ calling[c] = "ready" /\ Shown(recent) = <<>>
  /\ \/ refresh' = TRUE /\ asked' = changes
     \/ cache.list # <<>> /\ UNCHANGED <<refresh, asked>>
  /\ transient' = transient
       \union {PidOf[w] : w \in (ToSet(recent) \union ToSet(cache.list)) \intersect Tips}
  /\ Keeps(c, Shown(cache.list))
  /\ UNCHANGED <<desktop, changes, workers, made, at, listing, cache, recent>>

\* What has been found is remembered, one after the other, though the worker may
\* have cleaned up since.
Keep(c) ==
  /\ calling[c] = "remembering" /\ Keeps(c, Tail(found[c]))
  /\ recent' = Remembered(recent, Head(found[c]))
  /\ UNCHANGED <<desktop, changes, workers, made, at, listing, refresh, cache, transient,
                 asked>>

\* A window opens in front, or closes, or another comes to the front.
Change ==
  /\ changes < MaxChanges /\ changes' = changes + 1
  /\ \E w \in Window : \/ desktop' = <<w>> \o Kept(desktop, Window \ {w})
                       \/ desktop' = Kept(desktop, Window \ {w})
  /\ desktop' # desktop
  /\ UNCHANGED <<workers, made, at, listing, refresh, cache, recent, transient, calling,
                 found, asked>>

Working == \E w \in Worker : Wake(w) \/ Enumerate(w) \/ Store(w) \/ Clean(w) \/ RememberListed(w)
Calling == \E c \in Caller : StartWorker(c)
WindowNext ==
  \/ Working \/ Calling \/ Change
  \/ \E c \in Caller : Ensure(c) \/ Prime(c) \/ LookRecent(c) \/ LookCached(c) \/ Keep(c)

WindowSpec == WindowInit /\ [][WindowNext]_winVars
FairWindows == WindowSpec /\ WF_winVars(Working) /\ WF_winVars(Calling)

----------------------------------------------------------------------------
(* Properties *)

\* The recent windows are different ones and few, though callers and workers add
\* to them side by side; and a process counts as transient only for a window of
\* its own (_remember_window and filter_windows_at, window_utils.py:145, 1008).
WindowsInv ==
  /\ IsInjective(recent) /\ Len(recent) <= RecentMax
  /\ \A p \in transient : \E w \in Tips : PidOf[w] = p

\* A request for a refresh is answered with a list taken after it: one that comes
\* while the worker is enumerating is not lost (window_utils.py:969).
Requested == refresh /\ cache.time < asked
Served == cache.time >= asked
RequestsEnd == Requested ~> Served
=============================================================================
