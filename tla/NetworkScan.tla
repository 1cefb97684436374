---------------------------- MODULE NetworkScan ----------------------------
(* A scan of utils/network: async_auto_scan_iter() and async_scan_hosts_iter(),
   one coroutine that pings the candidates, starts a pool of workers over the
   hosts and yields each host's result as it comes, for the dialog of
   ui/views/dialogs/auto_scan.py, whose button sets the cancel event from the Tk
   thread at any time and whose window may go while the scan is under way: then
   every report of progress raises.  Ports are probed by a pool per host that
   does not look at the event; web pages of the open ports by another that does.
   Names, addresses and what a result says beside its open ports are left out. *)
EXTENDS WorkPool, SequencesExt

CONSTANTS
  HostSets,   \* the candidates a scan may be given, each time without duplicates
  Modes,      \* "auto" | "given" | "filtered" | "measured": which scan is called
  Port,       \* the ports of each host
  Pings,      \* ping_concurrency
  Scans,      \* host_concurrency
  Fetches,    \* http_concurrency
  Scale,      \* the parts one port counts in the progress of a single host
  MaxErrors   \* bound on exceptions out of the file caches

VARIABLES
  mode, candidates,
  web,        \* with_http_info
  kept,       \* hosts whose ports the port cache still holds
  phase,      \* "begin" | "pinging" | "looping" | "waiting" | "joining" | "ended"
  cancel,     \* the cancel event is set
  window,     \* the dialog is there
  shown,      \* the progress bar, in parts of Whole
  pings,      \* the pool of async_filter_active_hosts
  active,     \* active_list
  hosts,      \* what is to be scanned
  scan,       \* the pool of host_q
  todo,       \* per host being probed, the ports that have not answered
  unmarked,   \* per host, the ports task_done() has not been called for
  open,       \* per host, its open ports
  fetch,      \* per host, the pool of async_collect_http_info
  stage,      \* per host: "none" | "ports" | "pages" | "done" | "lost"
  results,    \* result_q
  given,      \* what has been yielded
  errors

called == <<mode, candidates, web, kept>>
pinged == <<pings, active>>
probed == <<todo, unmarked, open>>
hostVars == <<scan, probed, fetch, stage, results, errors>>
scanVars == <<called, phase, cancel, window, shown, pinged, hosts, hostVars, given>>

Host == UNION HostSets
Lists == {SetToSeq(s) : s \in HostSets}   \* hosts are alike: one order is enough

ScanAssumption ==
  /\ \A s \in HostSets : IsFiniteSet(s)
  /\ Modes \subseteq {"auto", "given", "filtered", "measured"}
  /\ IsFiniteSet(Port) /\ Port # {}
  /\ {Pings, Scans, Fetches} \subseteq Nat \ {0} /\ MaxErrors \in Nat
  /\ Scale \in Nat \ {0} /\ \A s \in HostSets : \A n \in 1..Cardinality(s) : Scale % n = 0

-----------------------------------------------------------------------------
\* Progress.  The pings are worth as much as one port; Scale can be divided by
\* the number of the candidates and of the hosts.
Pinging == mode # "given"
Share == IF Pinging THEN 1 ELSE 0
Whole == Scale * (Cardinality(Port) + Share)

\* mutant of Counts: the report that a host is through counts for nothing
DoneIsNone(steps, rest, h, port) == steps[h] = "ports" /\ port \notin rest[h]
\* The ports in progress_map[h]: those that have answered, all in the end
Counts(steps, rest, h, port) ==
  steps[h] # "none" /\ (steps[h] = "ports" => port \notin rest[h])
Counted(steps, rest) == {x \in ToSet(hosts) \X Port : Counts(steps, rest, x[1], x[2])}
Progress(steps, rest) ==
  Scale * Share + (Scale \div Len(hosts)) * Cardinality(Counted(steps, rest))

-----------------------------------------------------------------------------
\* When the coroutine has ended asyncio.run() cancels what is left of its tasks.
Going == phase # "ended"

ScanInit ==
  /\ mode \in Modes /\ candidates \in Lists
  /\ web \in BOOLEAN /\ kept \in SUBSET ToSet(candidates)
  /\ phase = "begin" /\ cancel = FALSE /\ window = TRUE /\ shown = 0
  /\ pings = Pool(<<>>, Pings) /\ active = <<>> /\ hosts = <<>>
  /\ scan = Pool(<<>>, Scans)
  /\ todo = [h \in Host |-> {}] /\ unmarked = todo /\ open = todo
  /\ fetch = [h \in Host |-> Pool(<<>>, Fetches)]
  /\ stage = [h \in Host |-> "none"]
  /\ results = <<>> /\ given = <<>> /\ errors = 0

\* The coroutine reports that it is through, or raises because it cannot.
Ends ==
  /\ phase' = "ended" /\ shown' = IF window THEN Whole ELSE shown
  /\ UNCHANGED <<called, cancel, window, pinged, hosts, hostVars, given>>

\* The workers of host_q are created and the loop over result_q begins.
ScanOf(list) ==
  /\ hosts' = list /\ scan' = Pool(list, Scans) /\ phase' = "looping"
  /\ UNCHANGED <<called, cancel, window, pinged, probed, fetch, stage, results, given, errors>>

\* No candidates, or a scan that is cancelled before its first ping
NothingToDo == phase = "begin" /\ (candidates = <<>> \/ (Pinging /\ cancel)) /\ Ends
StartPings ==
  /\ phase = "begin" /\ candidates # <<>> /\ Pinging /\ ~cancel
  /\ phase' = "pinging" /\ pings' = Pool(candidates, Pings)
  /\ UNCHANGED <<called, cancel, window, shown, active, hosts, hostVars, given>>
StartGiven ==
  phase = "begin" /\ candidates # <<>> /\ ~Pinging /\ ScanOf(candidates) /\ UNCHANGED shown

-----------------------------------------------------------------------------
\* async_filter_active_hosts
PingNext ==
  /\ Going /\ ~cancel /\ Offered(pings) /\ pings' = Take(pings)
  /\ UNCHANGED <<called, phase, cancel, window, shown, active, hosts, hostVars, given>>

\* A worker that cannot report progress raises and leaves its item unmarked.
Pong(h, answers) ==
  /\ Going /\ h \in pings.busy
  /\ active' = IF answers /\ ~cancel THEN Append(active, h) ELSE active
  /\ IF window
     THEN /\ pings' = Give(pings, h)
          /\ shown' = (Scale \div Len(candidates)) * (Len(candidates) - pings'.owed)
     ELSE pings' = Strand(pings, h) /\ UNCHANGED shown
  /\ UNCHANGED <<called, phase, cancel, window, hosts, hostVars, given>>

\* The elements of list that are in S, in the order of the list: the n-th is
\* where n of them have been met
InOrder(list, S) ==
  LET places == {i \in DOMAIN list : list[i] \in S}
      met(i) == Cardinality({j \in places : j <= i}) IN
  [n \in 1..Cardinality(places) |-> list[CHOOSE i \in places : met(i) = n]]

Chosen ==
  CASE mode = "auto" -> active
    [] mode = "filtered" -> InOrder(candidates, ToSet(active))
    [] OTHER -> candidates

\* The report that the pings are over is the first to fail without a window.
PingsOver ==
  /\ phase = "pinging" /\ Joined(pings)
  /\ IF cancel \/ ~window \/ Chosen = <<>>
     THEN Ends
     ELSE ScanOf(Chosen) /\ shown' = Scale

-----------------------------------------------------------------------------
\* scan_host.  Results of a cancelled scan are not put on result_q.
Delivered(h) ==
  /\ scan' = Give(scan, h)
  /\ stage' = [stage EXCEPT ![h] = IF cancel THEN "lost" ELSE "done"]
  /\ results' = IF cancel THEN results ELSE Append(results, h)
\* An exception ends the worker; nobody tells the loop that waits for a result.
Lost(h) ==
  scan' = Lose(scan, h) /\ stage' = [stage EXCEPT ![h] = "lost"] /\ UNCHANGED results

\* PORT_CACHE and HTTP_CACHE make their directory whenever they save.
CacheRaises == errors < MaxErrors /\ errors' = errors + 1

\* After the ports: the pages of the open ones, in some order, or the result
AfterPorts(h) ==
  IF web
  THEN /\ fetch' = [fetch EXCEPT ![h] = Pool(SetToSeq(open[h]), Fetches)]
       /\ stage' = [stage EXCEPT ![h] = "pages"] /\ UNCHANGED <<scan, results>>
  ELSE Delivered(h) /\ UNCHANGED fetch

TakeHost ==
  /\ phase \in {"looping", "waiting", "joining"} /\ ~cancel /\ Offered(scan)
  /\ LET h == Head(scan.left) IN
       /\ h \notin kept
       /\ scan' = Take(scan) /\ stage' = [stage EXCEPT ![h] = "ports"]
       /\ todo' = [todo EXCEPT ![h] = Port] /\ unmarked' = [unmarked EXCEPT ![h] = Port]
  /\ UNCHANGED <<called, phase, cancel, window, shown, pinged, hosts, open, fetch, results, given,
                 errors>>

\* A host in the cache is through with its ports at once; the pool's own item
\* is taken and, without a page to fetch, given back in the same step.
TakeKept ==
  /\ phase \in {"looping", "waiting", "joining"} /\ ~cancel /\ Offered(scan)
  /\ \E ports \in SUBSET Port :
       LET h == Head(scan.left)
           taken == Take(scan)
           steps(step) == [stage EXCEPT ![h] = step] IN
       /\ h \in kept
       /\ IF window THEN shown' = Progress(steps("done"), todo) ELSE UNCHANGED shown
       /\ \/ /\ ~window
             /\ scan' = Lose(taken, h) /\ stage' = steps("lost")
             /\ UNCHANGED <<open, fetch, results>>
          \/ /\ window /\ web
             /\ open' = [open EXCEPT ![h] = ports]
             /\ fetch' = [fetch EXCEPT ![h] = Pool(SetToSeq(ports), Fetches)]
             /\ scan' = taken /\ stage' = steps("pages") /\ UNCHANGED results
          \/ /\ window /\ ~web
             /\ open' = [open EXCEPT ![h] = ports]
             /\ scan' = Give(taken, h) /\ stage' = steps("done")
             /\ results' = Append(results, h) /\ UNCHANGED fetch
  /\ UNCHANGED <<called, phase, cancel, window, pinged, hosts, todo, unmarked, given, errors>>

\* A port answers or times out; a port whose worker cannot report stays unmarked.
PortAnswers(h, port, isOpen) ==
  /\ Going /\ port \in todo[h]
  /\ todo' = [todo EXCEPT ![h] = @ \ {port}]
  /\ open' = IF isOpen THEN [open EXCEPT ![h] = @ \union {port}] ELSE open
  /\ IF window
     THEN /\ unmarked' = [unmarked EXCEPT ![h] = @ \ {port}]
          /\ shown' = Progress(stage, todo')
     ELSE UNCHANGED <<unmarked, shown>>
  /\ UNCHANGED <<called, phase, cancel, window, pinged, hosts, scan, fetch, stage, results, given,
                 errors>>

PortsOver(h) ==
  /\ Going /\ stage[h] = "ports" /\ unmarked[h] = {}
  /\ \/ window /\ AfterPorts(h) /\ UNCHANGED errors
     \/ window /\ CacheRaises /\ Lost(h) /\ UNCHANGED fetch
     \/ ~window /\ Lost(h) /\ UNCHANGED <<fetch, errors>>
  /\ IF window
     THEN shown' = Progress([stage EXCEPT ![h] = "done"], todo)
     ELSE UNCHANGED shown
  /\ UNCHANGED <<called, phase, cancel, window, pinged, hosts, probed, given>>

\* async_collect_http_info, for one host
FetchNext(h) ==
  /\ Going /\ ~cancel /\ stage[h] = "pages" /\ Offered(fetch[h])
  /\ fetch' = [fetch EXCEPT ![h] = Take(@)]
  /\ UNCHANGED <<called, phase, cancel, window, shown, pinged, hosts, scan, probed, stage, results,
                 given, errors>>
Fetched(h, port) ==
  /\ Going /\ port \in fetch[h].busy
  /\ \/ fetch' = [fetch EXCEPT ![h] = Give(@, port)] /\ UNCHANGED errors
     \/ fetch' = [fetch EXCEPT ![h] = Lose(@, port)] /\ CacheRaises
  /\ UNCHANGED <<called, phase, cancel, window, shown, pinged, hosts, scan, probed, stage, results,
                 given>>
\* mutant of PagesOver: the gather does not wait for the pages
PagesLater(h) ==
  /\ Going /\ stage[h] = "pages" /\ Delivered(h)
  /\ UNCHANGED <<called, phase, cancel, window, shown, pinged, hosts, probed, fetch, given, errors>>
PagesOver(h) ==
  /\ Going /\ stage[h] = "pages" /\ Joined(fetch[h]) /\ Delivered(h)
  /\ UNCHANGED <<called, phase, cancel, window, shown, pinged, hosts, probed, fetch, given, errors>>

-----------------------------------------------------------------------------
\* The loop over result_q looks at the event before it waits, not while it waits.
Loop ==
  /\ phase = "looping"
  /\ phase' = IF Len(given) = Len(hosts) \/ cancel THEN "joining" ELSE "waiting"
  /\ UNCHANGED <<called, cancel, window, shown, pinged, hosts, hostVars, given>>
\* The dialog that receives the result raises if its window has gone.
Receive ==
  /\ phase = "waiting" /\ results # <<>>
  /\ given' = Append(given, Head(results)) /\ results' = Tail(results)
  /\ phase' = IF window THEN "looping" ELSE "ended"
  /\ UNCHANGED <<called, cancel, window, shown, pinged, hosts, scan, probed, fetch, stage, errors>>
ScanOver == phase = "joining" /\ Joined(scan) /\ Ends

\* The button, and the window's end, from the Tk thread
Cancel ==
  /\ Going /\ ~cancel /\ cancel' = TRUE
  /\ UNCHANGED <<called, phase, window, shown, pinged, hosts, hostVars, given>>
CloseWindow ==
  /\ Going /\ window /\ window' = FALSE
  /\ UNCHANGED <<called, phase, cancel, shown, pinged, hosts, hostVars, given>>

Working ==
  \/ NothingToDo \/ StartPings \/ StartGiven \/ PingNext \/ PingsOver
  \/ \E h \in Host, answers \in BOOLEAN : Pong(h, answers)
  \/ TakeHost \/ TakeKept
  \/ \E h \in Host, port \in Port, isOpen \in BOOLEAN : PortAnswers(h, port, isOpen)
  \/ \E h \in Host : PortsOver(h) \/ FetchNext(h) \/ PagesOver(h)
  \/ \E h \in Host, port \in Port : Fetched(h, port)
  \/ Loop \/ Receive \/ ScanOver
ScanNext == Working \/ Cancel \/ CloseWindow
\* Every await of a worker is bounded by a timeout and the loop runs what is ready.
FairScan == ScanInit /\ [][ScanNext]_scanVars /\ WF_scanVars(Working)

-----------------------------------------------------------------------------
Queued == ToSet(scan.left)
Missing == {h \in Host : stage[h] = "lost"}
\* What keeps a scan from reaching every host
Disturbed == cancel \/ ~window \/ errors > 0

\* Every host has its place: queued, in work, delivered, yielded or lost, and
\* only in one of them; none is lost in a scan that nothing disturbs, and a join
\* waits for exactly what is queued or in work.
HostsKept ==
  /\ Len(hosts) = Len(scan.left) + Cardinality(scan.busy) + Len(results) + Len(given)
                    + Cardinality(Missing)
  /\ ToSet(hosts) = Queued \union scan.busy \union ToSet(results \o given) \union Missing
  /\ Missing # {} => Disturbed
  /\ scan.owed = Len(scan.left) + Cardinality(scan.busy)
\* A result that is delivered says all there is: each port has answered, and
\* each page that was asked for.
ResultsWhole ==
  \A h \in ToSet(results \o given) : unmarked[h] = {} /\ fetch[h].owed = 0
\* A scan that ends undisturbed has yielded every host it was to scan and shows
\* the end of its progress.
EndIsWhole ==
  phase = "ended" /\ ~Disturbed =>
    shown = Whole /\ ToSet(given) = ToSet(IF Pinging THEN Chosen ELSE candidates)
\* The three of them, and the loops' own bounds.
ScanInv ==
  /\ phase \in {"begin", "pinging", "looping", "waiting", "joining", "ended"}
  /\ shown \in 0..Whole
  /\ HostsKept /\ ResultsWhole /\ EndIsWhole

\* The progress that is reported never goes back, over the pings, the ports of
\* hosts scanned side by side and results from the cache
\* (utils/network/__init__.py:2454: "the reported value steadily climbs").
ProgressClimbs == [][shown' >= shown]_scanVars

\* A scan that nothing disturbs ends.
ScanEnds == TRUE ~> phase = "ended" \/ Disturbed

\* utils/network/__init__.py:897: "Tasks stop early if the optional
\* ``cancel_event`` is set."  The code leaves what is queued in the queue and
\* joins it.
CancelStops == cancel ~> phase = "ended" \/ ~window \/ errors > 0
=============================================================================
