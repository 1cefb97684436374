---------------------------- MODULE DetailedScan ----------------------------
(* async_scan_hosts_detailed() of utils/network, the scan of the command line: it
   goes through its pools one after the other, over all the hosts at a time, where
   async_scan_hosts_iter() of NetworkScan goes through them host by host.  The pings
   choose the hosts, async_scan_targets() scans them without a look at the cancel
   event, _async_map() asks for names and addresses, and what came of it is put
   together and handed to async_collect_http_info().  What a worker raises is lost
   in a gather() nobody reads. *)
EXTENDS WorkPool, SequencesExt

CONSTANTS
  Targets,      \* the hosts to be scanned, a sequence without duplicates
  Pools,        \* the concurrency of every pool
  MaxFailures   \* bound: exceptions of workers

VARIABLES
  wants,      \* what the scan is asked for: "ping", "names", "pages"
  state,      \* "begin", the pool that is at work, or "ended"
  pool,       \* that pool
  halt,       \* the cancel event is set
  alive,      \* hosts that answered the ping
  scanned,    \* results
  named,      \* hostname_map
  detailed,   \* detailed
  paged,      \* http_results
  raised,
  returned,   \* what the call has returned
  cutAt       \* (history) the state in which the event was set

detailVars ==
  <<wants, state, pool, halt, alive, scanned, named, detailed, paged, raised, returned, cutAt>>
gathered == <<alive, scanned, named, detailed, paged>>

Goal == ToSet(Targets)
DetailAssumption == IsInjective(Targets) /\ {Pools, MaxFailures} \subseteq Nat /\ Pools > 0
InOrder(set) == SelectSeq(Targets, LAMBDA h : h \in set)

DetailInit ==
  /\ wants \in SUBSET {"ping", "names", "pages"}
  /\ state = "begin" /\ pool = Pool(<<>>, Pools) /\ halt = FALSE
  /\ alive = {} /\ scanned = {} /\ named = {} /\ detailed = {} /\ paged = {}
  /\ raised = 0 /\ returned = {} /\ cutAt = "none"

Return(set) == state' = "ended" /\ returned' = set /\ UNCHANGED pool
\* The workers of a pool are created and the call waits in queue.join().
Start(name, hosts) ==
  state' = name /\ pool' = Pool(hosts, Pools) /\ UNCHANGED returned

\* Every pool but the scan's looks at the event before it takes an item.
Heeds == state # "scan"
Take1 ==
  /\ state \in {"ping", "scan", "names", "pages"} /\ Offered(pool) /\ (Heeds => ~halt)
  /\ pool' = Take(pool)
  /\ UNCHANGED <<wants, state, halt, gathered, raised, returned, cutAt>>

Keep(h) ==
  /\ alive' = IF state = "ping" /\ ~halt THEN alive \cup {h} ELSE alive
  /\ scanned' = IF state = "scan" THEN scanned \cup {h} ELSE scanned
  /\ named' = IF state = "names" /\ ~halt THEN named \cup {h} ELSE named
  /\ paged' = IF state = "pages" /\ ~halt THEN paged \cup {h} ELSE paged
Give1(h, answers) ==
  /\ h \in pool.busy /\ pool' = Give(pool, h)
  /\ IF state = "ping" /\ ~answers THEN UNCHANGED <<alive, scanned, named, paged>> ELSE Keep(h)
  /\ UNCHANGED <<wants, state, halt, detailed, raised, returned, cutAt>>
\* PORT_CACHE, DNS_CACHE, ARP_CACHE and HTTP_CACHE raise when they cannot be saved;
\* a ping has no cache in a file.
Lose1(h) ==
  /\ h \in pool.busy /\ state # "ping" /\ raised < MaxFailures
  /\ pool' = Lose(pool, h) /\ raised' = raised + 1
  /\ UNCHANGED <<wants, state, halt, gathered, returned, cutAt>>

Begin ==
  /\ state = "begin"
  /\ IF Targets = <<>> \/ ("ping" \in wants /\ halt) THEN Return({})
     ELSE Start(IF "ping" \in wants THEN "ping" ELSE "scan", Targets)
  /\ UNCHANGED <<wants, halt, gathered, raised, cutAt>>
PingsIn ==
  /\ state = "ping" /\ Joined(pool)
  /\ IF halt \/ alive = {} THEN Return({}) ELSE Start("scan", InOrder(alive))
  /\ UNCHANGED <<wants, halt, gathered, raised, cutAt>>
\* The names, or at once what is done with the results
ScansIn ==
  /\ state = "scan" /\ Joined(pool)
  /\ IF halt THEN Return({})
      ELSE Start(IF "names" \in wants THEN "names" ELSE "describe", InOrder(scanned))
  /\ UNCHANGED <<wants, halt, gathered, raised, cutAt>>
NamesIn ==
  /\ state = "names" /\ Joined(pool) /\ state' = "describe"
  /\ UNCHANGED <<wants, pool, halt, gathered, raised, returned, cutAt>>
\* mutant of Described: a host without a name is left out
DescribedIfNamed == IF "names" \in wants THEN named ELSE scanned
Described == scanned
\* The hosts one after the other: the event is looked at before every one.
Describe ==
  /\ state = "describe" /\ detailed' = IF halt THEN {} ELSE Described
  /\ IF "pages" \in wants /\ ~halt THEN Start("pages", InOrder(detailed')) ELSE Return(detailed')
  /\ UNCHANGED <<wants, halt, alive, scanned, named, paged, raised, cutAt>>
\* It is set on the way: what there is by then is returned.
DescribeCut ==
  /\ state = "describe" /\ ~halt /\ halt' = TRUE /\ cutAt' = state
  /\ detailed' \in SUBSET Described /\ Return(detailed')
  /\ UNCHANGED <<wants, alive, scanned, named, paged, raised>>
PagesIn ==
  /\ state = "pages" /\ Joined(pool) /\ Return(detailed)
  /\ UNCHANGED <<wants, halt, gathered, raised, cutAt>>

Halt ==
  /\ ~halt /\ state # "ended" /\ halt' = TRUE /\ cutAt' = state
  /\ UNCHANGED <<wants, state, pool, gathered, raised, returned>>

DetailNext ==
  \/ Begin \/ PingsIn \/ ScansIn \/ NamesIn \/ Describe \/ DescribeCut \/ PagesIn \/ Halt \/ Take1
  \/ \E h \in Goal : Lose1(h) \/ \E answers \in BOOLEAN : Give1(h, answers)

----------------------------------------------------------------------------
Selected == IF "ping" \in wants THEN alive ELSE Goal
(* What is returned is a host that was chosen and scanned.  If nothing raised and
   nobody set the event it is every one of them, with the name and the page that
   were asked for; a host is only ever missing for an exception or the event. *)
ReturnsWhatItFound ==
  state = "ended" =>
    /\ returned \subseteq scanned /\ scanned \subseteq Selected
    /\ ~halt => /\ returned = scanned
                /\ Cardinality(Selected \ scanned) <= raised
    /\ ~halt /\ raised = 0 =>
         /\ "names" \in wants => named = returned
         /\ "pages" \in wants => paged = returned
(* Once the event is set before the scan is over, nothing is returned at all. *)
CancelledReturnsNothing ==
  state = "ended" /\ cutAt \in {"begin", "ping", "scan"} => returned = {}
(* A call waits for a pool only for what is queued or in work, and a pool whose
   queue nobody can take from any more has been cancelled or has lost a worker. *)
PoolsGoOn ==
  state \in {"ping", "scan", "names", "pages"} =>
    /\ pool.owed = Len(pool.left) + Cardinality(pool.busy)
    /\ (~Joined(pool) /\ pool.busy = {} /\ ~Offered(pool)) => raised >= Pools
DetailInv == ReturnsWhatItFound /\ CancelledReturnsNothing /\ PoolsGoOn
=============================================================================
