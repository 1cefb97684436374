----------------------------- MODULE ScanCaches -----------------------------
(* What utils/network remembers of the network, and how old it may be when it is
   used: the ARP table (in memory, with its copy in a CacheManager's file), the
   list of local hosts, which holds what the table said when it was made and is
   kept twice as well, and the answers to pings.  An address of the table is known
   by the tick at which a command last told it, 0 when it is not there; the
   interfaces' own networks do not change and are left out of the list. *)
EXTENDS Naturals, FiniteSets

CONSTANTS
  Node,      \* the addresses a command may tell
  Ttl,       \* ticks an entry is good for: "arp", "hosts" and "ping"
  MaxTime,   \* bound: ticks
  MaxUses    \* bound: calls

VARIABLES
  clock,
  table, tableAt,    \* _ARP_CACHE_DATA and _ARP_CACHE_TS
  saved,             \* ARP_CACHE's "table": its addresses and its timestamp, 0 for none
  list, savedList,   \* _LOCAL_HOST_CACHE and LOCAL_HOST_CACHE's "hosts", with their times
  pings,             \* _PING_CACHE, for one host
  uses,
  asked,             \* (history) when a command was last to tell the whole table, whether it
                     \* failed, and the misses that have stored the table since
  made,              \* (history) for each list, the tick it was made at
  answer             \* what the last call returned and how

cacheVars == <<clock, table, tableAt, saved, list, savedList, pings, uses, asked, made, answer>>

Empty == [n \in Node |-> 0]
NoTable == [of |-> Empty, at |-> 0]
NoList == [of |-> Empty, at |-> 0]
Never == [at |-> 0, failed |-> FALSE, misses |-> 0]
NoPing == [ok |-> FALSE, ttl |-> FALSE, at |-> 0]
Fresh(at, ttl) == at > 0 /\ clock - at < ttl

CachesInit ==
  /\ clock = 1 /\ table = Empty /\ tableAt = 0 /\ saved = NoTable
  /\ list = NoList /\ savedList = NoList /\ pings = NoPing
  /\ uses = 0 /\ asked = Never /\ made = [memory |-> 0, file |-> 0]
  /\ answer = [by |-> "none"]

Tick ==
  /\ clock < MaxTime /\ clock' = clock + 1 /\ answer' = [by |-> "none"]
  /\ UNCHANGED <<table, tableAt, saved, list, savedList, pings, uses, asked, made>>
Using == uses < MaxUses /\ uses' = uses + 1

\* What _refresh_arp_cache() leaves: the table in memory, the file's when that has
\* gone, what the command tells, or, when it fails, nothing new; a forced refresh
\* that fails forgets all there was.
Now(told) == [n \in Node |-> IF n \in told THEN clock ELSE 0]
Asked(fails) == [at |-> clock, failed |-> fails, misses |-> 0]
Kept == [of |-> table, at |-> tableAt, file |-> saved, asked |-> asked]
FromFile == [of |-> saved.of, at |-> clock, file |-> saved, asked |-> asked]
Told(told) ==
  [of |-> Now(told), at |-> clock, file |-> [of |-> Now(told), at |-> clock],
   asked |-> Asked(FALSE)]
NotTold(force) ==
  [IF force THEN [Kept EXCEPT !.of = Empty, !.at = 0, !.file = NoTable] ELSE Kept
     EXCEPT !.asked = Asked(TRUE)]
\* mutant of Refreshed: a forced refresh is content with what is fresh
RefreshedUnlessFresh(force, told, fails) ==
  IF table # Empty /\ Fresh(tableAt, Ttl.arp) THEN Kept
  ELSE IF Fresh(saved.at, Ttl.arp) THEN FromFile
  ELSE IF fails THEN NotTold(force) ELSE Told(told)
\* mutant of Refreshed: a table that is used stays fresh
RefreshedSliding(force, told, fails) ==
  IF ~force /\ table # Empty /\ Fresh(tableAt, Ttl.arp) THEN [Kept EXCEPT !.at = clock]
  ELSE IF ~force /\ Fresh(saved.at, Ttl.arp) THEN FromFile
  ELSE IF fails THEN NotTold(force) ELSE Told(told)
Refreshed(force, told, fails) ==
  IF ~force /\ table # Empty /\ Fresh(tableAt, Ttl.arp) THEN Kept
  ELSE IF ~force /\ Fresh(saved.at, Ttl.arp) THEN FromFile
  ELSE IF fails THEN NotTold(force) ELSE Told(told)
Holds(t) == table' = t.of /\ tableAt' = t.at /\ saved' = t.file /\ asked' = t.asked

\* get_mac_address(): an address the table misses is asked for by itself, and the
\* whole table is stored again with it, as if all of it had been told now: also
\* one that was kept, however old, because the command had failed.
GetMac(n, told, fails, found) ==
  /\ Using
  /\ LET t == Refreshed(FALSE, told, fails) IN
     IF t.of[n] > 0
     THEN Holds(t) /\ answer' = [by |-> "table", born |-> t.of[n]]
     ELSE IF ~found
     THEN Holds(t) /\ answer' = [by |-> "none"]
     ELSE LET wider == [t.of EXCEPT ![n] = clock] IN
          /\ Holds([t EXCEPT !.of = wider, !.file = [of |-> wider, at |-> clock],
                             !.asked.misses = @ + 1])
          /\ answer' = [by |-> "table", born |-> clock]
  /\ UNCHANGED <<clock, list, savedList, pings, made>>

\* detect_local_hosts(): one list for every limit and with or without the table
DetectHosts(useCache, arp, told, fails) ==
  /\ Using
  /\ IF useCache /\ Fresh(list.at, Ttl.hosts)
     THEN /\ answer' = [by |-> "list", of |-> list.of, made |-> made.memory, forced |-> FALSE]
          /\ UNCHANGED <<table, tableAt, saved, asked, list, savedList, made>>
     ELSE IF useCache /\ Fresh(savedList.at, Ttl.hosts)
     THEN /\ list' = [savedList EXCEPT !.at = clock]
          /\ made' = [made EXCEPT !.memory = made.file]
          /\ answer' = [by |-> "list", of |-> savedList.of, made |-> made.file, forced |-> FALSE]
          /\ UNCHANGED <<table, tableAt, saved, asked, savedList>>
     ELSE LET t == IF arp THEN Refreshed(~useCache, told, fails) ELSE Kept
              hosts == IF arp THEN t.of ELSE Empty IN
          /\ Holds(t)
          /\ answer' = [by |-> "list", of |-> hosts, made |-> clock, forced |-> ~useCache]
          /\ IF useCache
             THEN /\ list' = [of |-> hosts, at |-> clock] /\ savedList' = list'
                  /\ made' = [memory |-> clock, file |-> clock]
             ELSE UNCHANGED <<list, savedList, made>>
  /\ UNCHANGED <<clock, pings>>

\* _async_ping_host(), for one host: kept whatever it was asked for, so that a TTL
\* may be missing that was asked for
Ping(wantsTtl, ok) ==
  /\ Using
  /\ IF Fresh(pings.at, Ttl.ping)
     THEN UNCHANGED pings
     ELSE pings' = [ok |-> ok, ttl |-> ok /\ wantsTtl, at |-> clock]
  /\ answer' = [by |-> "ping", at |-> pings'.at, ok |-> pings'.ok, ttl |-> wantsTtl /\ pings'.ttl]
  /\ UNCHANGED <<clock, table, tableAt, saved, asked, list, savedList, made>>

\* clear_arp_cache(), clear_local_host_cache() and clear_ping_cache()
Clear(what) ==
  /\ Using /\ answer' = [by |-> "none"]
  /\ IF what = "arp"
     THEN Holds([of |-> Empty, at |-> 0, file |-> NoTable, asked |-> Never])
     ELSE UNCHANGED <<table, tableAt, saved, asked>>
  /\ IF what = "hosts" THEN list' = NoList /\ savedList' = NoList ELSE UNCHANGED <<list, savedList>>
  /\ IF what = "ping" THEN pings' = NoPing ELSE UNCHANGED pings
  /\ UNCHANGED <<clock, made>>

\* Another run of the program has the files alone; it takes the table as of now.
Restart ==
  /\ Using /\ answer' = [by |-> "none"]
  /\ table' = IF Fresh(saved.at, Ttl.arp) THEN saved.of ELSE Empty
  /\ tableAt' = IF table' # Empty THEN clock ELSE 0
  /\ list' = NoList /\ pings' = NoPing
  /\ UNCHANGED <<clock, saved, asked, savedList, made>>

\* The table and the lists, and the pings, which have nothing to do with them.
TableNext ==
  \/ Tick \/ Restart
  \/ \E what \in {"arp", "hosts"} : Clear(what)
  \/ \E fails \in BOOLEAN, told \in SUBSET Node :
       /\ fails => told = {}
       /\ \/ \E n \in Node, found \in BOOLEAN : GetMac(n, told, fails, found)
          \/ \E useCache, arp \in BOOLEAN : DetectHosts(useCache, arp, told, fails)
PingNext ==
  Tick \/ Restart \/ Clear("ping") \/ \E wantsTtl, ok \in BOOLEAN : Ping(wantsTtl, ok)
CachesNext == TableNext \/ PingNext

----------------------------------------------------------------------------
\* How many ticks the table may be used for once the command was last run for it:
\* its time in memory and its time in the file, and both again for every miss.
TableBound == 2 * (Ttl.arp - 1) * (1 + asked.misses)
(* An address out of the ARP table is served within that time of the last attempt
   to have the whole table told, and has been told in that attempt or since, unless
   the attempt failed: then whatever there was is served for that long again. *)
TableAges ==
  answer.by = "table" =>
    /\ clock - asked.at <= TableBound
    /\ asked.failed \/ answer.born >= asked.at
(* A list of hosts is served for less than its time in memory and its time in the
   file together; a list that was not to come from the cache names no address but
   those a command has told for it. *)
ListAges ==
  answer.by = "list" =>
    /\ clock - answer.made < 2 * Ttl.hosts
    /\ answer.forced => \A n \in Node : answer.of[n] \in {0, clock}
(* A ping is answered for less than its time. *)
PingAges == answer.by = "ping" => clock - answer.at < Ttl.ping /\ (answer.ttl => answer.ok)
CachesInv == TableAges /\ ListAges /\ PingAges
=============================================================================
