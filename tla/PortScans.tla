----------------------------- MODULE PortScans -----------------------------
(* The two port scanners of the tools screen, each call of which runs in a thread of
   its own, and the scans of utils/network they await: what a user may write, the
   ping before a scan, _HOST_CACHE, by host and the family asked for, PORT_CACHE, by
   host, ports and flags, the connections and the status bar.  A host has ports that
   open and close on two families of addresses, and its name resolves to some of
   these. *)
EXTENDS Naturals, FiniteSets

CONSTANTS
  Host,
  Written,     \* what may be written for ports: sets of parts, [from, to, step, dash]
  MaxPort,     \* the largest number of a port
  Start,       \* the networks there may be at first: [names, open]
  Flags,       \* what else is asked of a port
  Family,      \* the families that may be asked for: "any", "v4", "v6"
  PortTtl, HostTtl,             \* ticks an entry is good for
  MaxScans, MaxTurns            \* bounds: scans, changes of what is around them

VARIABLES
  clock,
  names,     \* the families each host's name resolves to
  open,      \* for each host and family, the ports that are open
  shut,      \* (history) the tick each of these was last shut at
  known,     \* _HOST_CACHE: for each host and family asked for, the answer and its time
  kept,      \* PORT_CACHE
  tool,      \* the calls of the scanners
  bar,       \* the status bar's progress: hidden, or the half of a scan it shows
  closed,    \* whether the window has gone
  turns

portVars == <<clock, names, open, shut, known, kept, tool, bar, closed, turns>>

IP == {"v4", "v6"}
Scan == 1..MaxScans
\* mutant of Bad: a port may be 0
BadUnlessZero(part) ==
  \/ part.from > MaxPort \/ part.to > MaxPort \/ part.from > part.to
  \/ part.step < 1 \/ (~part.dash /\ part.step # 1)
\* _get_port_number() and parse_port_range() refuse what is no port and a range that
\* goes down, parse_ports() a step below 1 and a step without a range
Bad(part) ==
  \/ part.from \notin 1..MaxPort \/ part.to \notin 1..MaxPort \/ part.from > part.to
  \/ part.step < 1 \/ (~part.dash /\ part.step # 1)
Parsed(parts) ==
  UNION {{p \in part.from..part.to : (p - part.from) % part.step = 0} : part \in parts}
Legal == {parts \in Written : \A part \in parts : ~Bad(part)}
Keys == Host \X ({{}} \cup {Parsed(parts) : parts \in Legal}) \X Flags
\* mutant of Key: the ports are left out
KeyOfHost(h, s) == <<h, {}, s.flags>>
\* the host, the ports and the flags, but not the family
Key(h, s) == <<h, s.ports, s.flags>>

Idle == [st |-> "idle"]
PortsInit ==
  /\ clock = 1 /\ \E at \in Start : names = at.names /\ open = at.open
  /\ shut = [h \in Host |-> [f \in IP |-> [p \in 1..MaxPort |-> 0]]]
  /\ known = [h \in Host |-> [f \in Family |-> [to |-> "v4", addr |-> FALSE, at |-> 0]]]
  /\ kept = [k \in Keys |-> [of |-> {}, to |-> "v4", since |-> 0, at |-> 0]]
  /\ tool = [t \in Scan |-> Idle] /\ bar = "hidden" /\ closed = FALSE /\ turns = 0

----------------------------------------------------------------------------
(* The network, and the window *)
Turns == turns < MaxTurns /\ turns' = turns + 1 /\ UNCHANGED <<known, kept, tool, bar>>
Tick == Turns /\ clock' = clock + 1 /\ UNCHANGED <<names, open, shut, closed>>
Turn(h, f, p) ==
  /\ Turns
  /\ open' = [open EXCEPT ![h][f] = IF p \in @ THEN @ \ {p} ELSE @ \cup {p}]
  /\ shut' = IF p \in open[h][f] THEN [shut EXCEPT ![h][f][p] = clock] ELSE shut
  /\ UNCHANGED <<clock, names, closed>>
Rename(h, to) ==
  /\ Turns /\ to # names[h] /\ names' = [names EXCEPT ![h] = to]
  /\ UNCHANGED <<clock, open, shut, closed>>
Close == Turns /\ ~closed /\ closed' = TRUE /\ UNCHANGED <<clock, names, open, shut>>

----------------------------------------------------------------------------
World == <<clock, names, open, shut, closed, turns>>
Fresh(at, ttl) == at > 0 /\ clock - at < ttl

(* A scanner asks for hosts and ports: what cannot be parsed is refused, a network scan
   of no host as well, and all else goes to a thread *)
Ask(t, net, hosts, parts, flags, fam, ping) ==
  /\ tool[t] = Idle /\ \A s \in 1..(t - 1) : tool[s] # Idle
  /\ tool' = [tool EXCEPT ![t] =
       IF parts \notin Legal \/ hosts = {} THEN [st |-> "refused"]
       ELSE [st |-> IF ping THEN "ping" ELSE "scan", net |-> net, ping |-> ping,
             ports |-> Parsed(parts), flags |-> flags, fam |-> fam,
             at |-> [h \in hosts |-> [st |-> "wait"]]]]
  /\ UNCHANGED <<World, known, kept, bar>>
ScanPort(t, h, parts, flags, fam, ping) == Ask(t, FALSE, {h}, parts, flags, fam, ping)
ScanNetwork(t, hosts, parts, flags, fam, ping) == Ask(t, TRUE, hosts, parts, flags, fam, ping)

\* progress(), which raises when the window has gone, shows how far a scan is; of a
\* network scan that pings first the pings are the first half, and its end is shown
\* as full.
Shown(s) == bar' = IF s.net /\ s.ping THEN "pinged" ELSE "scan"
HidOrFull(s) == bar' = IF s.net /\ s.ping THEN "pinged" ELSE "hidden"

\* async_filter_active_hosts(): a network scan shows its progress, and a ping whose
\* progress raises is never reported done.  The hosts that answer are scanned.
Pinged(t, alive) ==
  /\ tool[t].st = "ping" /\ alive \subseteq DOMAIN tool[t].at
  /\ tool' = [tool EXCEPT ![t] =
       IF closed /\ (@.net \/ alive = {}) THEN [st |-> IF @.net THEN "stuck" ELSE "failed"]
       ELSE IF alive = {} THEN [st |-> "refused"]
       ELSE [@ EXCEPT !.st = "scan", !.at = [h \in alive |-> @[h]]]]
  /\ IF tool[t].net /\ ~closed THEN Shown(tool[t]) ELSE UNCHANGED bar
  /\ UNCHANGED <<World, known, kept>>

To(t, h, n) == tool' = [tool EXCEPT ![t].at[h] = n]
Answered(of, to, since, at, served) ==
  [st |-> "done", of |-> of, to |-> to, since |-> since, age |-> clock - at, served |-> served]
\* progress(None) for a host: the port scanner's hides the bar
HostShown(s) == IF s.net THEN Shown(s) ELSE HidOrFull(s)

\* The beginning of a host's scan: no port at all is answered as it is, and what is
\* kept is served.
Look(t, h) ==
  /\ tool[t].st = "scan" /\ tool[t].at[h].st = "wait"
  /\ LET s == tool[t]
         hit == kept[Key(h, s)] IN
     IF s.ports = {} \/ Fresh(hit.at, PortTtl)
     THEN IF closed THEN To(t, h, [st |-> "raised"]) /\ UNCHANGED bar
          ELSE /\ To(t, h, IF s.ports = {} THEN Answered({}, s.fam, clock, clock, FALSE)
                           ELSE Answered(hit.of, hit.to, hit.since, hit.at, TRUE))
               /\ HostShown(s)
     ELSE To(t, h, [st |-> "resolve"]) /\ UNCHANGED bar
  /\ UNCHANGED <<World, known, kept>>

\* mutant of Resolved: the other family will do when that asked for has no address
ResolvedToAny(h, fam) ==
  IF Fresh(known[h][fam].at, HostTtl) THEN known[h][fam]
  ELSE [to |-> IF fam \in names[h] THEN fam ELSE IF names[h] = {"v6"} THEN "v6" ELSE "v4",
        addr |-> (fam \in IP /\ fam \notin names[h]) \/ names[h] = {}, at |-> clock]
\* _resolve_host(): the fourth version if any will do.  A name that does not resolve is
\* taken for an address, of the family asked for, and kept as long.
Resolved(h, fam) ==
  IF Fresh(known[h][fam].at, HostTtl) THEN known[h][fam]
  ELSE [to |-> IF fam \in IP THEN fam ELSE IF names[h] = {"v6"} THEN "v6" ELSE "v4",
        addr |-> IF fam \in IP THEN fam \notin names[h] ELSE names[h] = {}, at |-> clock]
Resolve(t, h) ==
  /\ tool[t].st = "scan" /\ tool[t].at[h].st = "resolve"
  /\ LET to == Resolved(h, tool[t].fam) IN
     /\ known' = [known EXCEPT ![h][tool[t].fam] = to]
     /\ To(t, h, [st |-> "ports", to |-> to.to, addr |-> to.addr, since |-> clock,
                  left |-> tool[t].ports, found |-> {}])
  /\ UNCHANGED <<World, kept, bar>>

\* A connection is made or not, in time or not.  A worker whose progress raises has not
\* reported its port done, and the scan waits for that without end.
Connect(t, h, p, late) ==
  /\ tool[t].st = "scan" /\ tool[t].at[h].st = "ports" /\ p \in tool[t].at[h].left
  /\ LET at == tool[t].at[h]
         met == ~late /\ ~at.addr /\ p \in open[h][at.to] IN
     IF closed THEN tool' = [tool EXCEPT ![t] = [st |-> "stuck"]] /\ UNCHANGED bar
     ELSE /\ To(t, h, [at EXCEPT !.left = @ \ {p}, !.found = IF met THEN @ \cup {p} ELSE @])
          /\ Shown(tool[t])
  /\ UNCHANGED <<World, known, kept>>

\* The end of a host's scan is shown, then what it found is kept.
Finish(t, h) ==
  /\ tool[t].st = "scan" /\ tool[t].at[h].st = "ports" /\ tool[t].at[h].left = {}
  /\ LET s == tool[t]
         at == s.at[h] IN
     IF closed THEN To(t, h, [st |-> "raised"]) /\ UNCHANGED <<bar, kept>>
     ELSE /\ To(t, h, Answered(at.found, at.to, at.since, clock, FALSE))
          /\ kept' = [kept EXCEPT ![Key(h, s)] =
                        [of |-> at.found, to |-> at.to, since |-> at.since, at |-> clock]]
          /\ HostShown(s)
  /\ UNCHANGED <<World, known>>

\* async_scan_targets(): a host whose scan raised is not in the results, and the end
\* of all is shown
End(t) ==
  /\ tool[t].st = "scan" /\ \A h \in DOMAIN tool[t].at : tool[t].at[h].st \in {"done", "raised"}
  /\ tool' = [tool EXCEPT ![t].st =
       IF closed /\ (tool[t].net \/ \E h \in DOMAIN tool[t].at : tool[t].at[h].st = "raised")
       THEN "failed" ELSE "done"]
  /\ IF tool[t].net /\ ~closed THEN HidOrFull(tool[t]) ELSE UNCHANGED bar
  /\ UNCHANGED <<World, known, kept>>

PortsNext ==
  \/ Tick \/ Close
  \/ \E h \in Host, f \in IP, p \in 1..MaxPort : Turn(h, f, p)
  \/ \E h \in Host, to \in SUBSET IP : Rename(h, to)
  \/ \E t \in Scan :
       \/ \E parts \in Written, flags \in Flags, fam \in Family, ping \in BOOLEAN :
            \/ \E h \in Host : ScanPort(t, h, parts, flags, fam, ping)
            \/ \E hosts \in SUBSET Host : ScanNetwork(t, hosts, parts, flags, fam, ping)
       \/ \E alive \in SUBSET Host : Pinged(t, alive)
       \/ End(t)
       \/ \E h \in Host :
            /\ tool[t].st = "scan" /\ h \in DOMAIN tool[t].at
            /\ \/ Look(t, h) \/ Resolve(t, h) \/ Finish(t, h)
               \/ \E p \in 0..MaxPort, late \in BOOLEAN : Connect(t, h, p, late)

----------------------------------------------------------------------------
(* A port that is reported was asked for and was open, on the family that was scanned,
   at some time since that scan began; what is served is not older than its time; and
   only what is served can be of a family that was not asked for. *)
ReportsTrue ==
  \A t \in Scan : tool[t].st = "done" =>
    \A h \in DOMAIN tool[t].at : LET a == tool[t].at[h] IN
      /\ a.st = "done" /\ a.of \subseteq tool[t].ports /\ tool[t].ports \subseteq 1..MaxPort
      /\ \A p \in a.of : p \in open[h][a.to] \/ shut[h][a.to][p] >= a.since
      /\ a.age < PortTtl
      /\ ~a.served /\ tool[t].fam \in IP => a.to = tool[t].fam
(* When no scanner is at work the bar shows no progress, but that of a network scan
   that pinged first; and none waits without end while the window is there. *)
BarHides ==
  ~closed /\ (\A t \in Scan : tool[t].st \notin {"ping", "scan"}) =>
    bar # "scan" /\ \A t \in Scan : tool[t].st # "stuck"
PortsInv == ReportsTrue /\ BarHides
=============================================================================
