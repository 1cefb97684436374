-------------------------- MODULE AppInfrastructure --------------------------
(* Two of the things AppInfrastructure and its registry keep (app/infrastructure.py),
   side by side; a behaviour is of one of them, RefreshSpec or TopologySpec.

   Who is told of a new theme or font (_RefreshableStore, ViewStore and the
   refresh of AppInfrastructure, and the window's parts in app/__init__.py).  The
   store keeps weak references under the objects' addresses.  An address is free
   again once its object has died, and the next widget may be given it.  All of it
   runs in the user interface's thread, but the refresh of one widget may create,
   register, hide and lose others in the middle of a broadcast.  One of the two
   stores is modelled: both go through the same calls.  Widgets are numbered
   objects; one that has died does not come back.

   What the service registry tells about its services (service_topology,
   health_snapshot, check_health and install_module of ServiceRegistry and
   critical_services_healthy of AppInfrastructure): in which order they can be
   brought up, which depend on each other in a circle, and whether those that matter
   are well.  Services are numbered in the order of their names, and name the
   services they depend on in that order; some of those may not be registered.  A
   service is well, ill, or cannot be had at all (its factory or its check raises).
   Other names for a service are not modelled. *)
EXTENDS Integers, Sequences, FiniteSets, SequencesExt

CONSTANTS
  Widget, Addr,
  Service,
  Critical,      \* the services that matter
  Modules,       \* the modules' services, a sequence of sequences, each needing the ones before it
  MaxBroadcasts, MaxSteps   \* bounds: broadcasts, changes of the services

VARIABLES
  where,    \* of each widget: its address, "unborn" or "dead"
  shown,    \* widgets whose window exists
  views,    \* widgets held by the view store, replaced when the setup is done
  items,    \* _items: [Addr -> Widget, or NoWidget]: weak references
  cast,     \* the broadcast: the items of the snapshot not visited yet, or Quiet
  broadcasts, over,
  asked,    \* history: widgets registered and not unregistered
  reached,  \* history: widgets refreshed by this broadcast
  awaited,  \* history: widgets asked for when it began, and ever since
  shadowed, \* history: widgets at an address whose former holder it still has to visit
  registered,  \* _registry: the services
  needs,       \* their dependencies: [Service -> SUBSET Service]
  health,      \* [Service -> {"well", "ill", "raises"}]
  modules,     \* _module_order
  checking,    \* the snapshot under way: the services not yet looked at, or Nothing
  bad,         \* the services that matter it found not to be well
  steps, down, \* _shutdown
  steady       \* history: services that matter, registered and ill since it began

refreshVars == <<where, shown, views, items, cast, broadcasts, over, asked, reached, awaited, shadowed>>

NoWidget == "nobody"
Quiet == {"quiet"}
Living(w) == where[w] \in Addr
Free == {a \in Addr : \A w \in Widget : where[w] # a}

RefreshInit ==
  /\ where = [w \in Widget |-> "unborn"] /\ shown = {} /\ views = {}
  /\ items = [a \in Addr |-> NoWidget] /\ cast = Quiet /\ broadcasts = 0 /\ over = FALSE
  /\ asked = {} /\ reached = {} /\ awaited = {} /\ shadowed = {}

\* The weak reference's callback, or unregister_refreshable: whatever is there.
Removed(a) == [items EXCEPT ![a] = NoWidget]

\* _RefreshableStore.add
Added(w, a) == IF items[a] # NoWidget THEN items ELSE [items EXCEPT ![a] = w]

\* A part of the window is created and registered (update_ui_visibility,
\* register_dialog, ViewStore.__setitem__).
Show ==
  /\ ~over
  /\ \E w \in Widget, a \in Free, isView \in BOOLEAN :
       /\ where[w] = "unborn" /\ where' = [where EXCEPT ![w] = a]
       /\ shown' = shown \cup {w} /\ views' = IF isView THEN views \cup {w} ELSE views
       /\ items' = Added(w, a) /\ asked' = asked \cup {w}
       /\ shadowed' = IF cast # Quiet /\ \E i \in cast : i[1] = a THEN shadowed \cup {w} ELSE shadowed
  /\ UNCHANGED <<cast, broadcasts, over, reached, awaited>>

\* It is unregistered, destroyed and let go (update_ui_visibility,
\* unregister_dialog, ViewStore.__delitem__).
Hide ==
  /\ \E w \in Widget :
       /\ Living(w)
       /\ items' = Removed(where[w]) /\ where' = [where EXCEPT ![w] = "dead"]
       /\ shown' = shown \ {w} /\ views' = views \ {w}
       /\ asked' = asked \ {w} /\ awaited' = awaited \ {w} /\ shadowed' = shadowed \ {w}
  /\ UNCHANGED <<cast, broadcasts, over, reached>>

\* Its window is destroyed with its parent's.
Vanish ==
  /\ \E w \in shown : shown' = shown \ {w} /\ awaited' = awaited \ {w}
  /\ UNCHANGED <<where, views, items, cast, broadcasts, over, asked, reached, shadowed>>

\* mutant of Forgotten: no callback on the weak reference
NotForgotten(a) == items

Forgotten(a) == Removed(a)

\* Nobody holds it any longer: the reference's callback runs before the address
\* is free again.
Die ==
  /\ \E w \in Widget \ (views \cup shown) :
       /\ Living(w) /\ where' = [where EXCEPT ![w] = "dead"] /\ items' = Forgotten(where[w])
       /\ asked' = asked \ {w} /\ awaited' = awaited \ {w} /\ shadowed' = shadowed \ {w}
  /\ UNCHANGED <<shown, views, cast, broadcasts, over, reached>>

\* broadcast_refresh, update_fonts, update_theme: iter_alive takes its snapshot.
Broadcast ==
  /\ cast = Quiet /\ broadcasts < MaxBroadcasts /\ broadcasts' = broadcasts + 1 /\ ~over
  /\ cast' = {<<a, items[a]>> : a \in {b \in Addr : items[b] # NoWidget}}
  /\ reached' = {} /\ awaited' = asked \cap shown
  /\ UNCHANGED <<where, shown, views, items, over, asked, shadowed>>

\* mutant of Left: nothing more is visited after one that is gone
LeftAtGone(i) == IF Living(i[2]) /\ i[2] \in shown THEN cast \ {i} ELSE {}

Left(i) == cast \ {i}

\* The next item: one that is gone is removed by its address, another is refreshed.
Visit ==
  /\ cast # Quiet
  /\ \E i \in cast :
       LET alive == Living(i[2]) /\ i[2] \in shown
       IN /\ cast' = Left(i)
          /\ items' = IF alive THEN items ELSE Removed(i[1])
          /\ reached' = IF alive THEN reached \cup {i[2]} ELSE reached
  /\ UNCHANGED <<where, shown, views, broadcasts, over, asked, awaited, shadowed>>

EndBroadcast ==
  /\ cast = {} /\ cast' = Quiet
  /\ UNCHANGED <<where, shown, views, items, broadcasts, over, asked, reached, awaited, shadowed>>

\* AppInfrastructure.shutdown
Shutdown ==
  /\ ~over /\ over' = TRUE /\ items' = [a \in Addr |-> NoWidget] /\ views' = {}
  /\ asked' = {} /\ awaited' = {}
  /\ UNCHANGED <<where, shown, cast, broadcasts, reached, shadowed>>

RefreshNext == Show \/ Hide \/ Vanish \/ Die \/ Broadcast \/ Visit \/ EndBroadcast \/ Shutdown
RefreshSpec == RefreshInit /\ [][RefreshNext]_refreshVars

----------------------------------------------------------------------------
(* Properties *)

\* An entry is that of the object at the address: the entry of a dead widget never
\* keeps a new one with the same address out (_RefreshableStore.add, 1527).
NoStaleEntry == \A a \in Addr : items[a] # NoWidget => where[items[a]] = a

\* A widget that was registered stays so until it is unregistered, destroyed or
\* dead, or the application ends - unless it was given the address of one a
\* broadcast had in its snapshot when it died: then the broadcast removes the new
\* one's entry, and it is never refreshed again (iter_alive, 1548).
StaysRegistered ==
  \A w \in asked : w \in shown /\ w \notin shadowed => items[where[w]] = w

\* A broadcast reaches every widget registered before it that is still there at
\* its end (broadcast_refresh, 1964).
EveryoneIsReached ==
  cast = {} => \A w \in awaited : w \in reached \/ w \in shadowed

RefreshInv == NoStaleEntry /\ StaysRegistered /\ EveryoneIsReached

----------------------------------------------------------------------------
topologyVars == <<registered, needs, health, modules, checking, bad, steps, down, steady>>

Nothing == {0}

TopologyInit ==
  /\ registered = {} /\ needs \in [Service -> SUBSET Service]
  /\ health = [s \in Service |-> "well"]
  /\ modules = <<>> /\ checking = Nothing /\ bad = {} /\ steps = 0 /\ down = FALSE
  /\ steady = {}

----------------------------------------------------------------------------
(* The order to bring them up *)

\* mutant of Known: a dependency that is not registered is followed as well
KnownOrNot(n) == SetToSortSeq(needs[n], <)

Known(n) == SetToSortSeq(needs[n] \cap registered, <)

\* Behind its dependencies, a node is done.
Leave(st, node) ==
  [st EXCEPT !.open = @ \ {node}, !.done = @ \cup {node}, !.order = Append(@, node)]

Cycle(path, node) ==
  LET at == CHOOSE i \in DOMAIN path : path[i] = node
  IN {path[i] : i \in at..Len(path)}

\* dfs: the state is [open, done, order, cycles]
RECURSIVE Dfs(_, _, _)
Dfs(st, node, path) ==
  IF node \in st.done THEN st
  ELSE LET on == Append(path, node)
           through(s, d) == IF d \notin s.open THEN Dfs(s, d, on)
                            ELSE IF d \in ToSet(on) THEN [s EXCEPT !.cycles = @ \cup {Cycle(on, d)}]
                            ELSE s
       IN Leave(FoldLeft(through, [st EXCEPT !.open = @ \cup {node}], Known(node)), node)

Topology ==
  LET visit(st, n) == Dfs(st, n, <<>>)
  IN FoldLeft(visit, [open |-> {}, done |-> {}, order |-> <<>>, cycles |-> {}],
              SetToSortSeq(registered, <))

----------------------------------------------------------------------------
(* Modules and health *)

Step == steps < MaxSteps /\ steps' = steps + 1 /\ ~down

\* install_module: a service that is registered already makes configure fail, and
\* what it registered before stays.
Install ==
  /\ Step /\ \E m \in DOMAIN Modules :
       /\ m \notin ToSet(modules) /\ 1..(m - 1) \subseteq ToSet(modules)
       /\ LET clash == {i \in DOMAIN Modules[m] : Modules[m][i] \in registered}
              upto == IF clash = {} THEN Len(Modules[m]) ELSE (CHOOSE i \in clash : \A j \in clash : i <= j) - 1
          IN /\ registered' = registered \cup ToSet(SubSeq(Modules[m], 1, upto))
             /\ modules' = IF clash = {} THEN Append(modules, m) ELSE modules
  /\ UNCHANGED <<needs, health, checking, bad, down, steady>>

Unregister ==
  /\ Step /\ \E s \in registered : registered' = registered \ {s} /\ steady' = steady \ {s}
  /\ UNCHANGED <<needs, health, modules, checking, bad, down>>

\* A service is registered by other means.
Register ==
  /\ Step /\ \E s \in Service \ registered : registered' = registered \cup {s}
  /\ UNCHANGED <<needs, health, modules, checking, bad, down, steady>>

Sicken ==
  /\ Step /\ \E s \in Service, h \in {"well", "ill", "raises"} :
       /\ health' = [health EXCEPT ![s] = h]
       /\ steady' = IF h = "well" THEN steady \ {s} ELSE steady
  /\ UNCHANGED <<registered, needs, modules, checking, bad, down>>

StopServices ==
  /\ Step /\ down' = TRUE /\ registered' = {} /\ steady' = {}
  /\ UNCHANGED <<needs, health, modules, checking, bad>>

\* health_snapshot: the names are copied, and each is looked at on its own, in the
\* order of their registration, which may be any.
Snapshot ==
  /\ checking = Nothing /\ ~down
  /\ checking' = registered /\ bad' = {}
  /\ steady' = {s \in registered \cap Critical : health[s] # "well"}
  /\ UNCHANGED <<registered, needs, health, modules, steps, down>>

\* mutant of Status: a check that raises says nothing
StatusIfAnswered(s) ==
  IF s \in registered /\ health[s] = "ill" THEN bad \cup ({s} \cap Critical) ELSE bad

\* check_health, tolerating failures; a service no longer registered does not matter
Status(s) ==
  IF s \in registered /\ health[s] # "well" THEN bad \cup ({s} \cap Critical) ELSE bad

Check ==
  /\ checking # Nothing
  /\ \E s \in checking : bad' = Status(s) /\ checking' = checking \ {s}
  /\ UNCHANGED <<registered, needs, health, modules, steps, down, steady>>

TopologyNext == Install \/ Unregister \/ Register \/ Sicken \/ StopServices \/ Snapshot \/ Check
TopologySpec == TopologyInit /\ [][TopologyNext]_topologyVars

----------------------------------------------------------------------------
(* Properties *)

Before(order, a, b) == \E i, j \in DOMAIN order : i < j /\ order[i] = a /\ order[j] = b
RECURSIVE Closure(_, _)
Closure(S, n) ==
  IF n = 0 THEN S ELSE Closure(S \cup UNION {needs[s] \cap registered : s \in S}, n - 1)
Under(s) == Closure(needs[s] \cap registered, Cardinality(Service))

\* Every service comes once and after those it depends on, unless they depend on
\* it in turn; and a circle is reported where, and only where, there is one
\* (service_topology, infrastructure.py:1159).
OrderIsRight ==
  LET t == Topology
  IN /\ ToSet(t.order) = registered /\ Len(t.order) = Cardinality(registered)
     /\ \A s \in registered : \A d \in needs[s] \cap registered :
          s \notin Under(d) => Before(t.order, d, s)
     /\ \A s \in registered : s \in Under(s) =>
          \E c \in t.cycles : c \subseteq Under(s) /\ Under(s) \cap c # {}
     /\ \A c \in t.cycles : \A s, r \in c : r \in Under(s)

\* A service that matters and is not well, from the snapshot's beginning to its
\* end, is among its bad ones (critical_services_healthy, infrastructure.py:2039,
\* "whether all critical services currently report healthy").
IllIsReported == checking = {} => steady \subseteq bad

TopologyInv == OrderIsRight /\ IllIsReported
=============================================================================
