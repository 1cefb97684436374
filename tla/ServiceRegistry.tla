--------------------------- MODULE ServiceRegistry ---------------------------
(***************************************************************************)
(* ServiceRegistry and ServiceScope (src/coolbox/app/infrastructure.py).   *)
(* The application's main thread registers, replaces and unregisters       *)
(* services, opens and closes scopes and shuts the registry down; other    *)
(* threads resolve.  A resolve looks its service up under the lock, builds *)
(* the instance without it and takes the lock again to store it.           *)
(*                                                                         *)
(* An instance is a number; every service has an on_close.  Observers,     *)
(* metrics, aliases and instances attached to a scope by hand are left out. *)
(***************************************************************************)
EXTENDS Integers, Sequences, FiniteSets, SequencesExt, FiniteSetTheorems, SequenceTheorems, TLAPS

CONSTANTS
  Service, Thread, Scope, Root,
  Offers,        \* per service: the lifetimes and dependency lists it is registered with
  MaxAttempts,   \* per service: max_attempts of its resilience policy
  HasFallback,   \* services whose policy has a fallback
  MaxRegs,       \* bound on registrations
  MaxInstances   \* bound on instances

VARIABLES
  reg,        \* _registry: service -> its registration, or NoReg
  regs,       \* registrations so far
  given,      \* per registration: the instance of a register_instance(), or 0
  cache,      \* _singleton_cache
  callbacks,  \* _singleton_shutdown_callbacks
  scopes,     \* _scopes: scopes to be closed by shutdown()
  open,       \* scopes, root included, that are not closed
  held,       \* scope -> its _instances
  closers,    \* scope -> its _shutdown_callbacks
  down,       \* _shutdown
  chores,     \* what the main thread's call has left to do
  stack,      \* per thread: the frames of _resolve()
  made,       \* history: per instance, the service and registration it is of
  stored,     \* history: instances that have entered a cache
  late,       \* history: those whose registration, registry or scope had gone by then
  dropped,    \* history: instances given up without their on_close
  handed,     \* history: instances a resolve has returned
  disposed    \* history: per instance, calls of its on_close

tables == <<reg, regs, given, cache, callbacks>>
containers == <<scopes, open, held, closers, down>>
history == <<made, stored, late, dropped, handed, disposed>>
vars == <<tables, containers, chores, stack, history>>

Instance == 1..MaxInstances
NoReg == [id |-> 0, lifetime |-> "none", deps |-> <<>>]
Nothing == [s \in Service |-> 0]
AllScopes == Scope \union {Root}
Singleton(r) == r.lifetime = "singleton"
Scoped(r) == r.lifetime = "scoped"
Registered(s) == reg[s] # NoReg
Chore(do, scope, n) == [do |-> do, scope |-> scope, of |-> n]
Calls(instances) == [k \in DOMAIN instances |-> Chore("call", Root, instances[k])]
CallOf(i) == IF i # 0 THEN Calls(<<i>>) ELSE <<>>
\* a chore for every scope that is open
ForScopes(do, n) == [k \in 1..Cardinality(scopes) |-> Chore(do, SetToSeq(scopes)[k], n)]
\* the instances a table of callbacks names, as chores in any order
CallsOf(table) == Calls(SetToSeq({table[s] : s \in Service} \ {0}))
MainIdle == chores = <<>>
Top(t) == Last(stack[t])
At(t, place) == stack[t] # <<>> /\ Top(t).at = place
Frame(s, c) == [service |-> s, scope |-> c, reg |-> NoReg, at |-> "lookup", dep |-> 1, attempt |-> 1, instance |-> 0]

Init ==
  /\ reg = [s \in Service |-> NoReg] /\ regs = 0 /\ given = [r \in 1..MaxRegs |-> 0]
  /\ cache = Nothing /\ callbacks = Nothing
  /\ scopes = {} /\ open = {Root} /\ down = FALSE
  /\ held = [c \in AllScopes |-> Nothing] /\ closers = [c \in AllScopes |-> Nothing]
  /\ chores = <<>> /\ stack = [t \in Thread |-> <<>>]
  /\ made = <<>> /\ stored = {} /\ late = {} /\ dropped = {} /\ handed = {}
  /\ disposed = [i \in Instance |-> 0]

-----------------------------------------------------------------------------
(* The main thread *)

\* register(), and what register(replace=True) takes out of the singleton tables
Enter(s, lifetime, deps) ==
  /\ MainIdle /\ ~down /\ regs < MaxRegs
  /\ regs' = regs + 1 /\ reg' = [reg EXCEPT ![s] = [id |-> regs + 1, lifetime |-> lifetime, deps |-> deps]]
  /\ cache' = [cache EXCEPT ![s] = 0] /\ callbacks' = [callbacks EXCEPT ![s] = 0]

\* an instance is disposed of if it is still cached, a scope is asked for its own
Purge(s) ==
  IF Singleton(reg[s])
  THEN IF cache[s] # 0 THEN CallOf(callbacks[s]) ELSE <<>>
  ELSE IF Scoped(reg[s])
  THEN ForScopes("drop", s) \o <<Chore("drop", Root, s)>>
  ELSE <<>>

Register(s, offer) ==
  /\ Enter(s, offer.lifetime, offer.deps)
  /\ chores' = IF Registered(s) THEN Purge(s) ELSE <<>>
  /\ UNCHANGED <<given, containers, stack, history>>

\* register_instance(): the eager resolve comes before the instance is put in place
RegisterInstance(s) ==
  /\ Enter(s, "singleton", <<>>) /\ Len(made) < MaxInstances
  /\ given' = [given EXCEPT ![regs + 1] = Len(made) + 1]
  /\ made' = Append(made, [service |-> s, reg |-> regs + 1])
  /\ chores' = (IF Registered(s) THEN Purge(s) ELSE <<>>) \o <<Chore("put", Root, s)>>
  /\ UNCHANGED <<containers, stack, stored, late, dropped, handed, disposed>>

\* register(replace=True) with another service's name among the aliases raises
\* after the old registration has been taken out
ReplaceRaises(s) ==
  /\ MainIdle /\ ~down /\ Registered(s) /\ \E other \in Service \ {s} : Registered(other)
  /\ reg' = [reg EXCEPT ![s] = NoReg]
  /\ cache' = [cache EXCEPT ![s] = 0] /\ callbacks' = [callbacks EXCEPT ![s] = 0]
  /\ dropped' = dropped \union ({cache[s]} \ {0})
  /\ UNCHANGED <<regs, given, containers, chores, stack, made, stored, late, handed, disposed>>

Unregister(s, dispose) ==
  /\ MainIdle /\ ~down /\ Registered(s)
  /\ reg' = [reg EXCEPT ![s] = NoReg]
  /\ cache' = [cache EXCEPT ![s] = 0] /\ callbacks' = [callbacks EXCEPT ![s] = 0]
  /\ chores' = IF dispose THEN Purge(s) ELSE <<>>
  /\ dropped' = IF dispose THEN dropped ELSE dropped \union ({cache[s]} \ {0})
  /\ UNCHANGED <<regs, given, containers, stack, made, stored, late, handed, disposed>>

CreateScope(c) ==
  /\ MainIdle /\ ~down /\ c \notin open /\ held[c] = Nothing
  /\ \A t \in Thread : stack[t] # <<>> => Top(t).scope # c
  /\ open' = open \union {c} /\ scopes' = scopes \union {c}
  /\ UNCHANGED <<tables, held, closers, down, chores, stack, history>>

\* close(), of the main thread's own or of shutdown()
Closing(c) ==
  /\ open' = open \ {c}
  /\ held' = [held EXCEPT ![c] = Nothing] /\ closers' = [closers EXCEPT ![c] = Nothing]

CloseScope(c) ==
  /\ MainIdle /\ c \in open \ {Root} /\ Closing(c)
  /\ chores' = CallsOf(closers[c]) \o <<Chore("release", c, 0)>>
  /\ UNCHANGED <<tables, scopes, down, stack, history>>

Shutdown ==
  /\ MainIdle /\ ~down
  /\ down' = TRUE /\ reg' = [s \in Service |-> NoReg]
  /\ cache' = Nothing /\ callbacks' = Nothing
  /\ chores' = ForScopes("close", 0)
       \o <<Chore("close", Root, 0)>> \o CallsOf(callbacks)
       \o [k \in 1..Cardinality({s \in Service : Scoped(reg[s])}) |->
             Chore("drop", Root, SetToSeq({s \in Service : Scoped(reg[s])})[k])]
  /\ UNCHANGED <<regs, given, scopes, open, held, closers, stack, history>>

-----------------------------------------------------------------------------
(* What the main thread has left to do *)

Call(i) ==
  /\ disposed' = [disposed EXCEPT ![i] = @ + 1] /\ chores' = Tail(chores)
  /\ UNCHANGED <<tables, containers, stack, made, stored, late, dropped, handed>>

\* _drop_service(): the callbacks are invoked once every scope has been asked
Drop(c, s) ==
  /\ chores' = Tail(chores) \o CallOf(closers[c][s])
  /\ held' = [held EXCEPT ![c][s] = 0] /\ closers' = [closers EXCEPT ![c][s] = 0]
  /\ UNCHANGED <<tables, scopes, open, down, stack, history>>

Close(c) ==
  /\ IF c \in open
     THEN /\ Closing(c)
          /\ chores' = CallsOf(closers[c]) \o <<Chore("release", c, 0)>> \o Tail(chores)
     ELSE chores' = Tail(chores) /\ UNCHANGED <<open, held, closers>>
  /\ UNCHANGED <<tables, scopes, down, stack, history>>

Release(c) ==
  /\ scopes' = scopes \ {c} /\ chores' = Tail(chores)
  /\ UNCHANGED <<tables, open, held, closers, down, stack, history>>

\* what the eager resolve found or made is overwritten
Put(s) ==
  LET i == given[reg[s].id]
  IN /\ cache' = [cache EXCEPT ![s] = i] /\ callbacks' = [callbacks EXCEPT ![s] = i]
     /\ stored' = stored \union {i} /\ chores' = Tail(chores)
     /\ UNCHANGED <<reg, regs, given, containers, stack, made, late, dropped, handed, disposed>>

DoChore ==
  LET chore == Head(chores)
  IN /\ chores # <<>>
     /\ \/ chore.do = "call" /\ Call(chore.of)
        \/ chore.do = "drop" /\ Drop(chore.scope, chore.of)
        \/ chore.do = "close" /\ Close(chore.scope)
        \/ chore.do = "release" /\ Release(chore.scope)
        \/ chore.do = "put" /\ Put(chore.of)

-----------------------------------------------------------------------------
(* Threads that resolve *)

Move(t, frame) == stack' = [stack EXCEPT ![t] = Append(Front(@), frame)]

\* the frame below goes on to its next dependency, or has failed
Done(t) ==
  LET rest == Front(stack[t])
  IN stack' = [stack EXCEPT ![t] =
       IF rest = <<>> THEN rest ELSE Append(Front(rest), [Last(rest) EXCEPT !.dep = @ + 1])]
Raise(t) ==
  LET rest == Front(stack[t])
  IN stack' = [stack EXCEPT ![t] =
       IF rest = <<>> THEN rest ELSE Append(Front(rest), [Last(rest) EXCEPT !.at = "failed"])]

Resolve(t, s, c) ==
  /\ stack[t] = <<>> /\ c \in open
  /\ stack' = [stack EXCEPT ![t] = <<Frame(s, c)>>]
  /\ UNCHANGED <<tables, containers, chores, history>>

Cached(t, s) ==
  IF Singleton(reg[s]) THEN cache[s] ELSE IF Scoped(reg[s]) THEN held[Top(t).scope][s] ELSE 0

Lookup(t) ==
  LET s == Top(t).service
      cycle == \E k \in 1..(Len(stack[t]) - 1) : stack[t][k].service = s
  IN /\ At(t, "lookup")
     /\ \/ (down \/ ~Registered(s) \/ cycle) /\ Raise(t) /\ UNCHANGED handed
        \/ /\ ~down /\ Registered(s) /\ ~cycle /\ Cached(t, s) # 0
           /\ Done(t) /\ handed' = handed \union {Cached(t, s)}
        \/ /\ ~down /\ Registered(s) /\ ~cycle /\ Cached(t, s) = 0
           /\ Move(t, [Top(t) EXCEPT !.reg = reg[s], !.at = "deps"]) /\ UNCHANGED handed
     /\ UNCHANGED <<tables, containers, chores, made, stored, late, dropped, disposed>>

Descend(t) ==
  /\ At(t, "deps") /\ Top(t).dep <= Len(Top(t).reg.deps)
  /\ stack' = [stack EXCEPT ![t] = Append(@, Frame(Top(t).reg.deps[Top(t).dep], Top(t).scope))]
  /\ UNCHANGED <<tables, containers, chores, history>>

Make(t, i) == Move(t, [Top(t) EXCEPT !.at = "store", !.instance = i])

\* the factory, without the lock; it may raise, but for register_instance()'s
Create(t) ==
  LET f == Top(t)
  IN /\ At(t, "deps") /\ f.dep > Len(f.reg.deps)
     /\ \/ given[f.reg.id] = 0 /\ Move(t, [f EXCEPT !.at = "failed"]) /\ UNCHANGED made
        \/ given[f.reg.id] # 0 /\ Make(t, given[f.reg.id]) /\ UNCHANGED made
        \/ /\ given[f.reg.id] = 0 /\ Len(made) < MaxInstances
           /\ made' = Append(made, [service |-> f.service, reg |-> f.reg.id])
           /\ Make(t, Len(made'))
     /\ UNCHANGED <<tables, containers, chores, stored, late, dropped, handed, disposed>>

\* a failed dependency is retried as a failed factory is
Retry(t) ==
  /\ At(t, "failed") /\ Top(t).attempt < MaxAttempts[Top(t).service]
  /\ Move(t, [Top(t) EXCEPT !.at = "deps", !.dep = 1, !.attempt = @ + 1])
  /\ UNCHANGED <<tables, containers, chores, history>>

Fallback(t) ==
  /\ At(t, "failed") /\ Top(t).attempt = MaxAttempts[Top(t).service]
  /\ Top(t).service \in HasFallback /\ Len(made) < MaxInstances
  /\ made' = Append(made, [service |-> Top(t).service, reg |-> Top(t).reg.id])
  /\ Make(t, Len(made'))
  /\ UNCHANGED <<tables, containers, chores, stored, late, dropped, handed, disposed>>

\* without a fallback, or one that raises, or an instance the contract or the
\* validator refuses: what has been made is forgotten
GiveUp(t) ==
  /\ \/ At(t, "failed") /\ Top(t).attempt = MaxAttempts[Top(t).service]
     \/ At(t, "store")
  /\ Raise(t)
  /\ UNCHANGED <<tables, containers, chores, history>>

Stale(f) == down \/ reg[f.service].id # f.reg.id

StoreAlways(t) ==                         \* mutant of StoreSingleton
  LET f == Top(t)
  IN /\ At(t, "store") /\ Singleton(f.reg) /\ Done(t)
     /\ cache' = [cache EXCEPT ![f.service] = f.instance]
     /\ callbacks' = [callbacks EXCEPT ![f.service] = f.instance]
     /\ stored' = stored \union {f.instance}
     /\ late' = IF Stale(f) THEN late \union {f.instance} ELSE late
     /\ handed' = handed \union {f.instance}
     /\ UNCHANGED <<reg, regs, given, containers, chores, made, dropped, disposed>>

StoreSingleton(t) ==
  LET f == Top(t)
  IN /\ At(t, "store") /\ Singleton(f.reg) /\ Done(t)
     /\ IF cache[f.service] # 0
        THEN handed' = handed \union {cache[f.service]} /\ UNCHANGED <<cache, callbacks, stored, late>>
        ELSE /\ cache' = [cache EXCEPT ![f.service] = f.instance]
             /\ callbacks' = [callbacks EXCEPT ![f.service] = f.instance]
             /\ stored' = stored \union {f.instance}
             /\ late' = IF Stale(f) THEN late \union {f.instance} ELSE late
             /\ handed' = handed \union {f.instance}
     /\ UNCHANGED <<reg, regs, given, containers, chores, made, dropped, disposed>>

\* _store_instance(): a closed scope takes what it is given
StoreScoped(t) ==
  LET f == Top(t)
      c == f.scope
  IN /\ At(t, "store") /\ Scoped(f.reg) /\ Done(t)
     /\ IF held[c][f.service] # 0
        THEN handed' = handed \union {held[c][f.service]} /\ UNCHANGED <<held, closers, stored, late>>
        ELSE /\ held' = [held EXCEPT ![c][f.service] = f.instance]
             /\ closers' = [closers EXCEPT ![c][f.service] = f.instance]
             /\ stored' = stored \union {f.instance}
             /\ late' = IF Stale(f) \/ c \notin open THEN late \union {f.instance} ELSE late
             /\ handed' = handed \union {f.instance}
     /\ UNCHANGED <<tables, scopes, open, down, chores, made, dropped, disposed>>

HandOver(t) ==
  /\ At(t, "store") /\ Top(t).reg.lifetime = "transient" /\ Done(t)
  /\ handed' = handed \union {Top(t).instance}
  /\ UNCHANGED <<tables, containers, chores, made, stored, late, dropped, disposed>>

Work(t) ==
  \/ Lookup(t) \/ Descend(t) \/ Create(t) \/ Retry(t) \/ Fallback(t) \/ GiveUp(t)
  \/ StoreSingleton(t) \/ StoreScoped(t) \/ HandOver(t)

Next ==
  \/ DoChore \/ Shutdown
  \/ \E s \in Service :
       \/ RegisterInstance(s) \/ ReplaceRaises(s)
       \/ \E offer \in Offers[s] : Register(s, offer)
       \/ \E dispose \in BOOLEAN : Unregister(s, dispose)
  \/ \E c \in Scope : CreateScope(c) \/ CloseScope(c)
  \/ \E c \in AllScopes, s \in Service, t \in Thread : Resolve(t, s, c)
  \/ \E t \in Thread : Work(t)
Spec == Init /\ [][Next]_vars

-----------------------------------------------------------------------------
Made(i) == i \in 1..Len(made)
MadeOf(s) == {i \in 1..Len(made) : made[i].service = s /\ made[i].reg = reg[s].id}

TypeOK ==
  /\ \A s \in Service : Registered(s) =>
       /\ reg[s].id \in 1..regs
       /\ \/ [lifetime |-> reg[s].lifetime, deps |-> reg[s].deps] \in Offers[s]
          \/ given[reg[s].id] # 0 /\ Singleton(reg[s])
  /\ regs \in 0..MaxRegs /\ given \in [1..MaxRegs -> 0..MaxInstances] /\ down \in BOOLEAN
  /\ \A table \in {cache, callbacks} \union {held[c] : c \in AllScopes} \union {closers[c] : c \in AllScopes} :
       table \in [Service -> 0..MaxInstances]
  /\ scopes \subseteq Scope /\ open \subseteq AllScopes
  /\ made \in Seq([service : Service, reg : 0..MaxRegs])
  /\ stored \union late \union dropped \union handed \subseteq 1..Len(made)

\* "Cyclic service dependency detected" (line 638): a service never waits for
\* itself, whatever is registered anew while it is resolved.
NoCycle == \A t \in Thread : \A j, k \in DOMAIN stack[t] :
  j # k /\ stack[t][j].at # "lookup" /\ stack[t][k].at # "lookup" => stack[t][j].service # stack[t][k].service

\* Under one registration of a singleton no two resolves, on any threads, are
\* given two of its instances.
OneSingleton == \A s \in Service :
  Singleton(reg[s]) => Cardinality(MadeOf(s) \intersect handed) <= 1

Entries == {cache[s] : s \in Service} \union UNION {{held[c][s] : s \in Service} : c \in AllScopes}
Closers == {callbacks[s] : s \in Service} \union UNION {{closers[c][s] : s \in Service} : c \in AllScopes}
Due == {k \in DOMAIN chores : chores[k].do = "call"}

\* An instance that went into the registry or a scope in time is there with its
\* on_close, or about to be disposed of, or has been, once; unless its caller
\* gave it up (unregister(dispose=False), a replacement that raises).
AccountedFor ==
  \A i \in stored \ (late \union dropped) :
    LET cached == i \in Entries /\ i \in Closers
        due == {k \in Due : chores[k].of = i}
    IN Cardinality(due) + disposed[i] + (IF cached THEN 1 ELSE 0) = 1

\* When shutdown() has returned nothing is left to be closed but what a resolve
\* that was under way has stored since.
ShutdownIsClean == down /\ MainIdle =>
  scopes = {} /\ open = {} /\ (Entries \union Closers) \ {0} \subseteq late

RegistryInv == TypeOK /\ NoCycle /\ OneSingleton /\ AccountedFor /\ ShutdownIsClean

-----------------------------------------------------------------------------
(* What the proof of RegistryInv needs to know of the state. *)

Lifetime == {"singleton", "scoped", "transient"}
RegistryAssumption ==
  /\ IsFiniteSet(Service) /\ IsFiniteSet(Scope) /\ Root \notin Scope
  /\ Offers \in [Service -> SUBSET [lifetime : Lifetime, deps : Seq(Service)]]
  /\ MaxRegs \in Nat /\ MaxInstances \in Nat

Reg == [id : 1..MaxRegs, lifetime : Lifetime, deps : Seq(Service)]
Frames == [service : Service, scope : AllScopes, reg : Reg \union {NoReg},
           at : {"lookup", "deps", "failed", "store"}, dep : Nat \ {0}, attempt : Nat,
           instance : 0..MaxInstances]
AChore == [do : {"call"}, scope : {Root}, of : Instance]
            \union [do : {"drop"}, scope : AllScopes, of : Service]
            \union [do : {"put"}, scope : {Root}, of : Service]
            \union [do : {"close", "release"}, scope : AllScopes, of : {0}]

Shapes ==
  /\ reg \in [Service -> Reg \union {NoReg}] /\ regs \in 0..MaxRegs /\ given \in [1..MaxRegs -> 0..MaxInstances]
  /\ cache \in [Service -> 0..MaxInstances] /\ callbacks = cache
  /\ held \in [AllScopes -> [Service -> 0..MaxInstances]] /\ closers = held
  /\ scopes \subseteq Scope /\ open \subseteq scopes \union {Root} /\ down \in BOOLEAN
  /\ chores \in Seq(AChore) /\ stack \in [Thread -> Seq(Frames)]
  /\ made \in Seq([service : Service, reg : 1..MaxRegs]) /\ Len(made) <= MaxInstances
  /\ stored \subseteq 1..Len(made) /\ late \subseteq stored /\ dropped \subseteq stored
  /\ handed \subseteq 1..Len(made)
  /\ disposed \in [Instance -> Nat]

\* A number is one registration, and an instance that was given is the only one of its.
Numbers ==
  /\ \A s \in Service : reg[s].id <= regs
  /\ \A s \in Service : reg[s] # NoReg =>
       [lifetime |-> reg[s].lifetime, deps |-> reg[s].deps] \in Offers[s] \/ given[reg[s].id] # 0
  /\ \A s, z \in Service : reg[s].id = reg[z].id /\ reg[s].id # 0 => s = z
  /\ \A i \in 1..Len(made) : made[i].reg <= regs
  /\ \A s \in Service, i \in 1..Len(made) : made[i].reg = reg[s].id => made[i].service = s
  /\ \A r \in 1..MaxRegs : given[r] # 0 =>
       /\ r <= regs /\ given[r] \in 1..Len(made) /\ made[given[r]].reg = r
       /\ \A i \in 1..Len(made) : made[i].reg = r => i = given[r]
       /\ \A s \in Service : reg[s].id = r => Singleton(reg[s]) /\ reg[s].deps = <<>>

\* What a frame has looked up is what is registered under that number, if anything is.
FrameAgrees(f) ==
  /\ (f.at = "lookup") = (f.reg = NoReg)
  /\ f.at # "lookup" =>
       /\ f.reg.id <= regs
       /\ \A s \in Service : reg[s].id = f.reg.id => reg[s] = f.reg /\ s = f.service
       /\ given[f.reg.id] # 0 => /\ Singleton(f.reg) /\ f.reg.deps = <<>> /\ f.at # "failed"
                                 /\ made[given[f.reg.id]].service = f.service
  /\ f.at = "store" =>
       /\ f.instance \in 1..Len(made) /\ made[f.instance] = [service |-> f.service, reg |-> f.reg.id]
       /\ IF given[f.reg.id] # 0 THEN f.instance = given[f.reg.id]
          ELSE f.instance \notin stored \union handed
\* Only the last frame is not about its dependencies, and no service waits for itself.
Chain(q) ==
  /\ \A k \in 1..(Len(q) - 1) : q[k].at = "deps" /\ q[k].dep \in 1..Len(q[k].reg.deps)
  /\ \A j, k \in 1..Len(q) :
       j # k /\ q[j].at # "lookup" /\ q[k].at # "lookup" => q[j].service # q[k].service
Stacks ==
  /\ \A t \in Thread : Chain(stack[t]) /\ \A k \in 1..Len(stack[t]) : FrameAgrees(stack[t][k])
  /\ \A t, u \in Thread :
       At(t, "store") /\ At(u, "store") /\ Top(t).instance = Top(u).instance
         => t = u \/ given[Top(t).reg.id] # 0

\* An instance is in one place, that of its service; a cached one is of the service's
\* registration or late.
CacheAgrees(s) ==
  cache[s] # 0 =>
    /\ cache[s] \in stored /\ made[cache[s]].service = s
    /\ cache[s] \notin late => Singleton(reg[s]) /\ made[cache[s]].reg = reg[s].id
HeldAgrees(c, s) ==
  held[c][s] # 0 =>
    /\ held[c][s] \in stored /\ made[held[c][s]].service = s
    /\ given[made[held[c][s]].reg] = 0 /\ held[c][s] # cache[s]
    /\ c \notin open => held[c][s] \in late
    /\ \A z \in Service : made[held[c][s]].reg = reg[z].id => Scoped(reg[z])
    /\ \A d \in AllScopes : held[d][s] = held[c][s] => d = c
GivenAgrees(s) ==
  reg[s] # NoReg /\ given[reg[s].id] \in stored => cache[s] = given[reg[s].id]
Places ==
  /\ \A s \in Service : CacheAgrees(s) /\ GivenAgrees(s)
  /\ \A c \in AllScopes, s \in Service : HeldAgrees(c, s)
\* What was handed out of a singleton's registration is in the cache.
HandedOut ==
  \A s \in Service, i \in handed :
    Singleton(reg[s]) /\ made[i].reg = reg[s].id => cache[s] = i \/ given[reg[s].id] = i

Listed(q, x) == \E k \in 1..Len(q) : q[k] = x
Once(q, x) == \A j, k \in 1..Len(q) : q[j] = x /\ q[k] = x => j = k
ACall(i) == Chore("call", Root, i)
IsDue(i) == Listed(chores, ACall(i))
IsCached(i) == \/ \E s \in Service : cache[s] = i
             \/ \E c \in AllScopes, s \in Service : held[c][s] = i
Live == stored \ (late \union dropped)
\* Cached, about to be disposed of or disposed of
Fate(i) ==
  /\ IsCached(i) => ~IsDue(i)
  /\ IsCached(i) \/ IsDue(i) => disposed[i] = 0
  /\ IsCached(i) \/ IsDue(i) \/ disposed[i] = 1
  /\ Once(chores, ACall(i))
Fates ==
  /\ \A i \in Instance : i \notin stored => disposed[i] = 0 /\ ~IsDue(i)
  /\ \A i \in Live : Fate(i)

Ending ==
  /\ \A c \in scopes : c \in open \/ Listed(chores, Chore("release", c, 0))
  /\ \A c \in open : ~Listed(chores, Chore("release", c, 0))
  /\ down => /\ \A s \in Service : reg[s] = NoReg /\ (cache[s] # 0 => cache[s] \in late)
             /\ \A c \in open : Listed(chores, Chore("close", c, 0))
  /\ \A s \in Service : Listed(chores, Chore("put", Root, s)) => ~down /\ reg[s] # NoReg /\ given[reg[s].id] # 0

RegistryBooks ==
  Shapes /\ Numbers /\ Stacks /\ Places /\ HandedOut /\ Fates /\ Ending

-----------------------------------------------------------------------------
(* Lists of chores *)

\* A finite set in a sequence has each of its members in one place.
LEMMA SetInSeq ==
  ASSUME NEW S, IsFiniteSet(S)
  PROVE  /\ Cardinality(S) \in Nat /\ SetToSeq(S) \in [1..Cardinality(S) -> S]
         /\ \A j, k \in 1..Cardinality(S) : SetToSeq(S)[j] = SetToSeq(S)[k] => j = k
         /\ \A x \in S : \E k \in 1..Cardinality(S) : SetToSeq(S)[k] = x
<1> DEFINE n == Cardinality(S)
<1>1. n \in Nat /\ ExistsBijection(1..n, S)
  BY FS_CardinalityType
<1>2. \E f \in [1..n -> S] : IsInjective(f)
  BY <1>1 DEF ExistsBijection, Bijection, Injection
<1>3. SetToSeq(S) \in [1..n -> S] /\ IsInjective(SetToSeq(S))
  BY <1>2 DEF SetToSeq
<1>4. SetToSeq(S) \in Injection(1..n, S)
  BY <1>3 DEF Injection
<1>5. Cardinality(1..n) = n
  BY <1>1, FS_Interval
<1>6. SetToSeq(S) \in Surjection(1..n, S)
  BY <1>4, <1>5, FS_Injection
<1> QED
  BY <1>1, <1>3, <1>6 DEF IsInjective, Surjection

LEMMA CallsAreChores ==
  ASSUME NEW q \in Seq(Instance)
  PROVE  /\ Calls(q) \in Seq(AChore) /\ Len(Calls(q)) = Len(q)
         /\ \A k \in 1..Len(q) : Calls(q)[k] = [do |-> "call", scope |-> Root, of |-> q[k]]
<1>1. Len(q) \in Nat /\ DOMAIN q = 1..Len(q) /\ \A k \in 1..Len(q) : q[k] \in Instance
  BY LenProperties, ElementOfSeq
<1>2. \A k \in 1..Len(q) : [do |-> "call", scope |-> Root, of |-> q[k]] \in AChore
  BY <1>1 DEF AChore, AllScopes
<1>3. Calls(q) = [k \in 1..Len(q) |-> [do |-> "call", scope |-> Root, of |-> q[k]]]
  BY <1>1 DEF Calls, Chore
<1> QED
  BY <1>1, <1>2, <1>3

LEMMA ListedInJoin ==
  ASSUME NEW p \in Seq(AChore), NEW q \in Seq(AChore)
  PROVE  /\ p \o q \in Seq(AChore)
         /\ \A x : Listed(p \o q, x) <=> Listed(p, x) \/ Listed(q, x)
         /\ \A x : Once(p, x) /\ Once(q, x) /\ ~(Listed(p, x) /\ Listed(q, x)) => Once(p \o q, x)
<1>1. /\ p \o q \in Seq(AChore) /\ Len(p \o q) = Len(p) + Len(q)
      /\ \A k \in 1..(Len(p) + Len(q)) : (p \o q)[k] = IF k <= Len(p) THEN p[k] ELSE q[k - Len(p)]
      /\ Len(p) \in Nat /\ Len(q) \in Nat
  BY ConcatProperties, LenProperties
<1>2. ASSUME NEW x PROVE Listed(p \o q, x) <=> Listed(p, x) \/ Listed(q, x)
  <2>1. ASSUME Listed(p, x) PROVE Listed(p \o q, x)
    BY <1>1, <2>1 DEF Listed
  <2>2. ASSUME Listed(q, x) PROVE Listed(p \o q, x)
    <3>1. PICK k \in 1..Len(q) : q[k] = x
      BY <2>2 DEF Listed
    <3>2. k + Len(p) \in 1..(Len(p) + Len(q)) /\ (p \o q)[k + Len(p)] = q[k]
      BY <1>1
    <3> QED
      BY <1>1, <3>1, <3>2 DEF Listed
  <2>3. ASSUME Listed(p \o q, x) PROVE Listed(p, x) \/ Listed(q, x)
    <3>1. PICK k \in 1..(Len(p) + Len(q)) : (p \o q)[k] = x
      BY <1>1, <2>3 DEF Listed
    <3>2. CASE k <= Len(p)
      BY <1>1, <3>1, <3>2 DEF Listed
    <3>3. CASE ~(k <= Len(p))
      BY <1>1, <3>1, <3>3 DEF Listed
    <3> QED
      BY <3>2, <3>3
  <2> QED
    BY <2>1, <2>2, <2>3
<1>3. ASSUME NEW x, Once(p, x), Once(q, x), ~(Listed(p, x) /\ Listed(q, x))
      PROVE  Once(p \o q, x)
  <2> SUFFICES ASSUME NEW j \in 1..(Len(p) + Len(q)), NEW k \in 1..(Len(p) + Len(q)),
                      (p \o q)[j] = x,
                      (p \o q)[k] = x
               PROVE  j = k
    BY <1>1 DEF Once
  <2>1. CASE j <= Len(p) /\ k <= Len(p)
    BY <1>1, <1>3, <2>1 DEF Once
  <2>2. CASE j > Len(p) /\ k > Len(p)
    <3>1. j - Len(p) \in 1..Len(q) /\ k - Len(p) \in 1..Len(q)
      BY <1>1, <2>2
    <3>2. (p \o q)[j] = q[j - Len(p)] /\ (p \o q)[k] = q[k - Len(p)]
      BY <1>1, <2>2
    <3>3. j - Len(p) = k - Len(p)
      BY <1>3, <3>1, <3>2 DEF Once
    <3> QED
      BY <1>1, <3>3
  <2>3. CASE (j <= Len(p)) # (k <= Len(p))
    <3>1. Listed(p, x) /\ Listed(q, x)
      BY <1>1, <2>3 DEF Listed
    <3> QED
      BY <1>3, <3>1
  <2> QED
    BY <1>1, <2>1, <2>2, <2>3
<1> QED
  BY <1>1, <1>2, <1>3

LEMMA ListedInTail ==
  ASSUME NEW q \in Seq(AChore), q # <<>>
  PROVE  /\ Head(q) \in AChore /\ Tail(q) \in Seq(AChore)
         /\ \A x : Listed(q, x) <=> Listed(Tail(q), x) \/ Head(q) = x
         /\ \A x : Once(q, x) => Once(Tail(q), x)
         /\ \A x : Once(q, x) /\ Head(q) = x => ~Listed(Tail(q), x)
<1>1. /\ Head(q) \in AChore /\ Tail(q) \in Seq(AChore) /\ Len(Tail(q)) = Len(q) - 1
      /\ \A k \in 1..Len(Tail(q)) : Tail(q)[k] = q[k + 1]
      /\ Len(q) \in Nat \ {0} /\ Head(q) = q[1]
  BY HeadTailProperties, EmptySeq
<1>2. ASSUME NEW x PROVE Listed(q, x) <=> Listed(Tail(q), x) \/ Head(q) = x
  <2>1. ASSUME Listed(q, x) PROVE Listed(Tail(q), x) \/ Head(q) = x
    <3>1. PICK k \in 1..Len(q) : q[k] = x
      BY <2>1 DEF Listed
    <3>2. CASE k = 1
      BY <1>1, <3>1, <3>2
    <3>3. CASE k # 1
      <4>1. k - 1 \in 1..Len(Tail(q)) /\ Tail(q)[k - 1] = q[k]
        BY <1>1, <3>3
      <4> QED
        BY <3>1, <4>1 DEF Listed
    <3> QED
      BY <3>2, <3>3
  <2>2. ASSUME Listed(Tail(q), x) PROVE Listed(q, x)
    BY <1>1, <2>2 DEF Listed
  <2>3. ASSUME Head(q) = x PROVE Listed(q, x)
    BY <1>1, <2>3 DEF Listed
  <2> QED
    BY <2>1, <2>2, <2>3
<1>3. ASSUME NEW x, Once(q, x) PROVE Once(Tail(q), x)
  <2> SUFFICES ASSUME NEW j \in 1..Len(Tail(q)), NEW k \in 1..Len(Tail(q)),
                      Tail(q)[j] = x, Tail(q)[k] = x
               PROVE  j = k
    BY DEF Once
  <2>1. j + 1 \in 1..Len(q) /\ k + 1 \in 1..Len(q) /\ q[j + 1] = Tail(q)[j] /\ q[k + 1] = Tail(q)[k]
    BY <1>1
  <2>2. j + 1 = k + 1
    BY <1>3, <2>1 DEF Once
  <2> QED
    BY <1>1, <2>2
<1>4. ASSUME NEW x, Once(q, x), Head(q) = x, Listed(Tail(q), x) PROVE FALSE
  <2>1. PICK k \in 1..Len(Tail(q)) : Tail(q)[k] = x
    BY <1>4 DEF Listed
  <2>2. k + 1 \in 1..Len(q) /\ 1 \in 1..Len(q) /\ q[k + 1] = Tail(q)[k] /\ k + 1 # 1
    BY <1>1
  <2> QED
    BY <1>1, <1>4, <2>1, <2>2 DEF Once
<1> QED
  BY <1>1, <1>2, <1>3, <1>4

LEMMA NoneListed == \A x : ~Listed(<<>>, x) /\ Once(<<>>, x)
  BY DEF Listed, Once

LEMMA OneListed ==
  ASSUME NEW x \in AChore
  PROVE  <<x>> \in Seq(AChore) /\ \A y : (Listed(<<x>>, y) <=> x = y) /\ Once(<<x>>, y)
  BY DEF Listed, Once

LEMMA ScopesListed ==
  ASSUME RegistryAssumption, scopes \subseteq Scope, NEW do, NEW n,
         \A c \in AllScopes : Chore(do, c, n) \in AChore
  PROVE  /\ ForScopes(do, n) \in Seq(AChore)
         /\ \A x : Listed(ForScopes(do, n), x) <=> \E c \in scopes : x = Chore(do, c, n)
<1>1. IsFiniteSet(scopes)
  BY FS_Subset DEF RegistryAssumption
<1>2. /\ Cardinality(scopes) \in Nat /\ SetToSeq(scopes) \in [1..Cardinality(scopes) -> scopes]
      /\ \A x \in scopes : \E k \in 1..Cardinality(scopes) : SetToSeq(scopes)[k] = x
  BY <1>1, SetInSeq
<1>3. \A k \in 1..Cardinality(scopes) :
        SetToSeq(scopes)[k] \in AllScopes /\ Chore(do, SetToSeq(scopes)[k], n) \in AChore
  BY <1>2 DEF AllScopes
<1>4. /\ ForScopes(do, n) \in Seq(AChore) /\ Len(ForScopes(do, n)) = Cardinality(scopes)
      /\ \A k \in 1..Cardinality(scopes) : ForScopes(do, n)[k] = Chore(do, SetToSeq(scopes)[k], n)
  BY <1>2, <1>3 DEF ForScopes
<1> QED
  BY <1>2, <1>4 DEF Listed

LEMMA CallOfListed ==
  ASSUME NEW i \in 0..MaxInstances
  PROVE  /\ CallOf(i) \in Seq(AChore)
         /\ \A x : (Listed(CallOf(i), x) <=> i # 0 /\ x = ACall(i)) /\ Once(CallOf(i), x)
<1>1. CASE i = 0
  BY <1>1, NoneListed DEF CallOf
<1>2. CASE i # 0
  <2> DEFINE q == <<i>>
  <2>1. q \in Seq(Instance) /\ Len(q) = 1 /\ q[1] = i
    BY <1>2 DEF Instance
  <2>2. CallOf(i) = Calls(q) /\ ACall(i) = [do |-> "call", scope |-> Root, of |-> i]
    BY <1>2 DEF CallOf, ACall, Chore
  <2> HIDE DEF q
  <2>3. /\ Calls(q) \in Seq(AChore) /\ Len(Calls(q)) = 1
        /\ Calls(q)[1] = [do |-> "call", scope |-> Root, of |-> i]
    BY <2>1, CallsAreChores
  <2> QED
    BY <1>2, <2>2, <2>3 DEF Listed, Once
<1> QED
  BY <1>1, <1>2

LEMMA CallsOfListed ==
  ASSUME RegistryAssumption, NEW table \in [Service -> 0..MaxInstances]
  PROVE  /\ CallsOf(table) \in Seq(AChore)
         /\ \A x : Once(CallsOf(table), x)
         /\ \A x : Listed(CallsOf(table), x) <=> \E s \in Service : table[s] # 0 /\ x = ACall(table[s])
<1> DEFINE S == {table[s] : s \in Service} \ {0}
           n == Cardinality(S)
           q == SetToSeq(S)
<1>1. IsFiniteSet(S)
  <2>1. S \subseteq 1..MaxInstances /\ IsFiniteSet(1..MaxInstances)
    BY FS_Interval DEF RegistryAssumption
  <2> QED
    BY <2>1, FS_Subset
<1>2. /\ n \in Nat /\ q \in [1..n -> S]
      /\ \A j, k \in 1..n : q[j] = q[k] => j = k
      /\ \A i \in S : \E k \in 1..n : q[k] = i
  BY <1>1, SetInSeq
<1>3. S \subseteq Instance
  BY DEF Instance
<1>4. q \in Seq(Instance) /\ Len(q) = n
  BY <1>2, <1>3
<1>5. CallsOf(table) = Calls(q)
  BY DEF CallsOf
<1> HIDE DEF S, n, q
<1>6. /\ CallsOf(table) \in Seq(AChore) /\ Len(CallsOf(table)) = n
      /\ \A k \in 1..n : CallsOf(table)[k] = ACall(q[k])
  BY <1>4, <1>5, CallsAreChores DEF ACall, Chore
<1>7. \A i, j : ACall(i) = ACall(j) => i = j
  BY DEF ACall, Chore
<1>8. \A x : Once(CallsOf(table), x)
  BY <1>2, <1>6, <1>7 DEF Once
<1>9. \A x : Listed(CallsOf(table), x) <=> \E i \in S : x = ACall(i)
  BY <1>2, <1>6 DEF Listed
<1> QED
  BY <1>6, <1>8, <1>9 DEF S

-----------------------------------------------------------------------------
(* Stacks of frames *)

\* What is left without the last frame, and with another in its place
LEMMA FrontLast ==
  ASSUME NEW S, NEW q \in Seq(S), q # <<>>
  PROVE  /\ Len(q) \in Nat \ {0} /\ Last(q) = q[Len(q)] /\ Last(q) \in S
         /\ Front(q) \in Seq(S) /\ Len(Front(q)) = Len(q) - 1
         /\ \A k \in 1..(Len(q) - 1) : Front(q)[k] = q[k]
         /\ Front(q) = <<>> <=> Len(q) = 1
<1>1. Len(q) \in Nat \ {0} /\ \A k \in 1..Len(q) : q[k] \in S
  BY EmptySeq, ElementOfSeq
<1>2. /\ SubSeq(q, 1, Len(q) - 1) \in Seq(S) /\ Len(SubSeq(q, 1, Len(q) - 1)) = Len(q) - 1
      /\ \A k \in 1..(Len(q) - 1) : SubSeq(q, 1, Len(q) - 1)[k] = q[k]
  BY <1>1
<1>3. Front(q) = <<>> <=> Len(q) = 1
  <2> DEFINE p == SubSeq(q, 1, Len(q) - 1)
  <2>1. p \in Seq(S) /\ Len(p) = Len(q) - 1 /\ Front(q) = p
    BY <1>2 DEF Front
  <2> HIDE DEF p
  <2>2. p = <<>> <=> Len(p) = 0
    BY <2>1, EmptySeq
  <2> QED
    BY <1>1, <2>1, <2>2
<1> QED
  BY <1>1, <1>2, <1>3 DEF Front, Last

LEMMA Replaced ==
  ASSUME NEW S, NEW q \in Seq(S), q # <<>>, NEW f \in S
  PROVE  /\ Append(Front(q), f) \in Seq(S) /\ Len(Append(Front(q), f)) = Len(q)
         /\ \A k \in 1..Len(q) : Append(Front(q), f)[k] = IF k = Len(q) THEN f ELSE q[k]
         /\ Append(Front(q), f) # <<>> /\ Last(Append(Front(q), f)) = f
<1>1. /\ Len(q) \in Nat \ {0} /\ Front(q) \in Seq(S) /\ Len(Front(q)) = Len(q) - 1
      /\ \A k \in 1..(Len(q) - 1) : Front(q)[k] = q[k]
  BY FrontLast
<1>2. /\ Append(Front(q), f) \in Seq(S) /\ Len(Append(Front(q), f)) = Len(q)
      /\ \A k \in 1..Len(q) : Append(Front(q), f)[k] = IF k = Len(q) THEN f ELSE q[k]
  BY <1>1, AppendProperties
<1> DEFINE p == Append(Front(q), f)
<1> HIDE DEF p
<1>3. p \in Seq(S) /\ Len(p) \in Nat \ {0} /\ p[Len(p)] = f
  BY <1>1, <1>2 DEF p
<1>4. p # <<>> /\ Last(p) = f
  BY <1>3, EmptySeq DEF Last
<1> QED
  BY <1>2, <1>4 DEF p

LEMMA ChainMoved ==
  ASSUME NEW q \in Seq(Frames), q # <<>>, Chain(q), NEW f \in Frames, f.service = Last(q).service,
         Last(q).at = "lookup" /\ f.at # "lookup" =>
           \A k \in 1..(Len(q) - 1) : q[k].service # f.service
  PROVE  Chain(Append(Front(q), f))
<1> DEFINE p == Append(Front(q), f)
<1>1. /\ Len(q) \in Nat \ {0} /\ Last(q) = q[Len(q)] /\ Len(p) = Len(q)
      /\ \A k \in 1..Len(q) : p[k] = IF k = Len(q) THEN f ELSE q[k]
  BY FrontLast, Replaced
<1> HIDE DEF p
<1>2. \A k \in 1..(Len(p) - 1) : p[k].at = "deps" /\ p[k].dep \in 1..Len(p[k].reg.deps)
  BY <1>1 DEF Chain
<1>3. ASSUME NEW j \in 1..Len(p), NEW k \in 1..Len(p), j # k, p[j].at # "lookup", p[k].at # "lookup"
      PROVE  p[j].service # p[k].service
  <2>1. CASE j # Len(q) /\ k # Len(q)
    BY <1>1, <1>3, <2>1 DEF Chain
  <2>2. CASE j = Len(q)
    <3>1. p[j] = f /\ p[k] = q[k] /\ k \in 1..(Len(q) - 1)
      BY <1>1, <1>3, <2>2
    <3> QED
      BY <1>1, <1>3, <2>2, <3>1 DEF Chain
  <2>3. CASE k = Len(q)
    <3>1. p[k] = f /\ p[j] = q[j] /\ j \in 1..(Len(q) - 1)
      BY <1>1, <1>3, <2>3
    <3> QED
      BY <1>1, <1>3, <2>3, <3>1 DEF Chain
  <2> QED
    BY <2>1, <2>2, <2>3
<1>4. Chain(p)
  BY <1>2, <1>3 DEF Chain
<1> QED
  BY <1>4 DEF p

LEMMA ChainLeft ==
  ASSUME NEW q \in Seq(Frames), q # <<>>, Chain(q)
  PROVE  Chain(Front(q))
<1>1. /\ Len(q) \in Nat \ {0} /\ Len(Front(q)) = Len(q) - 1
      /\ \A k \in 1..(Len(q) - 1) : Front(q)[k] = q[k]
  BY FrontLast
<1> QED
  BY <1>1 DEF Chain

LEMMA ChainDescended ==
  ASSUME NEW q \in Seq(Frames), q # <<>>, Chain(q), NEW f \in Frames, f.at = "lookup",
         Last(q).at = "deps", Last(q).dep \in 1..Len(Last(q).reg.deps)
  PROVE  Chain(Append(q, f))
<1> DEFINE p == Append(q, f)
<1>1. Len(q) \in Nat \ {0} /\ Last(q) = q[Len(q)]
  BY FrontLast
<1>2. /\ Len(p) = Len(q) + 1
      /\ \A k \in 1..(Len(q) + 1) : p[k] = IF k <= Len(q) THEN q[k] ELSE f
  BY <1>1, AppendProperties
<1> HIDE DEF p
<1>3. \A k \in 1..(Len(p) - 1) : p[k].at = "deps" /\ p[k].dep \in 1..Len(p[k].reg.deps)
  <2> SUFFICES ASSUME NEW k \in 1..(Len(p) - 1)
               PROVE  p[k].at = "deps" /\ p[k].dep \in 1..Len(p[k].reg.deps)
    OBVIOUS
  <2>1. k \in 1..Len(q) /\ p[k] = q[k]
    BY <1>1, <1>2
  <2>2. CASE k = Len(q)
    BY <1>1, <2>1, <2>2
  <2>3. CASE k # Len(q)
    BY <1>1, <2>1, <2>3 DEF Chain
  <2> QED
    BY <2>2, <2>3
<1>4. ASSUME NEW j \in 1..Len(p), NEW k \in 1..Len(p), j # k, p[j].at # "lookup", p[k].at # "lookup"
      PROVE  p[j].service # p[k].service
  <2>1. j \in 1..Len(q) /\ k \in 1..Len(q) /\ p[j] = q[j] /\ p[k] = q[k]
    BY <1>1, <1>2, <1>4
  <2> QED
    BY <1>4, <2>1 DEF Chain
<1>5. Chain(p)
  BY <1>3, <1>4 DEF Chain
<1> QED
  BY <1>5 DEF p

\* Registrations go or are new, instances are made beside those there are.
Grows ==
  /\ regs' \in Nat /\ regs <= regs'
  /\ \A s \in Service : reg'[s] \in {reg[s], NoReg} \/ reg'[s].id > regs
  /\ \A r \in 1..regs : given'[r] = given[r]
  /\ \A i \in 1..Len(made) : i \in 1..Len(made') /\ made'[i] = made[i]

LEMMA GrowsWhenSame ==
  ASSUME Shapes, UNCHANGED <<reg, regs, given, made>>
  PROVE  Grows
  BY DEF Grows, Shapes

LEMMA FrameTypes ==
  ASSUME NEW f \in Frames
  PROVE  /\ f.service \in Service /\ f.scope \in AllScopes /\ f.reg \in Reg \union {NoReg}
         /\ f.at \in {"lookup", "deps", "failed", "store"}
         /\ f.dep \in Nat \ {0} /\ f.attempt \in Nat /\ f.instance \in 0..MaxInstances
  BY DEF Frames

LEMMA RegTypes ==
  /\ NoReg.id = 0 /\ NoReg.deps = <<>> /\ ~Singleton(NoReg) /\ ~Scoped(NoReg)
  /\ \A x \in Reg : x.id \in 1..MaxRegs /\ x.lifetime \in Lifetime /\ x.deps \in Seq(Service) /\ x # NoReg
<1>1. NoReg.id = 0 /\ NoReg.deps = <<>> /\ NoReg.lifetime = "none"
  BY DEF NoReg
<1>2. ASSUME NEW x \in Reg
      PROVE  x.id \in 1..MaxRegs /\ x.lifetime \in Lifetime /\ x.deps \in Seq(Service)
  BY DEF Reg
<1> QED
  BY <1>1, <1>2 DEF Singleton, Scoped

LEMMA FrameStays ==
  ASSUME Shapes, Numbers, Grows, NEW f \in Frames, FrameAgrees(f),
         f.at = "store" /\ given[f.reg.id] = 0 => f.instance \notin stored' \union handed'
  PROVE  FrameAgrees(f)'
<1>1. (f.at = "lookup") = (f.reg = NoReg)
  BY DEF FrameAgrees
<1>2. CASE f.at = "lookup"
  BY <1>1, <1>2 DEF FrameAgrees
<1>3. CASE f.at # "lookup"
  <2>1. /\ f.reg \in Reg /\ f.reg.id \in 1..MaxRegs /\ f.reg.id \in 1..regs /\ regs \in Nat
        /\ \A s \in Service : reg[s].id = f.reg.id => reg[s] = f.reg /\ s = f.service
        /\ given[f.reg.id] # 0 => /\ Singleton(f.reg) /\ f.reg.deps = <<>> /\ f.at # "failed"
                                  /\ made[given[f.reg.id]].service = f.service
    BY <1>1, <1>3, FrameTypes, RegTypes DEF FrameAgrees, Shapes
  <2>2. given'[f.reg.id] = given[f.reg.id] /\ regs' \in Nat /\ f.reg.id <= regs'
    BY <2>1 DEF Grows
  <2>3. ASSUME NEW s \in Service, reg'[s].id = f.reg.id PROVE reg'[s] = f.reg /\ s = f.service
    <3>1. reg'[s] = reg[s]
      BY <2>1, <2>3, RegTypes DEF Grows
    <3> QED
      BY <2>1, <2>3, <3>1
  <2>4. given'[f.reg.id] # 0 => /\ Singleton(f.reg) /\ f.reg.deps = <<>> /\ f.at # "failed"
                                /\ made'[given'[f.reg.id]].service = f.service
    <3> HAVE given'[f.reg.id] # 0
    <3>1. given[f.reg.id] \in 1..Len(made)
      BY <2>1, <2>2 DEF Numbers
    <3>2. made'[given[f.reg.id]] = made[given[f.reg.id]]
      BY <3>1 DEF Grows
    <3> QED
      BY <2>1, <2>2, <3>2
  <2>5. ASSUME f.at = "store"
        PROVE  /\ f.instance \in 1..Len(made)' /\ made'[f.instance] = [service |-> f.service, reg |-> f.reg.id]
               /\ IF given'[f.reg.id] # 0 THEN f.instance = given'[f.reg.id]
                  ELSE f.instance \notin stored' \union handed'
    <3>1. /\ f.instance \in 1..Len(made) /\ made[f.instance] = [service |-> f.service, reg |-> f.reg.id]
          /\ given[f.reg.id] # 0 => f.instance = given[f.reg.id]
      BY <2>5 DEF FrameAgrees
    <3>2. f.instance \in 1..Len(made') /\ made'[f.instance] = made[f.instance]
      BY <3>1 DEF Grows
    <3> QED
      BY <2>2, <2>5, <3>1, <3>2
  <2> QED
    BY <1>1, <1>3, <2>2, <2>3, <2>4, <2>5 DEF FrameAgrees
<1> QED
  BY <1>2, <1>3

\* Only the last frame has an instance.
LEMMA StoreIsLast ==
  ASSUME Shapes, Stacks, NEW t \in Thread, NEW k \in 1..Len(stack[t]), stack[t][k].at = "store"
  PROVE  At(t, "store") /\ Top(t) = stack[t][k] /\ k = Len(stack[t])
<1>1. stack[t] \in Seq(Frames) /\ Len(stack[t]) \in Nat /\ Chain(stack[t])
  BY LenProperties DEF Shapes, Stacks
<1>2. k = Len(stack[t])
  <2>1. CASE k \in 1..(Len(stack[t]) - 1)
    BY <1>1, <2>1 DEF Chain
  <2> QED
    BY <1>1, <2>1
<1>3. stack[t] # <<>>
  BY <1>1, EmptySeq
<1> QED
  BY <1>1, <1>2, <1>3, FrontLast DEF At, Top

LEMMA LastIs ==
  ASSUME NEW q \in Seq(Frames), q # <<>>
  PROVE  Last(q) = q[Len(q)] /\ Last(q) \in Frames /\ Len(q) \in 1..Len(q)
  BY FrontLast

\* What a thread's frame on top knows.
LEMMA OnTop ==
  ASSUME Shapes, Stacks, NEW t \in Thread, stack[t] # <<>>
  PROVE  /\ stack[t] \in Seq(Frames) /\ Top(t) \in Frames /\ FrameAgrees(Top(t)) /\ Chain(stack[t])
         /\ Top(t).at # "lookup" => /\ Top(t).reg \in Reg /\ Top(t).reg.id \in 1..regs
                                    /\ Top(t).reg.id \in 1..MaxRegs
<1>1. stack[t] \in Seq(Frames)
  BY DEF Shapes
<1>2. Top(t) \in Frames /\ FrameAgrees(Top(t)) /\ Chain(stack[t])
  <2>1. PICK q : q = stack[t]
    OBVIOUS
  <2>2. q \in Seq(Frames) /\ q # <<>> /\ Chain(q) /\ \A k \in 1..Len(q) : FrameAgrees(q[k])
    BY <1>1, <2>1 DEF Stacks
  <2>3. Last(q) = q[Len(q)] /\ Last(q) \in Frames /\ Len(q) \in 1..Len(q)
    BY <2>2, LastIs
  <2> QED
    BY <2>1, <2>2, <2>3 DEF Top
<1>3. Top(t).at # "lookup" =>
        Top(t).reg \in Reg /\ Top(t).reg.id \in 1..regs /\ Top(t).reg.id \in 1..MaxRegs
  BY <1>2, FrameTypes, RegTypes DEF FrameAgrees, Shapes
<1> QED
  BY <1>1, <1>2, <1>3

LEMMA StacksStep ==
  ASSUME Shapes, Numbers, Stacks, Grows, NEW t \in Thread, NEW q \in Seq(Frames),
         stack' = [stack EXCEPT ![t] = q], Chain(q), \A k \in 1..Len(q) : FrameAgrees(q[k])',
         \A u \in Thread \ {t} : At(u, "store") /\ given[Top(u).reg.id] = 0 =>
           /\ Top(u).instance \notin stored' \union handed'
           /\ q # <<>> /\ Last(q).at = "store" => Top(u).instance # Last(q).instance
  PROVE  Stacks'
<1>1. /\ stack \in [Thread -> Seq(Frames)] /\ stack'[t] = q
      /\ \A u \in Thread \ {t} : stack'[u] = stack[u]
  BY DEF Shapes
<1>2. ASSUME NEW u \in Thread
      PROVE  Chain(stack'[u])
  BY <1>1 DEF Stacks
<1>3. ASSUME NEW u \in Thread, NEW k \in 1..Len(stack'[u]), NEW f, f = stack'[u][k]
      PROVE  FrameAgrees(f)'
  <2>1. CASE u = t
    <3>1. f = q[k] /\ k \in 1..Len(q)
      BY <1>1, <1>3, <2>1
    <3> QED
      BY <3>1
  <2>2. CASE u # t
    <3>1. k \in 1..Len(stack[u]) /\ f = stack[u][k] /\ stack[u] \in Seq(Frames)
      BY <1>1, <1>3, <2>2
    <3>2. f \in Frames /\ FrameAgrees(f)
      BY <3>1, ElementOfSeq DEF Stacks
    <3>3. f.at = "store" => At(u, "store") /\ Top(u) = f
      BY <3>1, StoreIsLast
    <3>4. f.at = "store" /\ given[f.reg.id] = 0 => f.instance \notin stored' \union handed'
      BY <2>2, <3>3
    <3> QED
      BY <3>2, <3>4, FrameStays
  <2> QED
    BY <2>1, <2>2
<1>4. (\A u \in Thread : \A k \in 1..Len(stack[u]) : FrameAgrees(stack[u][k]))'
  BY <1>3 DEF FrameAgrees
<1>5. ASSUME NEW u \in Thread \ {t}, At(u, "store")' PROVE At(u, "store") /\ Top(u)' = Top(u)
  BY <1>1, <1>5 DEF At, Top
<1>6. At(t, "store")' => q # <<>> /\ Last(q).at = "store" /\ Top(t)' = Last(q)
  BY <1>1 DEF At, Top
<1>7. (\A u, v \in Thread :
         At(u, "store") /\ At(v, "store") /\ Top(u).instance = Top(v).instance
           => u = v \/ given[Top(u).reg.id] # 0)'
  <2> SUFFICES ASSUME NEW u \in Thread, NEW v \in Thread, At(u, "store")', At(v, "store")',
                      Top(u)'.instance = Top(v)'.instance, u # v, given'[Top(u)'.reg.id] = 0
               PROVE  FALSE
    OBVIOUS
  <2>1. ASSUME NEW w \in Thread, At(w, "store")'
        PROVE  made'[Top(w)'.instance].reg = Top(w)'.reg.id
    <3>1. stack'[w] \in Seq(Frames) /\ stack'[w] # <<>> /\ Top(w)' = Last(stack'[w]) /\ Top(w)'.at = "store"
      BY <1>1, <2>1 DEF At, Top
    <3>2. Len(stack'[w]) \in 1..Len(stack'[w]) /\ Top(w)' = stack'[w][Len(stack'[w])]
      <4>1. PICK p : p = stack'[w]
        OBVIOUS
      <4>2. p \in Seq(Frames) /\ p # <<>> /\ Top(w)' = Last(p)
        BY <3>1, <4>1
      <4> QED
        BY <4>1, <4>2, LastIs
    <3>3. PICK f : f = Top(w)'
      OBVIOUS
    <3>4. FrameAgrees(f)' /\ f.at = "store"
      BY <1>3, <3>1, <3>2, <3>3
    <3>5. made'[f.instance] = [service |-> f.service, reg |-> f.reg.id]
      BY <3>4 DEF FrameAgrees
    <3>6. made'[f.instance].reg = f.reg.id
      BY <3>5
    <3> QED
      BY <3>3, <3>6
  <2>2. Top(u)'.reg.id = Top(v)'.reg.id
    <3>1. made'[Top(u)'.instance].reg = Top(u)'.reg.id /\ made'[Top(v)'.instance].reg = Top(v)'.reg.id
      BY <2>1
    <3> QED
      BY <3>1
  <2>3. ASSUME NEW w \in Thread \ {t}, At(w, "store")'
        PROVE  /\ At(w, "store") /\ Top(w)' = Top(w) /\ given'[Top(w).reg.id] = given[Top(w).reg.id]
    <3>1. At(w, "store") /\ Top(w)' = Top(w)
      BY <1>5, <2>3
    <3>4. Top(w).reg.id \in 1..regs
      BY <3>1, OnTop DEF At
    <3> QED
      BY <3>1, <3>4 DEF Grows
  <2>4. CASE u # t /\ v # t
    BY <2>2, <2>3, <2>4 DEF Stacks
  <2>5. CASE u = t
    <3>1. given[Top(v).reg.id] = 0 /\ At(v, "store") /\ Top(v)' = Top(v)
      BY <2>2, <2>3, <2>5
    <3>2. q # <<>> /\ Last(q).at = "store" /\ Top(u)' = Last(q)
      BY <1>6, <2>5
    <3> QED
      BY <2>5, <3>1, <3>2
  <2>6. CASE v = t
    <3>1. given[Top(u).reg.id] = 0 /\ At(u, "store") /\ Top(u)' = Top(u)
      BY <2>3, <2>6
    <3>2. q # <<>> /\ Last(q).at = "store" /\ Top(v)' = Last(q)
      BY <1>6, <2>6
    <3> QED
      BY <2>6, <3>1, <3>2
  <2> QED
    BY <2>4, <2>5, <2>6
<1> QED
  BY <1>2, <1>4, <1>7 DEF Stacks

\* The main thread leaves the stacks alone.
LEMMA StacksStay ==
  ASSUME Shapes, Numbers, Stacks, Grows, UNCHANGED stack,
         \A u \in Thread : At(u, "store") /\ given[Top(u).reg.id] = 0 =>
           Top(u).instance \notin stored' \union handed'
  PROVE  Stacks'
<1>1. CASE Thread = {}
  BY <1>1 DEF Stacks
<1>2. CASE Thread # {}
  <2>1. PICK t \in Thread : TRUE
    BY <1>2
  <2>2. stack \in [Thread -> Seq(Frames)]
    BY DEF Shapes
  <2>3. PICK q : q = stack[t]
    OBVIOUS
  <2>4. q \in Seq(Frames) /\ stack' = [stack EXCEPT ![t] = q] /\ Chain(q)
    BY <2>2, <2>3 DEF Stacks
  <2>5. ASSUME NEW k \in 1..Len(q) PROVE FrameAgrees(q[k])'
    <3>1. PICK f : f = q[k]
      OBVIOUS
    <3>2. f \in Frames /\ FrameAgrees(f)
      BY <2>3, <2>4, <3>1, ElementOfSeq DEF Stacks
    <3>3. f.at = "store" => At(t, "store") /\ Top(t) = f
      BY <2>3, <3>1, StoreIsLast
    <3>4. FrameAgrees(f)'
      BY <3>2, <3>3, FrameStays
    <3> QED
      BY <3>1, <3>4
  <2>6. ASSUME NEW u \in Thread \ {t}, At(u, "store"), given[Top(u).reg.id] = 0
        PROVE  /\ Top(u).instance \notin stored' \union handed'
               /\ q # <<>> /\ Last(q).at = "store" => Top(u).instance # Last(q).instance
    <3>1. q # <<>> /\ Last(q).at = "store" => At(t, "store") /\ Top(t) = Last(q)
      BY <2>3 DEF At, Top
    <3> QED
      BY <2>6, <3>1 DEF Stacks
  <2> QED
    BY <2>4, <2>5, <2>6, StacksStep
<1> QED
  BY <1>1, <1>2

\* A frame that is done or has failed leaves the one below it, which goes on.
LEMMA Popped ==
  ASSUME Shapes, Numbers, Stacks, NEW t \in Thread, stack[t] # <<>>, Done(t) \/ Raise(t)
  PROVE  \E q \in Seq(Frames) :
           /\ stack' = [stack EXCEPT ![t] = q] /\ Chain(q)
           /\ \A k \in 1..Len(q) : FrameAgrees(q[k]) /\ q[k].at # "store"
<1>1. PICK p : p = stack[t]
  OBVIOUS
<1>2. p \in Seq(Frames) /\ p # <<>> /\ Chain(p) /\ \A k \in 1..Len(p) : FrameAgrees(p[k])
  BY <1>1, OnTop DEF Stacks
<1>3. PICK r : r = Front(p)
  OBVIOUS
<1>4. r \in Seq(Frames) /\ Chain(r) /\ Len(p) \in Nat \ {0} /\ Len(r) = Len(p) - 1 /\ \A k \in 1..(Len(p) - 1) : r[k] = p[k]
  BY <1>2, <1>3, FrontLast, ChainLeft
<1>5. \A k \in 1..Len(r) : FrameAgrees(r[k]) /\ r[k].at = "deps" /\ r[k].dep \in 1..Len(r[k].reg.deps)
  BY <1>2, <1>4 DEF Chain
<1>6. CASE r = <<>>
  <2>1. stack' = [stack EXCEPT ![t] = r]
    BY <1>1, <1>3, <1>6 DEF Done, Raise
  <2> QED
    BY <1>4, <1>5, <2>1
<1>7. CASE r # <<>>
  <2>1. PICK g : g = Last(r)
    OBVIOUS
  <2>2. g \in Frames /\ Len(r) \in 1..Len(r) /\ g = r[Len(r)]
    BY <1>4, <1>7, <2>1, LastIs
  <2>3. FrameAgrees(g) /\ g.at = "deps" /\ g.dep \in 1..Len(g.reg.deps)
    BY <1>5, <2>2
  <2>4. ASSUME NEW f \in Frames, f.service = g.service, f.at \notin {"lookup", "store"}, FrameAgrees(f)
        PROVE  /\ Append(Front(r), f) \in Seq(Frames) /\ Chain(Append(Front(r), f))
               /\ \A k \in 1..Len(Append(Front(r), f)) :
                    FrameAgrees(Append(Front(r), f)[k]) /\ Append(Front(r), f)[k].at # "store"
    <3>1. Chain(Append(Front(r), f))
      BY <1>4, <1>7, <2>1, <2>3, <2>4, ChainMoved
    <3>2. PICK q : q = Append(Front(r), f)
      OBVIOUS
    <3>3. q \in Seq(Frames) /\ Len(q) = Len(r) /\ \A k \in 1..Len(r) : q[k] = IF k = Len(r) THEN f ELSE r[k]
      BY <1>4, <1>7, <2>4, <3>2, Replaced
    <3>4. ASSUME NEW k \in 1..Len(q) PROVE FrameAgrees(q[k]) /\ q[k].at # "store"
      <4>1. CASE k = Len(r)
        BY <2>4, <3>3, <4>1
      <4>2. CASE k # Len(r)
        <5>1. q[k] = r[k] /\ k \in 1..Len(r)
          BY <3>3, <4>2
        <5>2. FrameAgrees(r[k]) /\ r[k].at = "deps"
          BY <1>5, <5>1
        <5> QED
          BY <5>1, <5>2
      <4> QED
        BY <4>1, <4>2
    <3> QED
      BY <3>1, <3>2, <3>3, <3>4
  <2>5. ASSUME NEW f \in Frames, f.service = g.service, f.at \notin {"lookup", "store"}, FrameAgrees(f),
               stack' = [stack EXCEPT ![t] = Append(Front(r), f)]
        PROVE  \E q \in Seq(Frames) :
                 /\ stack' = [stack EXCEPT ![t] = q] /\ Chain(q)
                 /\ \A k \in 1..Len(q) : FrameAgrees(q[k]) /\ q[k].at # "store"
    <3>1. PICK q : q = Append(Front(r), f)
      OBVIOUS
    <3>2. q \in Seq(Frames) /\ Chain(q) /\ \A k \in 1..Len(q) : FrameAgrees(q[k]) /\ q[k].at # "store"
      BY <2>4, <2>5, <3>1
    <3> QED
      BY <2>5, <3>1, <3>2
  <2>6. CASE Done(t)
    <3>1. PICK f : f = [g EXCEPT !.dep = @ + 1]
      OBVIOUS
    <3>2. f \in Frames
      BY <2>2, <3>1 DEF Frames
    <3>3. /\ f.service = g.service /\ f.at = g.at /\ f.reg = g.reg /\ f.instance = g.instance
      BY <2>2, <3>1 DEF Frames
    <3>4. FrameAgrees(f)
      BY <2>3, <3>3 DEF FrameAgrees
    <3>5. stack' = [stack EXCEPT ![t] = Append(Front(r), f)]
      BY <1>1, <1>3, <1>7, <2>1, <2>6, <3>1 DEF Done
    <3> QED
      BY <2>3, <2>5, <3>2, <3>3, <3>4, <3>5
  <2>7. CASE Raise(t)
    <3>1. PICK f : f = [g EXCEPT !.at = "failed"]
      OBVIOUS
    <3>2. f \in Frames
      BY <2>2, <3>1 DEF Frames
    <3>3. /\ f.service = g.service /\ f.at = "failed" /\ f.reg = g.reg
      BY <2>2, <3>1 DEF Frames
    <3>4. g.reg.deps # <<>>
      BY <2>3
    <3>5. FrameAgrees(f)
      BY <2>3, <3>3, <3>4 DEF FrameAgrees
    <3>6. stack' = [stack EXCEPT ![t] = Append(Front(r), f)]
      BY <1>1, <1>3, <1>7, <2>1, <2>7, <3>1 DEF Raise
    <3> QED
      BY <2>5, <3>2, <3>3, <3>5, <3>6
  <2> QED
    BY <2>6, <2>7
<1> QED
  BY <1>6, <1>7

\* What is being stored, if it was not given, is nowhere yet.
LEMMA Fresh ==
  ASSUME RegistryAssumption, Shapes, Stacks, NEW t \in Thread, At(t, "store")
  PROVE  /\ Top(t).instance \in 1..Len(made) /\ Top(t).instance \in Instance
         /\ made[Top(t).instance].service = Top(t).service /\ made[Top(t).instance].reg = Top(t).reg.id
         /\ given[Top(t).reg.id] = 0 => Top(t).instance \notin stored \union handed
         /\ given[Top(t).reg.id] # 0 => Top(t).instance = given[Top(t).reg.id] /\ Singleton(Top(t).reg)
<1>1. FrameAgrees(Top(t)) /\ Top(t).at = "store"
  BY OnTop DEF At
<1>2. /\ Top(t).instance \in 1..Len(made)
      /\ made[Top(t).instance] = [service |-> Top(t).service, reg |-> Top(t).reg.id]
      /\ IF given[Top(t).reg.id] # 0 THEN Top(t).instance = given[Top(t).reg.id]
         ELSE Top(t).instance \notin stored \union handed
      /\ given[Top(t).reg.id] # 0 => Singleton(Top(t).reg)
  BY <1>1 DEF FrameAgrees
<1>3. made[Top(t).instance].service = Top(t).service /\ made[Top(t).instance].reg = Top(t).reg.id
  BY <1>2
<1>4. Top(t).instance \in Instance
  <2>1. Len(made) \in Nat /\ Len(made) <= MaxInstances /\ MaxInstances \in Nat
    BY LenProperties DEF Shapes, RegistryAssumption
  <2> QED
    BY <1>2, <2>1 DEF Instance
<1> QED
  BY <1>2, <1>3, <1>4

-----------------------------------------------------------------------------
(* What threads do *)

\* A thread's stack changes and something may be handed out.
LEMMA StackMoves ==
  ASSUME RegistryAssumption, RegistryBooks, NEW t \in Thread, NEW q \in Seq(Frames),
         stack' = [stack EXCEPT ![t] = q], Chain(q), \A k \in 1..Len(q) : FrameAgrees(q[k])',
         UNCHANGED <<tables, containers, chores, made, stored, late, dropped, disposed>>,
         handed \subseteq handed', handed' \subseteq 1..Len(made),
         \A i \in handed' \ handed, s \in Service :
           Singleton(reg[s]) /\ made[i].reg = reg[s].id => cache[s] = i \/ given[reg[s].id] = i,
         \A u \in Thread \ {t} : At(u, "store") /\ given[Top(u).reg.id] = 0 =>
           /\ Top(u).instance \notin handed' \ handed
           /\ q # <<>> /\ Last(q).at = "store" => Top(u).instance # Last(q).instance
  PROVE  RegistryBooks'
<1>1. Shapes /\ Numbers /\ Stacks /\ Places /\ HandedOut /\ Fates /\ Ending
  BY DEF RegistryBooks
<1>2. /\ UNCHANGED <<reg, regs, given, cache, callbacks, scopes, open, held, closers, down>>
      /\ UNCHANGED <<chores, made, stored, late, dropped, disposed>>
  BY DEF tables, containers
<1>3. Shapes'
  BY <1>1, <1>2 DEF Shapes
<1>4. Stacks'
  <2>1. Grows
    BY <1>1, <1>2, GrowsWhenSame
  <2>2. ASSUME NEW u \in Thread \ {t}, At(u, "store"), given[Top(u).reg.id] = 0
        PROVE  /\ Top(u).instance \notin stored' \union handed'
               /\ q # <<>> /\ Last(q).at = "store" => Top(u).instance # Last(q).instance
    BY <1>1, <1>2, <2>2, Fresh
  <2> QED
    BY <1>1, <2>1, <2>2, StacksStep
<1>5. HandedOut'
  BY <1>1, <1>2 DEF HandedOut
<1>6. Numbers'
  BY <1>1, <1>2 DEF Numbers
<1>7. Places'
  BY <1>1, <1>2 DEF Places, CacheAgrees, HeldAgrees, GivenAgrees
<1>8. Fates'
  BY <1>1, <1>2 DEF Fates, Fate, Live, IsCached, IsDue
<1>9. Ending'
  BY <1>1, <1>2 DEF Ending
<1> QED
  BY <1>3, <1>4, <1>5, <1>6, <1>7, <1>8, <1>9 DEF RegistryBooks

\* What a frame knows stays known when a stack is all that changes.
LEMMA FrameSame ==
  ASSUME NEW f, FrameAgrees(f), UNCHANGED <<reg, regs, given, made>>,
         f.at = "store" => f.instance \notin handed' \ handed /\ stored' = stored
  PROVE  FrameAgrees(f)'
  BY DEF FrameAgrees

\* The thread's frame is over; it raises or hands out an instance.
LEMMA FrameEnds ==
  ASSUME RegistryAssumption, RegistryBooks, NEW t \in Thread, stack[t] # <<>>, Done(t) \/ Raise(t),
         UNCHANGED <<tables, containers, chores, made, stored, late, dropped, disposed>>,
         handed \subseteq handed', handed' \subseteq 1..Len(made),
         \A i \in handed' \ handed, s \in Service :
           Singleton(reg[s]) /\ made[i].reg = reg[s].id => cache[s] = i \/ given[reg[s].id] = i,
         \A u \in Thread \ {t} : At(u, "store") /\ given[Top(u).reg.id] = 0 =>
           Top(u).instance \notin handed' \ handed
  PROVE  RegistryBooks'
<1>1. Shapes /\ Numbers /\ Stacks
  BY DEF RegistryBooks
<1>2. PICK q \in Seq(Frames) : /\ stack' = [stack EXCEPT ![t] = q] /\ Chain(q)
                              /\ \A k \in 1..Len(q) : FrameAgrees(q[k]) /\ q[k].at # "store"
  BY <1>1, Popped
<1>3. UNCHANGED <<reg, regs, given, made>>
  BY DEF tables
<1>4. ASSUME NEW k \in 1..Len(q) PROVE FrameAgrees(q[k])'
  <2>1. PICK f : f = q[k]
    OBVIOUS
  <2>2. FrameAgrees(f) /\ f.at # "store"
    BY <1>2, <2>1
  <2>3. FrameAgrees(f)'
    BY <1>3, <2>2, FrameSame
  <2> QED
    BY <2>1, <2>3
<1>5. q # <<>> => Last(q).at # "store"
  BY <1>2, LastIs
<1> QED
  BY <1>2, <1>4, <1>5, StackMoves

LEMMA FrameMoves ==
  ASSUME RegistryAssumption, RegistryBooks, NEW t \in Thread, stack[t] # <<>>, NEW f \in Frames, Move(t, f),
         f.service = Top(t).service, FrameAgrees(f),
         Top(t).at = "lookup" /\ f.at # "lookup" =>
           ~\E k \in 1..(Len(stack[t]) - 1) : stack[t][k].service = f.service,
         f.at = "store" => given[f.reg.id] # 0,
         UNCHANGED <<tables, containers, chores, history>>
  PROVE  RegistryBooks'
<1>1. Shapes /\ Numbers /\ Stacks
  BY DEF RegistryBooks
<1>2. /\ UNCHANGED <<reg, regs, given, made, stored, late, dropped, disposed, handed>>
      /\ UNCHANGED <<tables, containers, chores>>
  BY DEF tables, history
<1>3. PICK p : p = stack[t]
  OBVIOUS
<1>4. p \in Seq(Frames) /\ p # <<>> /\ Chain(p) /\ (\A k \in 1..Len(p) : FrameAgrees(p[k])) /\ Top(t) = Last(p)
  BY <1>1, <1>3, OnTop DEF Stacks, Top
<1>5. PICK q : q = Append(Front(p), f)
  OBVIOUS
<1>6. /\ q \in Seq(Frames) /\ Len(q) = Len(p) /\ Last(q) = f
      /\ \A k \in 1..Len(p) : q[k] = IF k = Len(p) THEN f ELSE p[k]
  BY <1>4, <1>5, Replaced
<1>7. Chain(q)
  <2>1. Last(p).at = "lookup" /\ f.at # "lookup" => \A k \in 1..(Len(p) - 1) : p[k].service # f.service
    BY <1>3, <1>4
  <2> QED
    BY <1>4, <1>5, <2>1, ChainMoved
<1>8. stack' = [stack EXCEPT ![t] = q]
  BY <1>1, <1>3, <1>5 DEF Move, Shapes
<1>9. ASSUME NEW k \in 1..Len(q) PROVE FrameAgrees(q[k])'
  <2>1. PICK g : g = q[k]
    OBVIOUS
  <2>2. FrameAgrees(g)
    BY <1>4, <1>6, <2>1
  <2>3. FrameAgrees(g)'
    BY <1>2, <2>2, FrameSame
  <2> QED
    BY <2>1, <2>3
<1>10. ASSUME NEW u \in Thread \ {t}, At(u, "store"), given[Top(u).reg.id] = 0, f.at = "store"
       PROVE  Top(u).instance # f.instance
  <2>1. made[Top(u).instance].reg = Top(u).reg.id
    BY <1>1, <1>10, Fresh
  <2>2. made[f.instance] = [service |-> f.service, reg |-> f.reg.id]
    BY <1>10 DEF FrameAgrees
  <2>3. made[f.instance].reg = f.reg.id
    BY <2>2
  <2> QED
    BY <1>10, <2>1, <2>3
<1>11. handed' \subseteq 1..Len(made)
  BY <1>1, <1>2 DEF Shapes
<1> QED
  BY <1>2, <1>6, <1>7, <1>8, <1>9, <1>10, <1>11, StackMoves

LEMMA ResolveKeeps ==
  ASSUME RegistryAssumption, RegistryBooks, NEW t \in Thread, NEW s \in Service, NEW c \in AllScopes, Resolve(t, s, c)
  PROVE  RegistryBooks'
<1>1. Shapes
  BY DEF RegistryBooks
<1>2. /\ UNCHANGED <<reg, regs, given, made, stored, late, dropped, disposed, handed>>
      /\ UNCHANGED <<tables, containers, chores>>
  BY DEF Resolve, tables, history
<1>3. PICK f : f = Frame(s, c)
  OBVIOUS
<1>4. f \in Frames
  BY <1>3 DEF Frame, Frames, Shapes, RegistryAssumption
<1>5. f.at = "lookup" /\ f.reg = NoReg
  BY <1>3 DEF Frame
<1>6. PICK q : q = <<f>>
  OBVIOUS
<1>7. q \in Seq(Frames) /\ Len(q) = 1 /\ q[1] = f /\ q # <<>>
  BY <1>4, <1>6
<1>8. Chain(q)
  BY <1>7 DEF Chain
<1>9. Last(q) = f
  BY <1>7, LastIs
<1>10. stack' = [stack EXCEPT ![t] = q]
  BY <1>3, <1>6 DEF Resolve
<1>11. FrameAgrees(f)'
  BY <1>5 DEF FrameAgrees
<1>12. ASSUME NEW k \in 1..Len(q) PROVE FrameAgrees(q[k])'
  <2>1. q[k] = f
    BY <1>7
  <2> QED
    BY <1>11, <2>1
<1>13. handed' \subseteq 1..Len(made)
  BY <1>1, <1>2 DEF Shapes
<1> QED
  BY <1>2, <1>5, <1>7, <1>8, <1>9, <1>10, <1>12, <1>13, StackMoves

LEMMA LookupKeeps ==
  ASSUME RegistryAssumption, RegistryBooks, NEW t \in Thread, Lookup(t)
  PROVE  RegistryBooks'
<1> DEFINE s == Top(t).service
<1>1. Shapes /\ Numbers /\ Stacks /\ Places
  BY DEF RegistryBooks
<1>2. /\ stack[t] # <<>> /\ Top(t).at = "lookup"
      /\ UNCHANGED <<tables, containers, chores, made, stored, late, dropped, disposed>>
  BY DEF Lookup, At
<1>3. Top(t) \in Frames /\ s \in Service /\ Top(t).scope \in AllScopes
  BY <1>1, <1>2, OnTop, FrameTypes
<1>4. CASE Raise(t) /\ UNCHANGED handed
  <2>1. handed' \subseteq 1..Len(made)
    BY <1>1, <1>4 DEF Shapes
  <2> QED
    BY <1>2, <1>4, <2>1, FrameEnds
<1>5. CASE Registered(s) /\ Cached(t, s) # 0 /\ Done(t) /\ handed' = handed \union {Cached(t, s)}
  <2>1. PICK i : i = Cached(t, s)
    OBVIOUS
  <2>2. i \in stored /\ made[i].service = s /\ (Singleton(reg[s]) => cache[s] = i)
        /\ (~Singleton(reg[s]) => \A z \in Service : made[i].reg = reg[z].id => Scoped(reg[z]))
    BY <1>1, <1>3, <1>5, <2>1 DEF Cached, Places, CacheAgrees, HeldAgrees
  <2>3. stored \subseteq 1..Len(made) /\ handed \subseteq 1..Len(made)
    BY <1>1 DEF Shapes
  <2>4. ASSUME NEW z \in Service, Singleton(reg[z]), made[i].reg = reg[z].id PROVE cache[z] = i
    <3>1. made[i].service = z
      BY <1>1, <2>2, <2>3, <2>4 DEF Numbers
    <3> QED
      BY <2>2, <2>4, <3>1 DEF Singleton, Scoped
  <2>5. ASSUME NEW u \in Thread, At(u, "store"), given[Top(u).reg.id] = 0 PROVE Top(u).instance # i
    BY <1>1, <2>2, <2>5, Fresh
  <2>6. handed' = handed \union {i}
    BY <1>5, <2>1
  <2> QED
    BY <1>2, <1>5, <2>2, <2>3, <2>4, <2>5, <2>6, FrameEnds
<1>6. CASE /\ ~\E k \in 1..(Len(stack[t]) - 1) : stack[t][k].service = s
           /\ Registered(s) /\ Move(t, [Top(t) EXCEPT !.reg = reg[s], !.at = "deps"]) /\ UNCHANGED handed
  <2>1. PICK f : f = [Top(t) EXCEPT !.reg = reg[s], !.at = "deps"]
    OBVIOUS
  <2>2. reg[s] \in Reg /\ reg[s] # NoReg
    BY <1>1, <1>3, <1>6 DEF Shapes, Registered
  <2>3. f \in Frames /\ f.service = s /\ f.reg = reg[s] /\ f.at = "deps"
    BY <1>3, <2>1, <2>2 DEF Frames
  <2>4. reg[s].id \in 1..MaxRegs /\ reg[s].id # 0 /\ reg[s].id <= regs
    BY <1>1, <1>3, <2>2, RegTypes DEF Numbers
  <2>5. \A z \in Service : reg[z].id = reg[s].id => z = s
    BY <1>1, <1>3, <2>4 DEF Numbers
  <2>6. given[reg[s].id] # 0 => /\ Singleton(reg[s]) /\ reg[s].deps = <<>>
                                /\ made[given[reg[s].id]].service = s
    BY <1>1, <1>3, <2>4 DEF Numbers
  <2>7. FrameAgrees(f)
    BY <2>2, <2>3, <2>4, <2>5, <2>6 DEF FrameAgrees
  <2>8. UNCHANGED history
    BY <1>2, <1>6 DEF history
  <2> QED
    BY <1>2, <1>6, <2>1, <2>3, <2>7, <2>8, FrameMoves
<1> QED
  BY <1>4, <1>5, <1>6 DEF Lookup

LEMMA DescendKeeps ==
  ASSUME RegistryAssumption, RegistryBooks, NEW t \in Thread, Descend(t)
  PROVE  RegistryBooks'
<1>1. Shapes /\ Numbers /\ Stacks
  BY DEF RegistryBooks
<1>2. /\ stack[t] # <<>> /\ Top(t).at = "deps" /\ Top(t).dep <= Len(Top(t).reg.deps)
      /\ UNCHANGED <<reg, regs, given, made, stored, late, dropped, disposed, handed>>
      /\ UNCHANGED <<tables, containers, chores>>
  BY DEF Descend, At, tables, history
<1>3. PICK p : p = stack[t]
  OBVIOUS
<1>4. /\ p \in Seq(Frames) /\ p # <<>> /\ Chain(p) /\ (\A k \in 1..Len(p) : FrameAgrees(p[k]))
      /\ Top(t) = Last(p) /\ Top(t) \in Frames /\ Top(t).reg \in Reg
  BY <1>1, <1>2, <1>3, OnTop DEF Stacks, Top
<1>5. PICK g : g = Top(t)
  OBVIOUS
<1>6. g.dep \in 1..Len(g.reg.deps) /\ g.reg.deps[g.dep] \in Service /\ g.scope \in AllScopes
  <2>1. g.dep \in Nat \ {0} /\ g.reg.deps \in Seq(Service) /\ g.dep <= Len(g.reg.deps) /\ g.scope \in AllScopes
    BY <1>2, <1>4, <1>5, FrameTypes, RegTypes
  <2>2. PICK d : d = g.reg.deps
    OBVIOUS
  <2>3. g.dep \in 1..Len(d) /\ d \in Seq(Service)
    BY <2>1, <2>2, LenProperties
  <2>4. d[g.dep] \in Service
    BY <2>3, ElementOfSeq
  <2> QED
    BY <2>1, <2>2, <2>3, <2>4
<1>7. PICK f : f = Frame(g.reg.deps[g.dep], g.scope)
  OBVIOUS
<1>8. f \in Frames
  BY <1>6, <1>7 DEF Frame, Frames, RegistryAssumption
<1>9. f.at = "lookup" /\ f.reg = NoReg
  BY <1>7 DEF Frame
<1>10. PICK q : q = Append(p, f)
  OBVIOUS
<1>11. /\ q \in Seq(Frames) /\ Len(q) = Len(p) + 1 /\ Len(p) \in Nat
       /\ \A k \in 1..(Len(p) + 1) : q[k] = IF k <= Len(p) THEN p[k] ELSE f
  BY <1>4, <1>8, <1>10, AppendProperties, LenProperties
<1>12. Chain(q)
  BY <1>2, <1>4, <1>5, <1>6, <1>8, <1>9, <1>10, ChainDescended
<1>13. q # <<>> /\ Last(q) = f
  <2>1. q # <<>>
    BY <1>11, EmptySeq
  <2>2. Last(q) = q[Len(q)]
    BY <1>11, <2>1, LastIs
  <2> QED
    BY <1>11, <2>1, <2>2
<1>14. stack' = [stack EXCEPT ![t] = q]
  BY <1>1, <1>3, <1>5, <1>7, <1>10 DEF Descend, Shapes
<1>15. FrameAgrees(f)'
  BY <1>9 DEF FrameAgrees
<1>16. ASSUME NEW k \in 1..Len(q) PROVE FrameAgrees(q[k])'
  <2>1. PICK h : h = q[k]
    OBVIOUS
  <2>2. h = f \/ FrameAgrees(h)
    BY <1>4, <1>11, <2>1
  <2>3. FrameAgrees(h)'
    BY <1>2, <1>15, <2>2, FrameSame
  <2> QED
    BY <2>1, <2>3
<1>17. handed' \subseteq 1..Len(made)
  BY <1>1, <1>2 DEF Shapes
<1> QED
  BY <1>2, <1>9, <1>11, <1>12, <1>13, <1>14, <1>16, <1>17, StackMoves

LEMMA RetryKeeps ==
  ASSUME RegistryAssumption, RegistryBooks, NEW t \in Thread, Retry(t)
  PROVE  RegistryBooks'
<1>1. Shapes /\ Stacks
  BY DEF RegistryBooks
<1>2. stack[t] # <<>> /\ Top(t).at = "failed" /\ UNCHANGED <<tables, containers, chores, history>>
  BY DEF Retry, At
<1>3. Top(t) \in Frames /\ FrameAgrees(Top(t))
  BY <1>1, <1>2, OnTop
<1>4. PICK f : f = [Top(t) EXCEPT !.at = "deps", !.dep = 1, !.attempt = @ + 1]
  OBVIOUS
<1>5. f \in Frames /\ f.service = Top(t).service /\ f.reg = Top(t).reg /\ f.at = "deps"
  <2>1. PICK g : g = Top(t)
    OBVIOUS
  <2>2. g \in Frames /\ g.attempt + 1 \in Nat
    BY <1>3, <2>1, FrameTypes
  <2>3. f = [g EXCEPT !.at = "deps", !.dep = 1, !.attempt = g.attempt + 1]
    BY <1>4, <2>1
  <2>4. f \in Frames
    <3>1. PICK h : h = [g EXCEPT !.at = "deps", !.dep = 1]
      OBVIOUS
    <3>2. h \in Frames
      <4>1. PICK n \in Nat \ {0} : n = 1
        OBVIOUS
      <4>2. h = [g EXCEPT !.at = "deps", !.dep = n]
        BY <3>1, <4>1
      <4> QED
        BY <2>2, <4>2 DEF Frames
    <3>3. f = [h EXCEPT !.attempt = g.attempt + 1]
      BY <2>3, <3>1
    <3> QED
      BY <2>2, <3>2, <3>3 DEF Frames
  <2>5. f.service = g.service /\ f.reg = g.reg /\ f.at = "deps"
    BY <2>2, <2>3 DEF Frames
  <2> QED
    BY <2>1, <2>4, <2>5
<1>6. FrameAgrees(f)
  BY <1>2, <1>3, <1>5 DEF FrameAgrees
<1>7. Move(t, f)
  BY <1>4 DEF Retry
<1> QED
  BY <1>2, <1>5, <1>6, <1>7, FrameMoves

LEMMA GiveUpKeeps ==
  ASSUME RegistryAssumption, RegistryBooks, NEW t \in Thread, GiveUp(t)
  PROVE  RegistryBooks'
<1>1. stack[t] # <<>> /\ Raise(t) /\ UNCHANGED <<tables, containers, chores, history>>
  BY DEF GiveUp, At
<1>2. /\ UNCHANGED <<tables, containers, chores, made, stored, late, dropped, disposed, handed>>
      /\ handed \subseteq 1..Len(made)
  BY <1>1 DEF history, RegistryBooks, Shapes
<1> QED
  BY <1>1, <1>2, FrameEnds

LEMMA HandOverKeeps ==
  ASSUME RegistryAssumption, RegistryBooks, NEW t \in Thread, HandOver(t)
  PROVE  RegistryBooks'
<1> DEFINE i == Top(t).instance
<1>1. Shapes /\ Numbers /\ Stacks
  BY DEF RegistryBooks
<1>2. /\ At(t, "store") /\ stack[t] # <<>> /\ Top(t).reg.lifetime = "transient" /\ Done(t)
      /\ UNCHANGED <<tables, containers, chores, made, stored, late, dropped, disposed>>
      /\ handed' = handed \union {i} /\ Top(t).at = "store"
  BY DEF HandOver, At
<1>3. /\ i \in 1..Len(made) /\ made[i].reg = Top(t).reg.id
      /\ given[Top(t).reg.id] # 0 => Singleton(Top(t).reg)
  BY <1>1, <1>2, Fresh
<1>4. given[Top(t).reg.id] = 0
  BY <1>2, <1>3 DEF Singleton
<1>5. handed' \subseteq 1..Len(made)
  BY <1>1, <1>2, <1>3 DEF Shapes
<1>6. ASSUME NEW s \in Service, Singleton(reg[s]), made[i].reg = reg[s].id PROVE FALSE
  <2>1. FrameAgrees(Top(t))
    BY <1>1, <1>2, OnTop
  <2>2. reg[s] = Top(t).reg
    BY <1>2, <1>3, <1>6, <2>1 DEF FrameAgrees
  <2> QED
    BY <1>2, <1>6, <2>2 DEF Singleton
<1>7. ASSUME NEW u \in Thread \ {t}, At(u, "store"), given[Top(u).reg.id] = 0 PROVE Top(u).instance # i
  BY <1>1, <1>2, <1>4, <1>7 DEF Stacks
<1> QED
  BY <1>2, <1>5, <1>6, <1>7, FrameEnds

LEMMA MadeOne ==
  ASSUME RegistryAssumption, Shapes, NEW m \in [service : Service, reg : 1..MaxRegs], made' = Append(made, m),
         Len(made) < MaxInstances
  PROVE  /\ Len(made) \in Nat /\ Len(made') = Len(made) + 1 /\ made'[Len(made) + 1] = m
         /\ \A i \in 1..Len(made) : made'[i] = made[i]
         /\ made' \in Seq([service : Service, reg : 1..MaxRegs]) /\ Len(made') <= MaxInstances
         /\ Len(made) + 1 \in 1..MaxInstances
<1>1. PICK p : p = made
  OBVIOUS
<1>2. p \in Seq([service : Service, reg : 1..MaxRegs]) /\ Len(p) \in Nat
  BY <1>1, LenProperties DEF Shapes
<1>3. PICK q : q = Append(p, m)
  OBVIOUS
<1>4. /\ q \in Seq([service : Service, reg : 1..MaxRegs]) /\ Len(q) = Len(p) + 1 /\ q[Len(p) + 1] = m
      /\ \A i \in 1..Len(p) : q[i] = p[i]
  BY <1>2, <1>3, AppendProperties
<1>5. MaxInstances \in Nat
  BY DEF RegistryAssumption
<1>6. made' = q
  BY <1>1, <1>3
<1> QED
  BY <1>1, <1>2, <1>4, <1>5, <1>6

\* The factory or the fallback has made an instance.
LEMMA Builds ==
  ASSUME RegistryAssumption, RegistryBooks, NEW t \in Thread, stack[t] # <<>>, Top(t).at \in {"deps", "failed"},
         given[Top(t).reg.id] = 0, Len(made) < MaxInstances,
         made' = Append(made, [service |-> Top(t).service, reg |-> Top(t).reg.id]), Make(t, Len(made')),
         UNCHANGED <<tables, containers, chores, stored, late, dropped, handed, disposed>>
  PROVE  RegistryBooks'
<1>1. Shapes /\ Numbers /\ Stacks /\ Places /\ HandedOut /\ Fates /\ Ending
  BY DEF RegistryBooks
<1>2. /\ UNCHANGED <<reg, regs, given, cache, callbacks, scopes, open, held, closers, down>>
      /\ UNCHANGED <<chores, stored, late, dropped, handed, disposed>>
  BY DEF tables, containers
<1>3. PICK g : g = Top(t)
  OBVIOUS
<1>4. g \in Frames /\ FrameAgrees(g) /\ g.reg \in Reg /\ g.reg.id \in 1..regs /\ g.reg.id \in 1..MaxRegs
      /\ g.service \in Service /\ regs \in Nat
  <2>1. g \in Frames /\ FrameAgrees(g) /\ g.reg \in Reg /\ g.reg.id \in 1..regs /\ g.reg.id \in 1..MaxRegs
    BY <1>1, <1>3, OnTop
  <2>2. g.service \in Service
    BY <2>1, FrameTypes
  <2>3. regs \in Nat
    BY <1>1 DEF Shapes
  <2> QED
    BY <2>1, <2>2, <2>3
<1>5. PICK m : m = [service |-> g.service, reg |-> g.reg.id]
  OBVIOUS
<1>6. m \in [service : Service, reg : 1..MaxRegs] /\ m.service = g.service /\ m.reg = g.reg.id
  BY <1>4, <1>5
<1>7. PICK n : n = Len(made) + 1
  OBVIOUS
<1>8. /\ n \in Nat /\ Len(made) = n - 1 /\ Len(made') = n /\ made'[n] = m
      /\ \A i \in 1..(n - 1) : made'[i] = made[i]
      /\ made' \in Seq([service : Service, reg : 1..MaxRegs]) /\ n <= MaxInstances /\ n \in 1..MaxInstances
  <2>1. made' = Append(made, m)
    BY <1>3, <1>5
  <2>2. /\ Len(made) \in Nat /\ Len(made') = n /\ made'[n] = m
        /\ \A i \in 1..Len(made) : made'[i] = made[i]
        /\ made' \in Seq([service : Service, reg : 1..MaxRegs]) /\ Len(made') <= MaxInstances
        /\ n \in 1..MaxInstances
    BY <1>1, <1>6, <1>7, <2>1, MadeOne
  <2>3. Len(made) = n - 1 /\ n \in Nat
    BY <1>7, <2>2
  <2> QED
    BY <2>2, <2>3
<1>9. Grows
  BY <1>2, <1>4, <1>8 DEF Grows
<1>10. PICK f : f = [g EXCEPT !.at = "store", !.instance = n]
  OBVIOUS
<1>11. f \in Frames
  <2>1. PICK i \in 0..MaxInstances : i = n
    BY <1>8
  <2>2. f = [g EXCEPT !.at = "store", !.instance = i]
    BY <1>10, <2>1
  <2> QED
    BY <1>4, <2>2 DEF Frames
<1>12. f.service = g.service /\ f.reg = g.reg /\ f.at = "store" /\ f.instance = n
  BY <1>4, <1>10 DEF Frames
<1>13. stored \subseteq 1..(n - 1) /\ handed \subseteq 1..(n - 1) /\ late \subseteq stored
  BY <1>1, <1>8 DEF Shapes
<1>14. FrameAgrees(f)'
  <2>1. /\ g.reg # NoReg
        /\ \A s \in Service : reg[s].id = g.reg.id => reg[s] = g.reg /\ s = g.service
    BY <1>3, <1>4 DEF FrameAgrees
  <2>2. given[g.reg.id] = 0
    BY <1>3
  <2>3. n \notin stored \union handed
    BY <1>8, <1>13
  <2>4. f.instance \in 1..Len(made') /\ made'[f.instance] = [service |-> f.service, reg |-> f.reg.id]
    BY <1>5, <1>8, <1>12
  <2>5. g.reg.id <= regs
    BY <1>4
  <2> QED
    BY <1>2, <1>12, <2>1, <2>2, <2>3, <2>4, <2>5 DEF FrameAgrees
<1>15. Stacks'
  <2>1. PICK p : p = stack[t]
    OBVIOUS
  <2>2. /\ p \in Seq(Frames) /\ p # <<>> /\ Chain(p) /\ (\A k \in 1..Len(p) : FrameAgrees(p[k])) /\ g = Last(p)
        /\ Len(p) \in Nat
    BY <1>1, <1>3, <2>1, OnTop, LenProperties DEF Stacks, Top
  <2>3. PICK q : q = Append(Front(p), f)
    OBVIOUS
  <2>4. /\ q \in Seq(Frames) /\ Len(q) = Len(p) /\ Last(q) = f
        /\ \A k \in 1..Len(p) : q[k] = IF k = Len(p) THEN f ELSE p[k]
    BY <1>11, <2>2, <2>3, Replaced
  <2>5. Chain(q)
    BY <1>3, <1>11, <1>12, <2>2, <2>3, ChainMoved
  <2>6. stack' = [stack EXCEPT ![t] = q]
    <3>1. stack' = [stack EXCEPT ![t] = Append(Front(@), f)]
      BY <1>3, <1>8, <1>10 DEF Make, Move
    <3> QED
      BY <1>1, <2>1, <2>3, <3>1 DEF Shapes
  <2>7. ASSUME NEW k \in 1..Len(q) PROVE FrameAgrees(q[k])'
    <3>1. CASE k = Len(p)
      BY <1>14, <2>4, <3>1
    <3>2. CASE k # Len(p)
      <4>1. PICK h : h = p[k]
        OBVIOUS
      <4>2. h \in Frames /\ FrameAgrees(h) /\ h.at = "deps" /\ q[k] = h
        <5>1. k \in 1..(Len(p) - 1) /\ k \in 1..Len(p)
          BY <2>2, <2>4, <3>2
        <5> QED
          BY <2>2, <2>4, <3>2, <4>1, <5>1, ElementOfSeq DEF Chain
      <4>3. FrameAgrees(h)'
        BY <1>1, <1>9, <4>2, FrameStays
      <4> QED
        BY <4>2, <4>3
    <3> QED
      BY <3>1, <3>2
  <2>8. ASSUME NEW u \in Thread \ {t}, At(u, "store"), given[Top(u).reg.id] = 0
        PROVE  Top(u).instance \notin stored' \union handed' /\ Top(u).instance # Last(q).instance
    <3>1. Top(u).instance \notin stored \union handed /\ Top(u).instance \in 1..(n - 1)
      BY <1>1, <1>8, <2>8, Fresh
    <3> QED
      BY <1>2, <1>8, <1>12, <2>4, <3>1
  <2> QED
    BY <1>1, <1>9, <2>4, <2>5, <2>6, <2>7, <2>8, StacksStep
<1>16. Shapes'
  <2>1. stack' \in [Thread -> Seq(Frames)]
    <3>1. \A u \in Thread : stack[u] \in Seq(Frames)
      BY <1>1 DEF Shapes
    <3>2. PICK p : p = stack[t]
      OBVIOUS
    <3>3. p \in Seq(Frames) /\ p # <<>>
      BY <3>1, <3>2
    <3>4. PICK q : q = Append(Front(p), f)
      OBVIOUS
    <3>5. q \in Seq(Frames)
      BY <1>11, <3>3, <3>4, Replaced
    <3>6. stack' = [stack EXCEPT ![t] = q]
      <4>1. stack' = [stack EXCEPT ![t] = Append(Front(@), f)]
        BY <1>3, <1>8, <1>10 DEF Make, Move
      <4> QED
        BY <1>1, <3>2, <3>4, <4>1 DEF Shapes
    <3> QED
      BY <1>1, <3>5, <3>6 DEF Shapes
  <2>2. 1..(n - 1) \subseteq 1..n
    BY <1>8
  <2> QED
    BY <1>1, <1>2, <1>8, <1>13, <2>1, <2>2 DEF Shapes
<1>17. Numbers'
  <2>1. \A i \in 1..Len(made') : made'[i].reg <= regs
    <3> SUFFICES ASSUME NEW i \in 1..Len(made') PROVE made'[i].reg <= regs
      OBVIOUS
    <3>1. CASE i = n
      BY <1>4, <1>6, <1>8, <3>1
    <3>2. CASE i # n
      BY <1>1, <1>8, <3>2 DEF Numbers
    <3> QED
      BY <3>1, <3>2
  <2>2. ASSUME NEW s \in Service, NEW i \in 1..Len(made'), made'[i].reg = reg[s].id PROVE made'[i].service = s
    <3>1. CASE i = n
      <4>1. reg[s].id = g.reg.id
        BY <1>6, <1>8, <2>2, <3>1
      <4>2. s = g.service
        BY <1>3, <1>4, <4>1 DEF FrameAgrees
      <4> QED
        BY <1>6, <1>8, <3>1, <4>2
    <3>2. CASE i # n
      BY <1>1, <1>8, <2>2, <3>2 DEF Numbers
    <3> QED
      BY <3>1, <3>2
  <2>3. ASSUME NEW r \in 1..MaxRegs, given[r] # 0
        PROVE  /\ given[r] \in 1..Len(made') /\ made'[given[r]].reg = r
               /\ \A i \in 1..Len(made') : made'[i].reg = r => i = given[r]
    <3>1. /\ given[r] \in 1..(n - 1) /\ made[given[r]].reg = r
          /\ \A i \in 1..(n - 1) : made[i].reg = r => i = given[r]
      BY <1>1, <1>8, <2>3 DEF Numbers
    <3>2. r # g.reg.id
      BY <1>3, <2>3
    <3> QED
      BY <1>6, <1>8, <3>1, <3>2
  <2> QED
    BY <1>1, <1>2, <2>1, <2>2, <2>3 DEF Numbers
<1>18. Places'
  <2>1. \A i \in stored : made'[i] = made[i]
    BY <1>8, <1>13
  <2>2. ASSUME NEW s \in Service PROVE CacheAgrees(s)'
    BY <1>1, <1>2, <2>1 DEF Places, CacheAgrees
  <2>3. ASSUME NEW s \in Service PROVE GivenAgrees(s)'
    BY <1>1, <1>2 DEF Places, GivenAgrees
  <2>4. ASSUME NEW c \in AllScopes, NEW s \in Service PROVE HeldAgrees(c, s)'
    <3>1. HeldAgrees(c, s) /\ (held[c][s] # 0 => made'[held[c][s]] = made[held[c][s]])
      BY <1>1, <2>1 DEF Places, HeldAgrees
    <3> QED
      BY <1>2, <3>1 DEF HeldAgrees
  <2> QED
    BY <2>2, <2>3, <2>4 DEF Places
<1>19. HandedOut'
  <2>1. \A i \in handed : made'[i] = made[i]
    BY <1>8, <1>13
  <2> QED
    BY <1>1, <1>2, <2>1 DEF HandedOut
<1>20. Fates'
  BY <1>1, <1>2 DEF Fates, Fate, Live, IsCached, IsDue
<1>21. Ending'
  BY <1>1, <1>2 DEF Ending
<1> QED
  BY <1>15, <1>16, <1>17, <1>18, <1>19, <1>20, <1>21 DEF RegistryBooks

LEMMA CreateKeeps ==
  ASSUME RegistryAssumption, RegistryBooks, NEW t \in Thread, Create(t)
  PROVE  RegistryBooks'
<1>1. Shapes /\ Numbers /\ Stacks
  BY DEF RegistryBooks
<1>2. /\ stack[t] # <<>> /\ Top(t).at = "deps"
      /\ UNCHANGED <<tables, containers, chores, stored, late, dropped, handed, disposed>>
  BY DEF Create, At
<1>3. PICK g : g = Top(t)
  OBVIOUS
<1>4. g \in Frames /\ FrameAgrees(g) /\ g.at = "deps" /\ g.reg \in Reg /\ g.reg.id \in 1..MaxRegs
  BY <1>1, <1>2, <1>3, OnTop
<1>5. CASE given[g.reg.id] = 0 /\ Move(t, [g EXCEPT !.at = "failed"]) /\ UNCHANGED made
  <2>1. PICK f : f = [g EXCEPT !.at = "failed"]
    OBVIOUS
  <2>2. f \in Frames /\ f.service = g.service /\ f.reg = g.reg /\ f.at = "failed"
    BY <1>4, <2>1 DEF Frames
  <2>3. FrameAgrees(f)
    BY <1>4, <1>5, <2>2 DEF FrameAgrees
  <2>4. UNCHANGED history
    BY <1>2, <1>5 DEF history
  <2> QED
    BY <1>2, <1>3, <1>5, <2>1, <2>2, <2>3, <2>4, FrameMoves
<1>6. CASE given[g.reg.id] # 0 /\ Make(t, given[g.reg.id]) /\ UNCHANGED made
  <2>1. PICK i \in 0..MaxInstances : i = given[g.reg.id]
    BY <1>1, <1>4 DEF Shapes
  <2>2. PICK f : f = [g EXCEPT !.at = "store", !.instance = i]
    OBVIOUS
  <2>3. f \in Frames /\ f.service = g.service /\ f.reg = g.reg /\ f.at = "store" /\ f.instance = i
    BY <1>4, <2>2 DEF Frames
  <2>4. /\ i \in 1..Len(made) /\ made[i].reg = g.reg.id
    BY <1>1, <1>4, <1>6, <2>1 DEF Numbers
  <2>5. made[i].service = g.service
    BY <1>4, <1>6, <2>1 DEF FrameAgrees
  <2>6. made[i] = [service |-> f.service, reg |-> f.reg.id]
    <3>1. PICK p : p = made
      OBVIOUS
    <3>2. p[i] \in [service : Service, reg : 1..MaxRegs]
      BY <1>1, <2>4, <3>1, ElementOfSeq DEF Shapes
    <3>3. p[i].reg = f.reg.id /\ p[i].service = f.service
      BY <2>3, <2>4, <2>5, <3>1
    <3>4. p[i] = [service |-> f.service, reg |-> f.reg.id]
      BY <3>2, <3>3
    <3> QED
      BY <3>1, <3>4
  <2>7. FrameAgrees(f)
    BY <1>4, <1>6, <2>1, <2>3, <2>4, <2>6 DEF FrameAgrees
  <2>8. UNCHANGED history
    BY <1>2, <1>6 DEF history
  <2>9. Move(t, f)
    BY <1>3, <1>6, <2>1, <2>2 DEF Make
  <2>10. given[f.reg.id] # 0 /\ f.service = Top(t).service /\ Top(t).at # "lookup"
    BY <1>2, <1>3, <1>6, <2>3
  <2> QED
    BY <1>2, <2>3, <2>7, <2>8, <2>9, <2>10, FrameMoves
<1>7. CASE /\ given[g.reg.id] = 0 /\ Len(made) < MaxInstances
           /\ made' = Append(made, [service |-> g.service, reg |-> g.reg.id])
           /\ Make(t, Len(made'))
  BY <1>2, <1>3, <1>7, Builds
<1> QED
  BY <1>3, <1>5, <1>6, <1>7 DEF Create

LEMMA FallbackKeeps ==
  ASSUME RegistryAssumption, RegistryBooks, NEW t \in Thread, Fallback(t)
  PROVE  RegistryBooks'
<1>1. Shapes /\ Stacks
  BY DEF RegistryBooks
<1>2. /\ stack[t] # <<>> /\ Top(t).at = "failed" /\ Len(made) < MaxInstances
      /\ made' = Append(made, [service |-> Top(t).service, reg |-> Top(t).reg.id]) /\ Make(t, Len(made'))
      /\ UNCHANGED <<tables, containers, chores, stored, late, dropped, handed, disposed>>
  BY DEF Fallback, At
<1>3. given[Top(t).reg.id] = 0
  BY <1>1, <1>2, OnTop DEF FrameAgrees
<1> QED
  BY <1>2, <1>3, Builds

\* What is cached or held may be handed out.
LEMMA KnownIsHanded ==
  ASSUME RegistryAssumption, RegistryBooks, NEW s \in Service, NEW i, i # 0,
         i = cache[s] \/ \E c \in AllScopes : i = held[c][s]
  PROVE  /\ i \in stored /\ i \in 1..Len(made) /\ made[i].service = s
         /\ \A z \in Service :
              Singleton(reg[z]) /\ made[i].reg = reg[z].id => cache[z] = i \/ given[reg[z].id] = i
         /\ \A u \in Thread : At(u, "store") /\ given[Top(u).reg.id] = 0 => Top(u).instance # i
<1>1. Shapes /\ Numbers /\ Stacks /\ Places
  BY DEF RegistryBooks
<1>2. i \in stored /\ i \in 1..Len(made) /\ made[i].service = s
  BY <1>1 DEF Places, CacheAgrees, HeldAgrees, Shapes
<1>3. ASSUME NEW z \in Service, Singleton(reg[z]), made[i].reg = reg[z].id PROVE cache[z] = i
  <2>1. made[i].service = z
    BY <1>1, <1>2, <1>3 DEF Numbers
  <2>2. CASE i = cache[s]
    BY <1>2, <2>1, <2>2
  <2>3. CASE \E c \in AllScopes : i = held[c][s]
    <3>1. Scoped(reg[z])
      BY <1>1, <1>3, <2>3 DEF Places, HeldAgrees
    <3> QED
      BY <1>3, <3>1 DEF Singleton, Scoped
  <2> QED
    BY <2>2, <2>3
<1>4. ASSUME NEW u \in Thread, At(u, "store"), given[Top(u).reg.id] = 0 PROVE Top(u).instance # i
  BY <1>1, <1>2, <1>4, Fresh
<1> QED
  BY <1>2, <1>3, <1>4

LEMMA Unlisted == ASSUME NEW q, NEW x, ~Listed(q, x) PROVE Once(q, x)
  BY DEF Listed, Once

LEMMA FateStays ==
  ASSUME NEW x, Fate(x), IsCached(x)' <=> IsCached(x), IsDue(x)' <=> IsDue(x), disposed'[x] = disposed[x],
         Once(chores, ACall(x)) => Once(chores, ACall(x))'
  PROVE  Fate(x)'
  BY DEF Fate

LEMMA SameChores ==
  ASSUME NEW x, UNCHANGED chores
  PROVE  (IsDue(x)' <=> IsDue(x)) /\ (Once(chores, ACall(x)) => Once(chores, ACall(x))')
  BY DEF IsDue, Once, ACall, Chore

\* An instance that has just been stored
LEMMA FateBegins ==
  ASSUME Fates, NEW x \in Instance, x \notin stored, UNCHANGED <<chores, disposed>>, IsCached(x)'
  PROVE  Fate(x)'
<1>1. disposed[x] = 0 /\ ~IsDue(x)
  BY DEF Fates
<1>2. Once(chores, ACall(x))
  BY <1>1 DEF IsDue, Once, Listed
<1>3. ~IsDue(x)' /\ Once(chores, ACall(x))'
  BY <1>1, <1>2, SameChores
<1> QED
  BY <1>1, <1>3 DEF Fate

\* An instance is stored and its frame is over.
LEMMA StoredStacks ==
  ASSUME RegistryAssumption, RegistryBooks, NEW t \in Thread, At(t, "store"), Done(t),
         UNCHANGED <<reg, regs, given, made>>,
         stored' = stored \union {Top(t).instance}, handed' = handed \union {Top(t).instance}
  PROVE  Stacks' /\ stack' \in [Thread -> Seq(Frames)]
<1>1. Shapes /\ Numbers /\ Stacks
  BY DEF RegistryBooks
<1>2. PICK q \in Seq(Frames) : /\ stack' = [stack EXCEPT ![t] = q] /\ Chain(q)
                              /\ \A k \in 1..Len(q) : FrameAgrees(q[k]) /\ q[k].at # "store"
  BY <1>1, Popped DEF At
<1>3. ASSUME NEW k \in 1..Len(q) PROVE FrameAgrees(q[k])'
  <2>1. PICK f : f = q[k]
    OBVIOUS
  <2>2. FrameAgrees(f) /\ f.at # "store"
    BY <1>2, <2>1
  <2>3. FrameAgrees(f)'
    BY <2>2, FrameSame
  <2> QED
    BY <2>1, <2>3
<1>4. q # <<>> => Last(q).at # "store"
  BY <1>2, LastIs
<1>5. ASSUME NEW u \in Thread \ {t}, At(u, "store"), given[Top(u).reg.id] = 0
      PROVE  Top(u).instance \notin stored' \union handed'
  <2>1. Top(u).instance \notin stored \union handed
    BY <1>1, <1>5, Fresh
  <2>2. Top(u).instance # Top(t).instance
    BY <1>1, <1>5 DEF Stacks
  <2> QED
    BY <2>1, <2>2
<1>6. Grows
  BY <1>1, GrowsWhenSame
<1>7. Stacks'
  BY <1>1, <1>2, <1>3, <1>4, <1>5, <1>6, StacksStep
<1>8. stack' \in [Thread -> Seq(Frames)]
  BY <1>1, <1>2 DEF Shapes
<1> QED
  BY <1>7, <1>8

LEMMA StoreSingletonKeeps ==
  ASSUME RegistryAssumption, RegistryBooks, NEW t \in Thread, StoreSingleton(t)
  PROVE  RegistryBooks'
<1>1. Shapes /\ Numbers /\ Stacks /\ Places /\ HandedOut /\ Fates /\ Ending
  BY DEF RegistryBooks
<1>2. PICK f : f = Top(t)
  OBVIOUS
<1>3. /\ At(t, "store") /\ stack[t] # <<>> /\ f.at = "store" /\ Singleton(f.reg) /\ Done(t)
      /\ UNCHANGED <<reg, regs, given, scopes, open, held, closers, down, chores, made, dropped, disposed>>
      /\ UNCHANGED containers
  BY <1>2 DEF StoreSingleton, At, containers
<1>4. PICK s \in Service : s = f.service
  BY <1>1, <1>2, <1>3, OnTop, FrameTypes
<1>5. PICK i \in Instance : i = f.instance
  BY <1>1, <1>2, <1>3, Fresh
<1>6. /\ i \in 1..Len(made) /\ made[i].service = s /\ made[i].reg = f.reg.id /\ i # 0
      /\ given[f.reg.id] = 0 => i \notin stored \union handed
      /\ given[f.reg.id] # 0 => i = given[f.reg.id]
      /\ FrameAgrees(f) /\ f.reg \in Reg /\ f.reg.id \in 1..MaxRegs
  BY <1>1, <1>2, <1>3, <1>4, <1>5, Fresh, OnTop
<1>7. CASE cache[s] # 0 /\ handed' = handed \union {cache[s]} /\ UNCHANGED <<cache, callbacks, stored, late>>
  <2>1. PICK j : j = cache[s]
    OBVIOUS
  <2>2. /\ j \in 1..Len(made)
        /\ \A z \in Service :
             Singleton(reg[z]) /\ made[j].reg = reg[z].id => cache[z] = j \/ given[reg[z].id] = j
        /\ \A u \in Thread : At(u, "store") /\ given[Top(u).reg.id] = 0 => Top(u).instance # j
    BY <1>7, <2>1, KnownIsHanded
  <2>3. UNCHANGED tables
    BY <1>3, <1>7 DEF tables
  <2>4. handed' \subseteq 1..Len(made) /\ handed' = handed \union {j}
    BY <1>1, <1>7, <2>1, <2>2 DEF Shapes
  <2>5. UNCHANGED <<tables, containers, chores, made, stored, late, dropped, disposed>>
    BY <1>3, <1>7, <2>3
  <2> QED
    BY <1>3, <2>2, <2>4, <2>5, FrameEnds
<1>8. CASE /\ cache[s] = 0 /\ cache' = [cache EXCEPT ![s] = i] /\ callbacks' = [callbacks EXCEPT ![s] = i]
           /\ stored' = stored \union {i} /\ handed' = handed \union {i}
           /\ late' = IF Stale(f) THEN late \union {i} ELSE late
  <2>1. Stacks' /\ stack' \in [Thread -> Seq(Frames)]
    BY <1>2, <1>3, <1>5, <1>8, StoredStacks
  <2>2. late \subseteq late' /\ late' \subseteq late \union {i}
    BY <1>8
  <2>3. /\ cache \in [Service -> 0..MaxInstances] /\ cache'[s] = i
        /\ \A z \in Service \ {s} : cache'[z] = cache[z]
    BY <1>1, <1>8 DEF Shapes
  <2>4. Shapes'
    <3>1. cache' \in [Service -> 0..MaxInstances] /\ callbacks' = cache'
      BY <1>1, <1>8 DEF Shapes, Instance
    <3> QED
      BY <1>1, <1>3, <1>6, <1>8, <2>1, <2>2, <3>1 DEF Shapes
  <2>5. Numbers'
    BY <1>1, <1>3 DEF Numbers
  <2>6. ~Stale(f) => reg[s] = f.reg /\ i \notin stored
    <3>1. ~Stale(f) => reg[s] = f.reg
      BY <1>3, <1>4, <1>6 DEF Stale, FrameAgrees
    <3>2. reg[s] = f.reg => i \notin stored
      <4>1. GivenAgrees(s) /\ f.reg # NoReg
        BY <1>1, <1>6, RegTypes DEF Places
      <4> QED
        BY <1>6, <1>8, <4>1 DEF GivenAgrees
    <3> QED
      BY <3>1, <3>2
  <2>7. i \notin late' => ~Stale(f)
    BY <1>8
  <2>8. Places'
    <3>1. ASSUME NEW z \in Service PROVE CacheAgrees(z)'
      <4>1. CASE z = s
        <5>1. i \notin late' => Singleton(reg[s]) /\ made[i].reg = reg[s].id
          BY <1>3, <1>6, <2>6, <2>7
        <5> QED
          BY <1>3, <1>6, <1>8, <2>3, <4>1, <5>1 DEF CacheAgrees
      <4>2. CASE z # s
        <5>1. CacheAgrees(z) /\ cache'[z] = cache[z]
          BY <1>1, <2>3, <4>2 DEF Places
        <5> QED
          BY <1>3, <1>8, <2>2, <5>1 DEF CacheAgrees
      <4> QED
        BY <4>1, <4>2
    <3>2. ASSUME NEW z \in Service PROVE GivenAgrees(z)'
      <4>1. CASE z = s
        <5>1. ASSUME reg[s] # NoReg, given[reg[s].id] \in stored' PROVE i = given[reg[s].id]
          <6>1. CASE given[reg[s].id] = i
            BY <6>1
          <6>2. CASE given[reg[s].id] \in stored
            <7>1. cache[s] = given[reg[s].id]
              BY <1>1, <5>1, <6>2 DEF Places, GivenAgrees
            <7>2. 0 \notin stored
              BY <1>1 DEF Shapes
            <7> QED
              BY <1>8, <6>2, <7>1, <7>2
          <6> QED
            BY <1>8, <5>1, <6>1, <6>2
        <5> QED
          BY <1>3, <2>3, <4>1, <5>1 DEF GivenAgrees
      <4>2. CASE z # s
        <5>1. ASSUME reg[z] # NoReg, given[reg[z].id] = i PROVE FALSE
          <6>1. reg[z] \in Reg /\ reg[z].id \in 1..MaxRegs
            BY <1>1, <5>1, RegTypes DEF Shapes
          <6>2. made[given[reg[z].id]].reg = reg[z].id /\ given[reg[z].id] \in 1..Len(made)
            BY <1>1, <1>6, <5>1, <6>1 DEF Numbers
          <6>3. made[given[reg[z].id]].service = z
            BY <1>1, <6>2 DEF Numbers
          <6> QED
            BY <1>6, <4>2, <5>1, <6>3
        <5>2. GivenAgrees(z) /\ cache'[z] = cache[z]
          BY <1>1, <2>3, <4>2 DEF Places
        <5> QED
          BY <1>3, <1>8, <5>1, <5>2 DEF GivenAgrees
      <4> QED
        BY <4>1, <4>2
    <3>3. ASSUME NEW c \in AllScopes, NEW z \in Service PROVE HeldAgrees(c, z)'
      <4>1. HeldAgrees(c, z)
        BY <1>1 DEF Places
      <4>2. held[c][z] # 0 => held[c][z] # cache'[z]
        <5>1. CASE z = s
          <6>1. ASSUME held[c][s] = i PROVE FALSE
            BY <1>6, <4>1, <5>1, <6>1 DEF HeldAgrees
          <6> QED
            BY <2>3, <5>1, <6>1
        <5>2. CASE z # s
          BY <2>3, <4>1, <5>2 DEF HeldAgrees
        <5> QED
          BY <5>1, <5>2
      <4> QED
        BY <1>3, <1>8, <2>2, <4>1, <4>2 DEF HeldAgrees
    <3> QED
      BY <3>1, <3>2, <3>3 DEF Places
  <2>9. HandedOut'
    <3> SUFFICES ASSUME NEW z \in Service, NEW j \in handed', Singleton(reg[z]), made[j].reg = reg[z].id
                 PROVE  cache'[z] = j \/ given[reg[z].id] = j
      BY <1>3 DEF HandedOut
    <3>1. CASE j = i
      <4>1. made[i].service = z
        BY <1>1, <1>6, <3>1 DEF Numbers
      <4> QED
        BY <1>6, <2>3, <3>1, <4>1
    <3>2. CASE j \in handed
      <4>1. cache[z] = j \/ given[reg[z].id] = j
        BY <1>1, <3>2 DEF HandedOut
      <4>2. j # 0
        BY <1>1, <3>2 DEF Shapes
      <4> QED
        BY <1>8, <2>3, <4>1, <4>2
    <3> QED
      BY <1>8, <3>1, <3>2
  <2>10. Fates'
    <3>1. ASSUME NEW x \in Instance, x \notin stored' PROVE disposed'[x] = 0 /\ ~IsDue(x)'
      BY <1>1, <1>3, <1>8, <3>1 DEF Fates, IsDue
    <3>2. ASSUME NEW x \in Live', x # i PROVE Fate(x)'
      <4>1. x \in Live /\ x # 0
        BY <1>1, <1>3, <1>8, <2>2, <3>2 DEF Live, Shapes
      <4>2. IsCached(x)' <=> IsCached(x)
        BY <1>3, <1>8, <2>3, <3>2, <4>1 DEF IsCached
      <4>3. Fate(x)
        BY <1>1, <4>1 DEF Fates
      <4> QED
        BY <1>3, <4>2, <4>3, SameChores, FateStays
    <3>3. ASSUME i \in Live' PROVE Fate(i)'
      <4>1. i \notin stored
        BY <2>6, <2>7, <3>3 DEF Live
      <4>2. IsCached(i)'
        BY <2>3 DEF IsCached
      <4> QED
        BY <1>1, <1>3, <4>1, <4>2, FateBegins
    <3> QED
      BY <3>1, <3>2, <3>3 DEF Fates
  <2>11. Ending'
    <3>1. down => Stale(f)
      BY DEF Stale
    <3>2. \A z \in Service : down /\ cache'[z] # 0 => cache'[z] \in late'
      BY <1>1, <1>8, <2>2, <2>3, <3>1 DEF Ending
    <3> QED
      BY <1>1, <1>3, <3>2 DEF Ending
  <2> QED
    BY <2>1, <2>4, <2>5, <2>8, <2>9, <2>10, <2>11 DEF RegistryBooks
<1> QED
  BY <1>2, <1>4, <1>5, <1>7, <1>8 DEF StoreSingleton

LEMMA StoreScopedKeeps ==
  ASSUME RegistryAssumption, RegistryBooks, NEW t \in Thread, StoreScoped(t)
  PROVE  RegistryBooks'
<1>1. Shapes /\ Numbers /\ Stacks /\ Places /\ HandedOut /\ Fates /\ Ending
  BY DEF RegistryBooks
<1>2. PICK f : f = Top(t)
  OBVIOUS
<1>3. /\ At(t, "store") /\ stack[t] # <<>> /\ f.at = "store" /\ Scoped(f.reg) /\ Done(t)
      /\ UNCHANGED <<reg, regs, given, cache, callbacks, scopes, open, down, chores, made, dropped, disposed>>
      /\ UNCHANGED tables
  BY <1>2 DEF StoreScoped, At, tables
<1>4. PICK s \in Service : s = f.service
  BY <1>1, <1>2, <1>3, OnTop, FrameTypes
<1>5. PICK i \in Instance : i = f.instance
  BY <1>1, <1>2, <1>3, Fresh
<1>6. PICK c \in AllScopes : c = f.scope
  BY <1>1, <1>2, <1>3, OnTop, FrameTypes
<1>7. /\ i \in 1..Len(made) /\ made[i].service = s /\ made[i].reg = f.reg.id /\ i # 0
      /\ i \notin stored \union handed /\ given[f.reg.id] = 0
      /\ \A z \in Service : reg[z].id = f.reg.id => reg[z] = f.reg
  <2>1. /\ i \in 1..Len(made) /\ made[i].service = s /\ made[i].reg = f.reg.id /\ i # 0
        /\ given[f.reg.id] = 0 => i \notin stored \union handed
        /\ given[f.reg.id] # 0 => Singleton(f.reg)
        /\ FrameAgrees(f)
    BY <1>1, <1>2, <1>3, <1>4, <1>5, Fresh, OnTop
  <2>2. ~Singleton(f.reg)
    BY <1>3 DEF Singleton, Scoped
  <2>3. \A z \in Service : reg[z].id = f.reg.id => reg[z] = f.reg
    BY <1>3, <2>1 DEF FrameAgrees
  <2> QED
    BY <2>1, <2>2, <2>3
<1>8. CASE held[c][s] # 0 /\ handed' = handed \union {held[c][s]} /\ UNCHANGED <<held, closers, stored, late>>
  <2>1. PICK j : j = held[c][s]
    OBVIOUS
  <2>2. /\ j \in 1..Len(made)
        /\ \A z \in Service :
             Singleton(reg[z]) /\ made[j].reg = reg[z].id => cache[z] = j \/ given[reg[z].id] = j
        /\ \A u \in Thread : At(u, "store") /\ given[Top(u).reg.id] = 0 => Top(u).instance # j
    <3>1. j # 0 /\ \E d \in AllScopes : j = held[d][s]
      BY <1>8, <2>1
    <3> QED
      BY <3>1, KnownIsHanded
  <2>3. UNCHANGED containers
    BY <1>3, <1>8 DEF containers
  <2>4. handed' \subseteq 1..Len(made) /\ handed' = handed \union {j}
    BY <1>1, <1>8, <2>1, <2>2 DEF Shapes
  <2>5. UNCHANGED <<tables, containers, chores, made, stored, late, dropped, disposed>>
    BY <1>3, <1>8, <2>3
  <2> QED
    BY <1>3, <2>2, <2>4, <2>5, FrameEnds
<1>9. CASE /\ held[c][s] = 0 /\ held' = [held EXCEPT ![c][s] = i] /\ closers' = [closers EXCEPT ![c][s] = i]
           /\ stored' = stored \union {i} /\ handed' = handed \union {i}
           /\ late' = IF Stale(f) \/ c \notin open THEN late \union {i} ELSE late
  <2>1. Stacks' /\ stack' \in [Thread -> Seq(Frames)]
    BY <1>2, <1>3, <1>5, <1>9, StoredStacks
  <2>2. late \subseteq late' /\ late' \subseteq late \union {i} /\ (c \notin open => i \in late')
    BY <1>9
  <2>3. held \in [AllScopes -> [Service -> 0..MaxInstances]]
    BY <1>1 DEF Shapes
  <2>4. /\ held'[c][s] = i /\ \A z \in Service \ {s} : held'[c][z] = held[c][z]
        /\ \A d \in AllScopes \ {c} : held'[d] = held[d]
    BY <1>9, <2>3
  <2>5. \A d \in AllScopes, z \in Service : held'[d][z] = IF d = c /\ z = s THEN i ELSE held[d][z]
    BY <2>4
  <2>6. Shapes'
    <3>1. held' \in [AllScopes -> [Service -> 0..MaxInstances]] /\ closers' = held'
      BY <1>1, <1>9, <2>3 DEF Shapes, Instance
    <3> QED
      BY <1>1, <1>3, <1>7, <1>9, <2>1, <2>2, <3>1 DEF Shapes
  <2>7. Numbers'
    BY <1>1, <1>3 DEF Numbers
  <2>8. Places'
    <3>1. ASSUME NEW z \in Service PROVE CacheAgrees(z)'
      <4>1. CacheAgrees(z)
        BY <1>1 DEF Places
      <4> QED
        BY <1>3, <1>9, <2>2, <4>1 DEF CacheAgrees
    <3>2. ASSUME NEW z \in Service PROVE GivenAgrees(z)'
      <4>1. GivenAgrees(z)
        BY <1>1 DEF Places
      <4>2. ASSUME reg[z] # NoReg, given[reg[z].id] = i PROVE FALSE
        <5>1. reg[z] \in Reg /\ reg[z].id \in 1..MaxRegs
          BY <1>1, <4>2, RegTypes DEF Shapes
        <5>2. made[given[reg[z].id]].reg = reg[z].id
          BY <1>1, <1>7, <4>2, <5>1 DEF Numbers
        <5> QED
          BY <1>7, <4>2, <5>2
      <4> QED
        BY <1>3, <1>9, <4>1, <4>2 DEF GivenAgrees
    <3>3. ASSUME NEW d \in AllScopes, NEW z \in Service PROVE HeldAgrees(d, z)'
      <4>1. CASE d = c /\ z = s
        <5>1. i # cache[s]
          BY <1>1, <1>7 DEF Places, CacheAgrees
        <5>2. ASSUME NEW y \in Service, made[i].reg = reg[y].id PROVE Scoped(reg[y])
          BY <1>3, <1>7, <5>2
        <5>3. ASSUME NEW e \in AllScopes, held'[e][s] = i PROVE e = c
          <6>1. HeldAgrees(e, s)
            BY <1>1 DEF Places
          <6> QED
            BY <1>7, <2>5, <5>3, <6>1 DEF HeldAgrees
        <5> QED
          BY <1>3, <1>7, <1>9, <2>2, <2>5, <4>1, <5>1, <5>2, <5>3 DEF HeldAgrees
      <4>2. CASE ~(d = c /\ z = s)
        <5>1. HeldAgrees(d, z) /\ held'[d][z] = held[d][z]
          BY <1>1, <2>5, <4>2 DEF Places
        <5>2. ASSUME NEW e \in AllScopes, held[d][z] # 0, held'[e][z] = held[d][z] PROVE e = d
          <6>1. CASE e = c /\ z = s
            BY <1>7, <2>5, <5>1, <5>2, <6>1 DEF HeldAgrees
          <6>2. CASE ~(e = c /\ z = s)
            BY <2>5, <5>1, <5>2, <6>2 DEF HeldAgrees
          <6> QED
            BY <6>1, <6>2
        <5> QED
          BY <1>3, <1>9, <2>2, <5>1, <5>2 DEF HeldAgrees
      <4> QED
        BY <4>1, <4>2
    <3> QED
      BY <3>1, <3>2, <3>3 DEF Places
  <2>9. HandedOut'
    <3> SUFFICES ASSUME NEW z \in Service, NEW j \in handed', Singleton(reg[z]), made[j].reg = reg[z].id
                 PROVE  cache[z] = j \/ given[reg[z].id] = j
      BY <1>3 DEF HandedOut
    <3>1. j # i
      <4>1. ASSUME j = i PROVE FALSE
        BY <1>3, <1>7, <4>1 DEF Singleton, Scoped
      <4> QED
        BY <4>1
    <3> QED
      BY <1>1, <1>9, <3>1 DEF HandedOut
  <2>10. Fates'
    <3>1. ASSUME NEW x \in Instance, x \notin stored' PROVE disposed'[x] = 0 /\ ~IsDue(x)'
      BY <1>1, <1>3, <1>9, <3>1 DEF Fates, IsDue
    <3>2. ASSUME NEW x \in Live', x # i PROVE Fate(x)'
      <4>1. x \in Live /\ x # 0
        BY <1>1, <1>3, <1>9, <2>2, <3>2 DEF Live, Shapes
      <4>2. \A d \in AllScopes, z \in Service : held'[d][z] = x <=> held[d][z] = x
        BY <1>9, <2>5, <3>2, <4>1
      <4>3. IsCached(x)' <=> IsCached(x)
        BY <1>3, <4>2 DEF IsCached
      <4>4. Fate(x)
        BY <1>1, <4>1 DEF Fates
      <4> QED
        BY <1>3, <4>3, <4>4, SameChores, FateStays
    <3>3. ASSUME i \in Live' PROVE Fate(i)'
      <4>1. IsCached(i)'
        BY <2>5 DEF IsCached
      <4> QED
        BY <1>1, <1>3, <1>7, <4>1, FateBegins
    <3> QED
      BY <3>1, <3>2, <3>3 DEF Fates
  <2>11. Ending'
    BY <1>1, <1>3, <2>2 DEF Ending
  <2> QED
    BY <2>1, <2>6, <2>7, <2>8, <2>9, <2>10, <2>11 DEF RegistryBooks
<1> QED
  BY <1>2, <1>4, <1>5, <1>6, <1>8, <1>9 DEF StoreScoped

LEMMA WorkKeeps ==
  ASSUME RegistryAssumption, RegistryBooks, NEW t \in Thread, Work(t)
  PROVE  RegistryBooks'
  BY LookupKeeps, DescendKeeps, CreateKeeps, RetryKeeps, FallbackKeeps, GiveUpKeeps, StoreSingletonKeeps,
     StoreScopedKeeps, HandOverKeeps DEF Work

-----------------------------------------------------------------------------
(* What the main thread does *)

LEMMA ChoreFields ==
  ASSUME NEW do, NEW scope, NEW n
  PROVE  /\ Chore(do, scope, n).do = do /\ Chore(do, scope, n).scope = scope /\ Chore(do, scope, n).of = n
  BY DEF Chore

LEMMA Chores ==
  ASSUME RegistryAssumption
  PROVE  /\ \A i : ACall(i).do = "call" /\ ACall(i).of = i
         /\ \A i, j : ACall(i) = ACall(j) => i = j
         /\ \A i \in Instance : ACall(i) \in AChore
         /\ \A c \in AllScopes, s \in Service : Chore("drop", c, s) \in AChore
         /\ \A c \in AllScopes : Chore("close", c, 0) \in AChore /\ Chore("release", c, 0) \in AChore
         /\ \A s \in Service : Chore("put", Root, s) \in AChore
<1>1. Root \in AllScopes
  BY DEF AllScopes
<1> QED
  BY <1>1 DEF ACall, Chore, AChore

\* What is listed of a service's registration when it goes
LEMMA PurgeLists ==
  ASSUME RegistryAssumption, Shapes, NEW s \in Service, NEW q, q = IF Registered(s) THEN Purge(s) ELSE <<>>
  PROVE  /\ q \in Seq(AChore)
         /\ \A x : Listed(q, x) => (x = ACall(cache[s]) /\ cache[s] # 0) \/ x.do = "drop"
         /\ Singleton(reg[s]) /\ cache[s] # 0 => Listed(q, ACall(cache[s]))
         /\ \A i : Once(q, ACall(i))
<1>1. cache[s] \in 0..MaxInstances /\ callbacks = cache /\ scopes \subseteq Scope
  BY DEF Shapes
<1>2. CASE ~Registered(s)
  <2>1. q = <<>> /\ ~Singleton(reg[s])
    BY <1>2, RegTypes DEF Registered
  <2>2. q \in Seq(AChore)
    <3>1. <<>> \in Seq(AChore)
      OBVIOUS
    <3> QED
      BY <2>1, <3>1, Zenon
  <2>3. \A x : ~Listed(q, x) /\ Once(q, x)
    BY <2>1, NoneListed
  <2> QED
    BY <2>1, <2>2, <2>3
<1>3. CASE Registered(s) /\ Singleton(reg[s])
  <2>1. q = CallOf(cache[s])
    BY <1>1, <1>3 DEF Purge, CallOf
  <2> QED
    BY <1>1, <2>1, CallOfListed
<1>4. CASE Registered(s) /\ Scoped(reg[s])
  <2>1. ~Singleton(reg[s])
    BY <1>4 DEF Singleton, Scoped
  <2>2. PICK p : p = ForScopes("drop", s)
    OBVIOUS
  <2>3. PICK o : o = <<Chore("drop", Root, s)>>
    OBVIOUS
  <2>4. q = p \o o
    BY <1>4, <2>1, <2>2, <2>3 DEF Purge
  <2>5. p \in Seq(AChore) /\ \A x : Listed(p, x) <=> \E c \in scopes : x = Chore("drop", c, s)
    BY <1>1, <2>2, Chores, ScopesListed
  <2>6. o \in Seq(AChore) /\ \A x : Listed(o, x) <=> x = Chore("drop", Root, s)
    <3>1. Chore("drop", Root, s) \in AChore
      BY Chores DEF AllScopes
    <3> QED
      BY <2>3, <3>1, OneListed
  <2>7. q \in Seq(AChore) /\ \A x : Listed(q, x) <=> Listed(p, x) \/ Listed(o, x)
    <3>1. p \o o \in Seq(AChore) /\ \A x : Listed(p \o o, x) <=> Listed(p, x) \/ Listed(o, x)
      BY <2>5, <2>6, ListedInJoin
    <3> QED
      BY <2>4, <3>1
  <2>8. \A x : Listed(q, x) => x.do = "drop"
    BY <2>5, <2>6, <2>7, ChoreFields
  <2>9. \A i : Once(q, ACall(i))
    BY <2>8, Chores, Unlisted
  <2> QED
    BY <2>1, <2>7, <2>8, <2>9
<1>5. CASE Registered(s) /\ ~Singleton(reg[s]) /\ ~Scoped(reg[s])
  <2>1. q = <<>>
    BY <1>5 DEF Purge
  <2> QED
    BY <1>5, <2>1, NoneListed
<1> QED
  BY <1>2, <1>3, <1>4, <1>5

\* The registration of a service changes.
LEMMA Enters ==
  ASSUME RegistryAssumption, RegistryBooks, NEW s \in Service, MainIdle, ~down, NEW x \in Reg \union {NoReg},
         reg' = [reg EXCEPT ![s] = x], regs' = IF x = NoReg THEN regs ELSE regs + 1,
         x # NoReg => x.id = regs + 1 /\ regs < MaxRegs /\ given'[regs + 1] \notin stored,
         cache' = [cache EXCEPT ![s] = 0], callbacks' = [callbacks EXCEPT ![s] = 0],
         UNCHANGED <<containers, stack, stored, late, handed, disposed>>,
         given' \in [1..MaxRegs -> 0..MaxInstances], \A r \in 1..regs : given'[r] = given[r],
         made' \in Seq([service : Service, reg : 1..MaxRegs]), Len(made') <= MaxInstances,
         \A i \in 1..Len(made) : i \in 1..Len(made') /\ made'[i] = made[i],
         Numbers',
         dropped \subseteq dropped', dropped' \subseteq dropped \union ({cache[s]} \ {0}),
         chores' \in Seq(AChore), \A i : Once(chores', ACall(i)),
         \A i \in Instance : Listed(chores', ACall(i)) => i = cache[s],
         Singleton(reg[s]) /\ cache[s] # 0 => Listed(chores', ACall(cache[s])) \/ cache[s] \in dropped',
         \A z \in Service : Listed(chores', Chore("put", Root, z)) => z = s /\ x # NoReg /\ given'[x.id] # 0,
         \A c \in AllScopes : ~Listed(chores', Chore("release", c, 0))
  PROVE  RegistryBooks'
<1>1. Shapes /\ Numbers /\ Stacks /\ Places /\ HandedOut /\ Fates /\ Ending
  BY DEF RegistryBooks
<1>2. UNCHANGED <<scopes, open, held, closers, down, stack, stored, late, handed, disposed>>
  BY DEF containers
<1>3. regs \in Nat /\ regs <= MaxRegs /\ regs' \in Nat /\ regs <= regs' /\ regs' <= MaxRegs
  BY <1>1 DEF Shapes, RegistryAssumption
<1>4. reg'[s] = x /\ \A z \in Service \ {s} : reg'[z] = reg[z]
  BY <1>1 DEF Shapes
<1>5. cache'[s] = 0 /\ \A z \in Service \ {s} : cache'[z] = cache[z]
  BY <1>1 DEF Shapes
<1>6. stored \subseteq 1..Len(made) /\ handed \subseteq 1..Len(made)
  BY <1>1 DEF Shapes
<1>7. \A i \in 1..Len(made) : /\ i \in 1..Len(made') /\ made'[i] = made[i] /\ made[i].reg <= regs
                              /\ made[i].reg \in 1..regs /\ given'[made[i].reg] = given[made[i].reg]
                              /\ i \in Instance
  <2> SUFFICES ASSUME NEW i \in 1..Len(made)
               PROVE  /\ made[i].reg <= regs /\ made[i].reg \in 1..regs /\ i \in Instance
    OBVIOUS
  <2>1. PICK p : p = made
    OBVIOUS
  <2>2. p[i] \in [service : Service, reg : 1..MaxRegs]
    BY <1>1, <2>1, ElementOfSeq DEF Shapes
  <2>3. made[i].reg \in 1..MaxRegs /\ made[i].reg <= regs
    BY <1>1, <2>1, <2>2 DEF Numbers
  <2>4. i \in Instance
    <3>1. Len(p) \in Nat /\ Len(p) <= MaxInstances /\ MaxInstances \in Nat
      BY <1>1, <2>1, LenProperties DEF Shapes, RegistryAssumption
    <3> QED
      BY <2>1, <3>1 DEF Instance
  <2> QED
    BY <1>3, <2>3, <2>4
<1>8. \A i \in 1..Len(made) : made[i].reg # reg'[s].id
  BY <1>3, <1>4, <1>7, RegTypes
<1>9. Shapes'
  <2>1. reg' \in [Service -> Reg \union {NoReg}]
    BY <1>1 DEF Shapes
  <2>2. cache' \in [Service -> 0..MaxInstances] /\ callbacks' = cache'
    BY <1>1 DEF Shapes, RegistryAssumption
  <2>3. dropped' \subseteq stored
    BY <1>1 DEF Shapes, Places, CacheAgrees
  <2>4. stored \subseteq 1..Len(made') /\ handed \subseteq 1..Len(made')
    BY <1>6, <1>7
  <2>5. regs' \in 0..MaxRegs
    BY <1>3 DEF RegistryAssumption
  <2> HIDE <1>7, <1>8
  <2> QED
    BY <1>1, <1>2, <2>1, <2>2, <2>3, <2>4, <2>5 DEF Shapes
<1>10. Stacks'
  <2>1. Grows
    <3>1. \A z \in Service : reg'[z] \in {reg[z], NoReg} \/ reg'[z].id > regs
      BY <1>3, <1>4
    <3> QED
      BY <1>3, <3>1 DEF Grows
  <2>2. ASSUME NEW u \in Thread, At(u, "store"), given[Top(u).reg.id] = 0
        PROVE  Top(u).instance \notin stored' \union handed'
    BY <1>1, <1>2, <2>2, Fresh
  <2> QED
    BY <1>1, <1>2, <2>1, <2>2, StacksStay
<1>11. Places'
  <2>1. ASSUME NEW z \in Service PROVE CacheAgrees(z)'
    <3>1. CASE z = s
      BY <1>5, <3>1 DEF CacheAgrees
    <3>2. CASE z # s
      <4>1. CacheAgrees(z) /\ cache'[z] = cache[z] /\ reg'[z] = reg[z]
        BY <1>1, <1>4, <1>5, <3>2 DEF Places
      <4> QED
        BY <1>2, <1>6, <1>7, <4>1 DEF CacheAgrees
    <3> QED
      BY <3>1, <3>2
  <2>2. ASSUME NEW z \in Service PROVE GivenAgrees(z)'
    <3>1. CASE z = s
      BY <1>2, <1>4, <3>1 DEF GivenAgrees
    <3>2. CASE z # s
      <4>1. GivenAgrees(z) /\ cache'[z] = cache[z] /\ reg'[z] = reg[z]
        BY <1>1, <1>4, <1>5, <3>2 DEF Places
      <4>2. reg[z] # NoReg => reg[z].id \in 1..regs
        BY <1>1, <1>3, RegTypes DEF Shapes, Numbers
      <4> QED
        BY <1>2, <4>1, <4>2 DEF GivenAgrees
    <3> QED
      BY <3>1, <3>2
  <2>3. ASSUME NEW c \in AllScopes, NEW z \in Service PROVE HeldAgrees(c, z)'
    <3>1. HeldAgrees(c, z)
      BY <1>1 DEF Places
    <3>2. CASE held[c][z] = 0
      BY <1>2, <3>2 DEF HeldAgrees
    <3>3. CASE held[c][z] # 0
      <4>1. PICK i : i = held[c][z]
        OBVIOUS
      <4>2. /\ i \in stored /\ i \in 1..Len(made) /\ made'[i] = made[i] /\ given'[made[i].reg] = given[made[i].reg]
        BY <1>6, <1>7, <3>1, <3>3, <4>1 DEF HeldAgrees
      <4>3. i # cache'[z]
        BY <1>5, <3>1, <3>3, <4>1 DEF HeldAgrees
      <4>4. ASSUME NEW y \in Service, made[i].reg = reg'[y].id PROVE Scoped(reg'[y])
        <5>1. y # s
          BY <1>8, <4>2, <4>4
        <5> QED
          BY <1>4, <3>1, <3>3, <4>1, <4>4, <5>1 DEF HeldAgrees
      <4> QED
        BY <1>2, <3>1, <3>3, <4>1, <4>2, <4>3, <4>4 DEF HeldAgrees
    <3> QED
      BY <3>2, <3>3
  <2> QED
    BY <2>1, <2>2, <2>3 DEF Places
<1>12. HandedOut'
  <2> SUFFICES ASSUME NEW z \in Service, NEW i \in handed, Singleton(reg'[z]), made'[i].reg = reg'[z].id
               PROVE  cache'[z] = i \/ given'[reg'[z].id] = i
    BY <1>2 DEF HandedOut
  <2>1. z # s /\ i \in 1..Len(made) /\ made'[i] = made[i]
    BY <1>6, <1>7, <1>8
  <2>2. reg'[z] = reg[z] /\ cache'[z] = cache[z] /\ given'[made[i].reg] = given[made[i].reg]
    BY <1>4, <1>5, <1>7, <2>1
  <2> QED
    BY <1>1, <2>1, <2>2 DEF HandedOut
<1>13. Fates'
  <2>1. ASSUME NEW i \in Instance, i \notin stored PROVE disposed[i] = 0 /\ ~IsDue(i)'
    <3>1. cache[s] # 0 => cache[s] \in stored
      BY <1>1 DEF Places, CacheAgrees
    <3>2. i # 0
      BY DEF Instance
    <3> QED
      BY <1>1, <2>1, <3>1, <3>2 DEF Fates, IsDue, ACall, Chore
  <2>2. ASSUME NEW i \in Live' PROVE Fate(i)'
    <3>1. i \in Live /\ i \in stored /\ i \notin late /\ i \notin dropped' /\ i \in Instance /\ i # 0
      BY <1>2, <1>6, <1>7, <2>2 DEF Live
    <3>2. Fate(i) /\ ~IsDue(i)
      BY <1>1, <3>1 DEF Fates, MainIdle, IsDue, Listed
    <3>3. Once(chores, ACall(i))'
      BY DEF Once, ACall, Chore
    <3>4. CASE i = cache[s]
      <4>1. Singleton(reg[s]) /\ made[i].service = s
        BY <1>1, <3>1, <3>4 DEF Places, CacheAgrees
      <4>2. IsDue(i)'
        BY <3>1, <3>4, <4>1 DEF IsDue, ACall, Chore
      <4>3. ~IsCached(i)'
        <5>1. ASSUME NEW z \in Service, cache'[z] = i PROVE FALSE
          BY <1>1, <1>5, <3>1, <4>1, <5>1 DEF Places, CacheAgrees
        <5>2. ASSUME NEW c \in AllScopes, NEW z \in Service, held[c][z] = i PROVE FALSE
          <6>1. HeldAgrees(c, z)
            BY <1>1 DEF Places
          <6> QED
            BY <3>1, <3>4, <4>1, <5>2, <6>1 DEF HeldAgrees
        <5> QED
          BY <1>2, <5>1, <5>2 DEF IsCached
      <4>4. disposed[i] = 0
        BY <3>2, <3>4 DEF Fate, IsCached
      <4> QED
        BY <1>2, <3>3, <4>2, <4>3, <4>4 DEF Fate
    <3>5. CASE i # cache[s]
      <4>1. ~IsDue(i)'
        BY <3>1, <3>5 DEF IsDue, ACall, Chore
      <4>2. IsCached(i)' <=> IsCached(i)
        BY <1>2, <1>5, <3>1, <3>5 DEF IsCached
      <4> QED
        BY <1>2, <3>2, <3>3, <4>1, <4>2, FateStays
    <3> QED
      BY <3>4, <3>5
  <2> QED
    BY <1>2, <2>1, <2>2 DEF Fates
<1>14. Ending'
  <2>1. \A c \in scopes : c \in open
    BY <1>1 DEF Ending, MainIdle, Listed
  <2>2. open \subseteq AllScopes
    BY <1>1 DEF Shapes, AllScopes
  <2>3. ASSUME NEW z \in Service, Listed(chores', Chore("put", Root, z))
        PROVE  reg'[z] # NoReg /\ given'[reg'[z].id] # 0
    BY <1>4, <2>3
  <2> QED
    BY <1>2, <2>1, <2>2, <2>3 DEF Ending
<1> QED
  BY <1>9, <1>10, <1>11, <1>12, <1>13, <1>14 DEF RegistryBooks

\* Numbers when a service is registered, or no longer, and no instance is given
LEMMA Renumbered ==
  ASSUME RegistryAssumption, Shapes, Numbers, NEW s \in Service, NEW x \in Reg \union {NoReg},
         reg' = [reg EXCEPT ![s] = x], regs' = IF x = NoReg THEN regs ELSE regs + 1,
         x # NoReg => x.id = regs + 1 /\ regs < MaxRegs /\ [lifetime |-> x.lifetime, deps |-> x.deps] \in Offers[s],
         UNCHANGED <<given, made>>
  PROVE  Numbers' /\ (x # NoReg => given'[regs + 1] = 0)
<1>1. regs \in Nat /\ regs' \in Nat /\ regs <= regs' /\ MaxRegs \in Nat
  BY DEF Shapes, RegistryAssumption
<1>2. reg'[s] = x /\ \A z \in Service \ {s} : reg'[z] = reg[z]
  BY DEF Shapes
<1>3. \A z \in Service : reg[z].id <= regs
  BY DEF Numbers
<1>4. (x = NoReg /\ x.id = 0) \/ (x # NoReg /\ x.id = regs + 1 /\ regs' = regs + 1)
  BY RegTypes
<1>5. \A r \in 1..MaxRegs : given[r] # 0 => r <= regs
  BY DEF Numbers
<1>6. ASSUME NEW z \in Service PROVE reg'[z].id <= regs'
  <2>1. CASE z = s
    BY <1>1, <1>2, <1>4, <2>1
  <2>2. CASE z # s
    <3>1. reg[z] \in Reg \union {NoReg}
      BY DEF Shapes
    <3>2. reg[z].id \in Int
      BY <1>1, <3>1, RegTypes
    <3> QED
      BY <1>1, <1>2, <1>3, <2>2, <3>2
  <2> QED
    BY <2>1, <2>2
<1>7. \A z \in Service : reg'[z] # NoReg =>
        [lifetime |-> reg'[z].lifetime, deps |-> reg'[z].deps] \in Offers[z] \/ given[reg'[z].id] # 0
  BY <1>2 DEF Numbers
<1>8. \A y, z \in Service : reg'[y].id = reg'[z].id /\ reg'[y].id # 0 => y = z
  <2> SUFFICES ASSUME NEW y \in Service, NEW z \in Service, reg'[y].id = reg'[z].id, reg'[y].id # 0, y # z
               PROVE  FALSE
    OBVIOUS
  <2>1. CASE y # s /\ z # s
    BY <1>2, <2>1 DEF Numbers
  <2>2. CASE y = s
    BY <1>1, <1>2, <1>3, <1>4, <2>2
  <2>3. CASE z = s
    BY <1>1, <1>2, <1>3, <1>4, <2>3
  <2> QED
    BY <2>1, <2>2, <2>3
<1>9. \A i \in 1..Len(made) : made[i].reg <= regs /\ made[i].reg <= regs' /\ made[i].reg \in 1..MaxRegs
  <2> SUFFICES ASSUME NEW i \in 1..Len(made)
               PROVE  made[i].reg <= regs /\ made[i].reg <= regs' /\ made[i].reg \in 1..MaxRegs
    OBVIOUS
  <2>1. PICK p : p = made
    OBVIOUS
  <2>2. p[i] \in [service : Service, reg : 1..MaxRegs]
    BY <2>1, ElementOfSeq DEF Shapes
  <2>3. made[i].reg \in 1..MaxRegs /\ made[i].reg <= regs
    BY <2>1, <2>2 DEF Numbers
  <2> QED
    BY <1>1, <2>3
<1>10. \A i \in 1..Len(made) : made[i].reg # x.id
  BY <1>1, <1>4, <1>9
<1>11. \A z \in Service, i \in 1..Len(made) : made[i].reg = reg'[z].id => made[i].service = z
  BY <1>2, <1>10 DEF Numbers
<1>12. ASSUME NEW r \in 1..MaxRegs, given[r] # 0
       PROVE  /\ r <= regs' /\ given[r] \in 1..Len(made) /\ made[given[r]].reg = r
              /\ \A i \in 1..Len(made) : made[i].reg = r => i = given[r]
              /\ \A z \in Service : reg'[z].id = r => Singleton(reg'[z]) /\ reg'[z].deps = <<>>
  <2>1. x.id # r /\ r <= regs'
    BY <1>1, <1>4, <1>5, <1>12
  <2>2. \A z \in Service : reg'[z].id = r => Singleton(reg'[z]) /\ reg'[z].deps = <<>>
    BY <1>2, <1>12, <2>1 DEF Numbers
  <2> QED
    BY <1>12, <2>1, <2>2 DEF Numbers
<1>13. Numbers'
  BY <1>6, <1>7, <1>8, <1>9, <1>11, <1>12 DEF Numbers
<1>14. x # NoReg => given'[regs + 1] = 0
  <2>1. x # NoReg => regs + 1 \in 1..MaxRegs /\ ~(regs + 1 <= regs)
    BY <1>1
  <2> QED
    BY <1>5, <2>1
<1> QED
  BY <1>13, <1>14

LEMMA RegisterKeeps ==
  ASSUME RegistryAssumption, RegistryBooks, NEW s \in Service, NEW offer \in Offers[s], Register(s, offer)
  PROVE  RegistryBooks'
<1>1. Shapes /\ Numbers /\ Places
  BY DEF RegistryBooks
<1>2. /\ MainIdle /\ ~down /\ regs < MaxRegs /\ regs' = regs + 1
      /\ cache' = [cache EXCEPT ![s] = 0] /\ callbacks' = [callbacks EXCEPT ![s] = 0]
      /\ chores' = IF Registered(s) THEN Purge(s) ELSE <<>>
      /\ UNCHANGED <<containers, stack, made, stored, late, dropped, handed, disposed, given>>
  BY DEF Register, Enter, history
<1>3. offer.lifetime \in Lifetime /\ offer.deps \in Seq(Service)
      /\ [lifetime |-> offer.lifetime, deps |-> offer.deps] \in Offers[s]
  <2>1. offer \in [lifetime : Lifetime, deps : Seq(Service)]
    BY DEF RegistryAssumption
  <2>2. offer = [lifetime |-> offer.lifetime, deps |-> offer.deps]
    BY <2>1
  <2> QED
    BY <2>1, <2>2
<1>4. PICK x : x = [id |-> regs + 1, lifetime |-> offer.lifetime, deps |-> offer.deps]
  OBVIOUS
<1>5. regs \in Nat /\ MaxRegs \in Nat /\ regs + 1 \in 1..MaxRegs
  BY <1>1, <1>2 DEF Shapes, RegistryAssumption
<1>6. x \in Reg
  BY <1>3, <1>4, <1>5 DEF Reg
<1>7. x.id = regs + 1 /\ x.lifetime = offer.lifetime /\ x.deps = offer.deps /\ x # NoReg
  BY <1>4, <1>6, RegTypes
<1>8. reg' = [reg EXCEPT ![s] = x]
  BY <1>4 DEF Register, Enter
<1>9. [lifetime |-> x.lifetime, deps |-> x.deps] \in Offers[s]
  BY <1>3, <1>7
<1>10. Numbers' /\ given'[regs + 1] = 0
  BY <1>1, <1>2, <1>6, <1>7, <1>8, <1>9, Renumbered
<1>11. PICK q : q = chores'
  OBVIOUS
<1>12. /\ q \in Seq(AChore)
       /\ \A y : Listed(q, y) => (y = ACall(cache[s]) /\ cache[s] # 0) \/ y.do = "drop"
       /\ Singleton(reg[s]) /\ cache[s] # 0 => Listed(q, ACall(cache[s]))
       /\ \A i : Once(q, ACall(i))
  BY <1>1, <1>2, <1>11, PurgeLists
<1>13. \A i \in Instance : Listed(q, ACall(i)) => i = cache[s]
  BY <1>12, Chores
<1>14. /\ \A z \in Service : ~Listed(q, Chore("put", Root, z))
       /\ \A c \in AllScopes : ~Listed(q, Chore("release", c, 0))
  BY <1>12, Chores, ChoreFields
<1>15. 0 \notin stored /\ given \in [1..MaxRegs -> 0..MaxInstances] /\ Len(made) <= MaxInstances
       /\ made \in Seq([service : Service, reg : 1..MaxRegs])
  BY <1>1 DEF Shapes
<1>16. UNCHANGED <<containers, stack, stored, late, handed, disposed>>
  BY <1>2
<1> QED
  BY <1>2, <1>6, <1>7, <1>8, <1>10, <1>11, <1>12, <1>13, <1>14, <1>15, <1>16, Enters

LEMMA Leaves ==
  ASSUME RegistryAssumption, RegistryBooks, NEW s \in Service, MainIdle, ~down, reg' = [reg EXCEPT ![s] = NoReg],
         cache' = [cache EXCEPT ![s] = 0], callbacks' = [callbacks EXCEPT ![s] = 0],
         UNCHANGED <<regs, given, containers, stack, made, stored, late, handed, disposed>>,
         dropped \subseteq dropped', dropped' \subseteq dropped \union ({cache[s]} \ {0}),
         chores' \in Seq(AChore), \A i : Once(chores', ACall(i)),
         \A i \in Instance : Listed(chores', ACall(i)) => i = cache[s],
         Singleton(reg[s]) /\ cache[s] # 0 => Listed(chores', ACall(cache[s])) \/ cache[s] \in dropped',
         \A z \in Service : ~Listed(chores', Chore("put", Root, z)),
         \A c \in AllScopes : ~Listed(chores', Chore("release", c, 0))
  PROVE  RegistryBooks'
<1>1. Shapes /\ Numbers
  BY DEF RegistryBooks
<1>2. PICK x \in Reg \union {NoReg} : x = NoReg
  OBVIOUS
<1>3. reg' = [reg EXCEPT ![s] = x]
  BY <1>2
<1>4. Numbers'
  BY <1>1, <1>2, <1>3, Renumbered
<1>5. given \in [1..MaxRegs -> 0..MaxInstances] /\ Len(made) <= MaxInstances
      /\ made \in Seq([service : Service, reg : 1..MaxRegs])
  BY <1>1 DEF Shapes
<1> QED
  BY <1>2, <1>3, <1>4, <1>5, Enters

LEMMA ReplaceRaisesKeeps ==
  ASSUME RegistryAssumption, RegistryBooks, NEW s \in Service, ReplaceRaises(s)
  PROVE  RegistryBooks'
<1>1. Shapes /\ Places
  BY DEF RegistryBooks
<1>2. /\ MainIdle /\ ~down /\ reg' = [reg EXCEPT ![s] = NoReg]
      /\ cache' = [cache EXCEPT ![s] = 0] /\ callbacks' = [callbacks EXCEPT ![s] = 0]
      /\ dropped' = dropped \union ({cache[s]} \ {0}) /\ UNCHANGED chores
      /\ UNCHANGED <<regs, given, containers, stack, made, stored, late, handed, disposed>>
  BY DEF ReplaceRaises
<1>3. chores' = <<>>
  BY <1>2 DEF MainIdle
<1>4. PICK q : q = chores'
  OBVIOUS
<1>5. q \in Seq(AChore) /\ \A x : ~Listed(q, x) /\ Once(q, x)
  <2>1. <<>> \in Seq(AChore)
    OBVIOUS
  <2> QED
    BY <1>3, <1>4, <2>1, NoneListed, Zenon
<1> QED
  BY <1>2, <1>4, <1>5, Leaves

LEMMA UnregisterKeeps ==
  ASSUME RegistryAssumption, RegistryBooks, NEW s \in Service, NEW dispose \in BOOLEAN, Unregister(s, dispose)
  PROVE  RegistryBooks'
<1>1. Shapes /\ Places
  BY DEF RegistryBooks
<1>2. /\ MainIdle /\ ~down /\ reg' = [reg EXCEPT ![s] = NoReg] /\ Registered(s)
      /\ cache' = [cache EXCEPT ![s] = 0] /\ callbacks' = [callbacks EXCEPT ![s] = 0]
      /\ chores' = IF dispose THEN Purge(s) ELSE <<>>
      /\ dropped' = IF dispose THEN dropped ELSE dropped \union ({cache[s]} \ {0})
      /\ UNCHANGED <<regs, given, containers, stack, made, stored, late, handed, disposed>>
  BY DEF Unregister
<1>3. PICK q : q = chores'
  OBVIOUS
<1>4. CASE dispose
  <2>1. /\ q \in Seq(AChore)
        /\ \A y : Listed(q, y) => (y = ACall(cache[s]) /\ cache[s] # 0) \/ y.do = "drop"
        /\ Singleton(reg[s]) /\ cache[s] # 0 => Listed(q, ACall(cache[s]))
        /\ \A i : Once(q, ACall(i))
    BY <1>1, <1>2, <1>3, <1>4, PurgeLists
  <2>2. \A i \in Instance : Listed(q, ACall(i)) => i = cache[s]
    BY <2>1, Chores
  <2>3. /\ \A z \in Service : ~Listed(q, Chore("put", Root, z))
        /\ \A c \in AllScopes : ~Listed(q, Chore("release", c, 0))
    BY <2>1, Chores, ChoreFields
  <2> QED
    BY <1>2, <1>3, <1>4, <2>1, <2>2, <2>3, Leaves
<1>5. CASE ~dispose
  <2>1. q \in Seq(AChore) /\ \A x : ~Listed(q, x) /\ Once(q, x)
    <3>1. <<>> \in Seq(AChore) /\ q = <<>>
      BY <1>2, <1>3, <1>5
    <3> QED
      BY <3>1, NoneListed, Zenon
  <2> QED
    BY <1>2, <1>3, <1>5, <2>1, Leaves
<1> QED
  BY <1>4, <1>5

LEMMA RegisterInstanceKeeps ==
  ASSUME RegistryAssumption, RegistryBooks, NEW s \in Service, RegisterInstance(s)
  PROVE  RegistryBooks'
<1>1. Shapes /\ Numbers /\ Places
  BY DEF RegistryBooks
<1>2. /\ MainIdle /\ ~down /\ regs < MaxRegs /\ regs' = regs + 1 /\ Len(made) < MaxInstances
      /\ cache' = [cache EXCEPT ![s] = 0] /\ callbacks' = [callbacks EXCEPT ![s] = 0]
      /\ UNCHANGED <<containers, stack, stored, late, handed, disposed, dropped>>
  BY DEF RegisterInstance, Enter
<1>3. PICK r : r = regs + 1
  OBVIOUS
<1>4. regs \in Nat /\ MaxRegs \in Nat /\ r \in 1..MaxRegs /\ r = regs + 1 /\ MaxInstances \in Nat /\ ~(r <= regs)
  BY <1>1, <1>2, <1>3 DEF Shapes, RegistryAssumption
<1>5. PICK x : x = [id |-> r, lifetime |-> "singleton", deps |-> <<>>]
  OBVIOUS
<1>6. x \in Reg
  BY <1>4, <1>5 DEF Reg, Lifetime
<1>7. x.id = r /\ Singleton(x) /\ x.deps = <<>> /\ x # NoReg
  BY <1>5, <1>6, RegTypes DEF Singleton
<1>8. reg' = [reg EXCEPT ![s] = x]
  BY <1>3, <1>5 DEF RegisterInstance, Enter
<1>9. PICK n : n = Len(made) + 1
  OBVIOUS
<1>10. PICK m : m = [service |-> s, reg |-> r]
  OBVIOUS
<1>11. m \in [service : Service, reg : 1..MaxRegs] /\ m.service = s /\ m.reg = r
  BY <1>4, <1>10
<1>12. /\ Len(made) \in Nat /\ Len(made') = n /\ made'[n] = m
       /\ \A i \in 1..Len(made) : made'[i] = made[i]
       /\ made' \in Seq([service : Service, reg : 1..MaxRegs]) /\ Len(made') <= MaxInstances
       /\ n \in 1..MaxInstances
  <2>1. made' = Append(made, m)
    BY <1>3, <1>10 DEF RegisterInstance
  <2> QED
    BY <1>1, <1>2, <1>9, <1>11, <2>1, MadeOne
<1>13. \A i \in 1..n : i = n \/ i \in 1..Len(made)
  BY <1>9, <1>12
<1>14. given' = [given EXCEPT ![r] = n]
  BY <1>3, <1>9 DEF RegisterInstance
<1>15. /\ given \in [1..MaxRegs -> 0..MaxInstances] /\ given' \in [1..MaxRegs -> 0..MaxInstances] /\ given'[r] = n
       /\ \A y \in 1..MaxRegs : y # r => given'[y] = given[y]
  <2>1. given \in [1..MaxRegs -> 0..MaxInstances]
    BY <1>1 DEF Shapes
  <2>2. n \in 0..MaxInstances
    BY <1>12
  <2> QED
    BY <1>4, <1>14, <2>1, <2>2
<1>16. \A y \in 1..regs : y \in 1..MaxRegs /\ y # r
  BY <1>4
<1>17. reg'[s] = x /\ \A z \in Service \ {s} : reg'[z] = reg[z]
  BY <1>1, <1>8 DEF Shapes
<1>18. n \notin stored
  <2>1. n \notin 1..Len(made)
    BY <1>9, <1>12
  <2> QED
    BY <1>1, <2>1 DEF Shapes
<1>19. \A i \in 1..Len(made) : made[i].reg # r /\ made[i].reg <= regs'
  <2> SUFFICES ASSUME NEW i \in 1..Len(made) PROVE made[i].reg # r /\ made[i].reg <= regs'
    OBVIOUS
  <2>1. PICK p : p = made
    OBVIOUS
  <2>2. p[i] \in [service : Service, reg : 1..MaxRegs]
    BY <1>1, <2>1, ElementOfSeq DEF Shapes
  <2>3. made[i].reg \in 1..MaxRegs /\ made[i].reg <= regs
    BY <1>1, <2>1, <2>2 DEF Numbers
  <2> QED
    BY <1>2, <1>4, <2>3
<1>20. \A z \in Service : reg[z] \in Reg \union {NoReg} /\ reg[z].id \in Int /\ reg[z].id <= regs /\ reg[z].id # r
  <2> SUFFICES ASSUME NEW z \in Service
               PROVE  reg[z] \in Reg \union {NoReg} /\ reg[z].id \in Int /\ reg[z].id <= regs /\ reg[z].id # r
    OBVIOUS
  <2>1. reg[z] \in Reg \union {NoReg} /\ reg[z].id <= regs
    BY <1>1 DEF Shapes, Numbers
  <2>2. reg[z].id \in Int
    BY <1>4, <2>1, RegTypes
  <2> QED
    BY <1>4, <2>1, <2>2
<1>21. Numbers'
  <2>1. ASSUME NEW z \in Service PROVE reg'[z].id <= regs'
    <3>1. CASE z = s
      BY <1>2, <1>4, <1>7, <1>17, <3>1
    <3>2. CASE z # s
      BY <1>2, <1>4, <1>17, <1>20, <3>2
    <3> QED
      BY <3>1, <3>2
  <2>2. ASSUME NEW z \in Service, reg'[z] # NoReg
        PROVE  [lifetime |-> reg'[z].lifetime, deps |-> reg'[z].deps] \in Offers[z] \/ given'[reg'[z].id] # 0
    <3>1. CASE z = s
      BY <1>7, <1>12, <1>15, <1>17, <3>1
    <3>2. CASE z # s
      <4>1. reg'[z] = reg[z] /\ reg[z] \in Reg /\ reg[z].id \in 1..MaxRegs /\ reg[z].id # r
        BY <1>17, <1>20, <2>2, <3>2, RegTypes
      <4> QED
        BY <1>1, <1>15, <2>2, <4>1 DEF Numbers
    <3> QED
      BY <3>1, <3>2
  <2>3. ASSUME NEW y \in Service, NEW z \in Service, reg'[y].id = reg'[z].id, reg'[y].id # 0 PROVE y = z
    <3>1. CASE y # s /\ z # s
      BY <1>1, <1>17, <2>3, <3>1 DEF Numbers
    <3>2. CASE y = s
      BY <1>7, <1>17, <1>20, <2>3, <3>2
    <3>3. CASE z = s
      BY <1>7, <1>17, <1>20, <2>3, <3>3
    <3> QED
      BY <3>1, <3>2, <3>3
  <2>4. ASSUME NEW i \in 1..Len(made') PROVE made'[i].reg <= regs'
    BY <1>2, <1>4, <1>11, <1>12, <1>13, <1>19
  <2>5. ASSUME NEW z \in Service, NEW i \in 1..Len(made'), made'[i].reg = reg'[z].id PROVE made'[i].service = z
    <3>1. CASE i = n
      <4>1. z = s
        BY <1>11, <1>12, <1>17, <1>20, <2>5, <3>1
      <4> QED
        BY <1>11, <1>12, <3>1, <4>1
    <3>2. CASE i # n
      <4>1. i \in 1..Len(made) /\ made'[i] = made[i]
        BY <1>12, <1>13, <3>2
      <4>2. z # s
        BY <1>7, <1>17, <1>19, <2>5, <4>1
      <4> QED
        BY <1>1, <1>17, <2>5, <4>1, <4>2 DEF Numbers
    <3> QED
      BY <3>1, <3>2
  <2>6. ASSUME NEW y \in 1..MaxRegs, given'[y] # 0
        PROVE  /\ y <= regs' /\ given'[y] \in 1..Len(made') /\ made'[given'[y]].reg = y
               /\ \A i \in 1..Len(made') : made'[i].reg = y => i = given'[y]
               /\ \A z \in Service : reg'[z].id = y => Singleton(reg'[z]) /\ reg'[z].deps = <<>>
    <3>1. CASE y = r
      <4>1. y <= regs' /\ given'[y] = n /\ n \in 1..Len(made') /\ made'[n].reg = y
        BY <1>2, <1>4, <1>11, <1>12, <1>15, <3>1
      <4>2. \A i \in 1..Len(made') : made'[i].reg = y => i = n
        BY <1>12, <1>13, <1>19, <3>1
      <4>3. \A z \in Service : reg'[z].id = y => z = s
        BY <1>17, <1>20, <3>1
      <4> QED
        BY <1>7, <1>17, <4>1, <4>2, <4>3
    <3>2. CASE y # r
      <4>1. given'[y] = given[y] /\ given[y] # 0
        BY <1>15, <2>6, <3>2
      <4>2. /\ y <= regs /\ given[y] \in 1..Len(made) /\ made[given[y]].reg = y
            /\ \A i \in 1..Len(made) : made[i].reg = y => i = given[y]
            /\ \A z \in Service : reg[z].id = y => Singleton(reg[z]) /\ reg[z].deps = <<>>
        BY <1>1, <4>1 DEF Numbers
      <4>3. y <= regs' /\ given[y] \in 1..Len(made') /\ made'[given[y]].reg = y
        BY <1>2, <1>4, <1>9, <1>12, <4>2
      <4>4. \A i \in 1..Len(made') : made'[i].reg = y => i = given[y]
        BY <1>11, <1>12, <1>13, <3>2, <4>2
      <4>5. \A z \in Service : reg'[z].id = y => Singleton(reg'[z]) /\ reg'[z].deps = <<>>
        BY <1>7, <1>17, <3>2, <4>2
      <4> QED
        BY <4>1, <4>3, <4>4, <4>5
    <3> QED
      BY <3>1, <3>2
  <2> QED
    BY <2>1, <2>2, <2>3, <2>4, <2>5, <2>6 DEF Numbers
<1>22. PICK p : p = IF Registered(s) THEN Purge(s) ELSE <<>>
  OBVIOUS
<1>23. /\ p \in Seq(AChore)
       /\ \A y : Listed(p, y) => (y = ACall(cache[s]) /\ cache[s] # 0) \/ y.do = "drop"
       /\ Singleton(reg[s]) /\ cache[s] # 0 => Listed(p, ACall(cache[s]))
       /\ \A i : Once(p, ACall(i))
  BY <1>1, <1>22, PurgeLists
<1>24. PICK o : o = <<Chore("put", Root, s)>>
  OBVIOUS
<1>25. o \in Seq(AChore) /\ (\A y : Listed(o, y) <=> y = Chore("put", Root, s)) /\ (\A y : Once(o, y))
  <2>1. Chore("put", Root, s) \in AChore
    BY Chores
  <2> QED
    BY <1>24, <2>1, OneListed
<1>26. PICK q : q = p \o o
  OBVIOUS
<1>27. /\ q \in Seq(AChore) /\ \A y : Listed(q, y) <=> Listed(p, y) \/ Listed(o, y)
       /\ \A y : Once(p, y) /\ Once(o, y) /\ ~(Listed(p, y) /\ Listed(o, y)) => Once(q, y)
  <2>1. /\ p \o o \in Seq(AChore) /\ \A y : Listed(p \o o, y) <=> Listed(p, y) \/ Listed(o, y)
        /\ \A y : Once(p, y) /\ Once(o, y) /\ ~(Listed(p, y) /\ Listed(o, y)) => Once(p \o o, y)
    BY <1>23, <1>25, ListedInJoin
  <2> QED
    BY <1>26, <2>1
<1>28. chores' = q
  BY <1>22, <1>24, <1>26 DEF RegisterInstance
<1>29. \A y : Listed(q, y) => (y = ACall(cache[s]) /\ cache[s] # 0) \/ y.do = "drop" \/ y = Chore("put", Root, s)
  BY <1>23, <1>25, <1>27
<1>30. /\ \A i \in Instance : Listed(q, ACall(i)) => i = cache[s]
       /\ \A c \in AllScopes : ~Listed(q, Chore("release", c, 0))
       /\ \A z \in Service : Listed(q, Chore("put", Root, z)) => z = s
  BY <1>29, Chores, ChoreFields
<1>31. \A i : Once(q, ACall(i))
  <2>1. \A i : ~Listed(o, ACall(i))
    BY <1>25, Chores, ChoreFields
  <2> QED
    BY <1>23, <1>25, <1>27, <2>1
<1>32. \A i \in 1..Len(made) : i \in 1..Len(made')
  BY <1>9, <1>12
<1>33. given'[x.id] # 0
  BY <1>7, <1>12, <1>15
<1>34. Singleton(reg[s]) /\ cache[s] # 0 => Listed(q, ACall(cache[s]))
  BY <1>23, <1>27
<1>35. /\ regs' = IF x = NoReg THEN regs ELSE regs + 1
       /\ x # NoReg => x.id = regs + 1 /\ regs < MaxRegs /\ given'[regs + 1] \notin stored
  BY <1>2, <1>3, <1>7, <1>15, <1>18
<1>36. \A y \in 1..regs : given'[y] = given[y]
  BY <1>15, <1>16
<1>37. \A i \in 1..Len(made) : i \in 1..Len(made') /\ made'[i] = made[i]
  BY <1>12, <1>32
<1>38. /\ chores' \in Seq(AChore) /\ \A i : Once(chores', ACall(i))
       /\ \A i \in Instance : Listed(chores', ACall(i)) => i = cache[s]
       /\ Singleton(reg[s]) /\ cache[s] # 0 => Listed(chores', ACall(cache[s])) \/ cache[s] \in dropped'
       /\ \A z \in Service : Listed(chores', Chore("put", Root, z)) => z = s /\ x # NoReg /\ given'[x.id] # 0
       /\ \A d \in AllScopes : ~Listed(chores', Chore("release", d, 0))
  BY <1>7, <1>27, <1>28, <1>30, <1>31, <1>33, <1>34
<1>39. UNCHANGED <<containers, stack, stored, late, handed, disposed>> /\ dropped' = dropped
  BY <1>2
<1>40. /\ given' \in [1..MaxRegs -> 0..MaxInstances] /\ Len(made') <= MaxInstances
       /\ made' \in Seq([service : Service, reg : 1..MaxRegs])
  BY <1>12, <1>15
<1> HIDE <1>12, <1>13, <1>15, <1>16, <1>17, <1>19, <1>20, <1>23, <1>25, <1>27, <1>29, <1>30, <1>31
<1>41. MainIdle /\ ~down /\ cache' = [cache EXCEPT ![s] = 0] /\ callbacks' = [callbacks EXCEPT ![s] = 0]
  BY <1>2
<1> QED
  BY <1>6, <1>8, <1>21, <1>35, <1>36, <1>37, <1>38, <1>39, <1>40, <1>41, Enters

LEMMA CreateScopeKeeps ==
  ASSUME RegistryAssumption, RegistryBooks, NEW c \in Scope, CreateScope(c)
  PROVE  RegistryBooks'
<1>1. Shapes /\ Numbers /\ Stacks /\ Places /\ HandedOut /\ Fates /\ Ending
  BY DEF RegistryBooks
<1>2. /\ MainIdle /\ ~down /\ open' = open \union {c} /\ scopes' = scopes \union {c}
      /\ UNCHANGED <<reg, regs, given, cache, callbacks, held, closers, down, chores, stack>>
      /\ UNCHANGED <<made, stored, late, dropped, handed, disposed>>
  BY DEF CreateScope, tables, history
<1>3. Shapes'
  BY <1>1, <1>2 DEF Shapes
<1>4. Stacks'
  <2>1. Grows
    BY <1>1, <1>2, GrowsWhenSame
  <2>2. ASSUME NEW u \in Thread, At(u, "store"), given[Top(u).reg.id] = 0
        PROVE  Top(u).instance \notin stored' \union handed'
    BY <1>1, <1>2, <2>2, Fresh
  <2> QED
    BY <1>1, <1>2, <2>1, <2>2, StacksStay
<1>5. Numbers' /\ HandedOut'
  BY <1>1, <1>2 DEF Numbers, HandedOut
<1>6. Places'
  BY <1>1, <1>2 DEF Places, CacheAgrees, HeldAgrees, GivenAgrees
<1>7. Fates'
  BY <1>1, <1>2 DEF Fates, Fate, Live, IsCached, IsDue
<1>8. Ending'
  <2>1. \A y : ~Listed(chores, y)
    BY <1>2, NoneListed DEF MainIdle
  <2> QED
    BY <1>1, <1>2, <2>1 DEF Ending
<1> QED
  BY <1>3, <1>4, <1>5, <1>6, <1>7, <1>8 DEF RegistryBooks

LEMMA StoredIs ==
  ASSUME RegistryAssumption, Shapes, NEW i \in stored
  PROVE  i \in Instance /\ i # 0 /\ i \in 1..Len(made)
<1>1. i \in 1..Len(made) /\ Len(made) <= MaxInstances
  BY DEF Shapes
<1>2. PICK p : p = made
  OBVIOUS
<1>3. Len(p) \in Nat /\ MaxInstances \in Nat
  BY <1>2, LenProperties DEF Shapes, RegistryAssumption
<1> QED
  BY <1>1, <1>2, <1>3 DEF Instance

\* What does not depend on the scopes, the caches and the chores
LEMMA OthersStay ==
  ASSUME RegistryAssumption, RegistryBooks, UNCHANGED <<reg, regs, given, made, stack, stored, handed>>
  PROVE  Numbers' /\ Stacks'
<1>1. Shapes /\ Numbers /\ Stacks
  BY DEF RegistryBooks
<1>2. Numbers'
  BY <1>1 DEF Numbers
<1>3. Grows
  BY <1>1, GrowsWhenSame
<1>4. ASSUME NEW u \in Thread, At(u, "store"), given[Top(u).reg.id] = 0
      PROVE  Top(u).instance \notin stored' \union handed'
  BY <1>1, <1>4, Fresh
<1> QED
  BY <1>1, <1>2, <1>3, <1>4, StacksStay

\* A scope is closed; it has its own instances to dispose of and leaves the registry.
LEMMA Closes ==
  ASSUME RegistryAssumption, RegistryBooks, NEW c \in open, Closing(c), NEW rest \in Seq(AChore),
         \A x : Listed(rest, x) => Listed(chores, x),
         \A x : Listed(chores, x) => Listed(rest, x) \/ x = Chore("close", c, 0),
         \A x : Once(chores, x) => Once(rest, x),
         chores' = CallsOf(closers[c]) \o <<Chore("release", c, 0)>> \o rest,
         UNCHANGED <<tables, scopes, down, stack, history>>
  PROVE  RegistryBooks'
<1>1. Shapes /\ Numbers /\ Stacks /\ Places /\ HandedOut /\ Fates /\ Ending
  BY DEF RegistryBooks
<1>2. /\ UNCHANGED <<reg, regs, given, cache, callbacks, scopes, down, stack>>
      /\ UNCHANGED <<made, stored, late, dropped, handed, disposed>> /\ open' = open \ {c}
      /\ held' = [held EXCEPT ![c] = Nothing] /\ closers' = [closers EXCEPT ![c] = Nothing]
  BY DEF tables, history, Closing
<1>3. c \in AllScopes /\ held \in [AllScopes -> [Service -> 0..MaxInstances]] /\ closers[c] = held[c]
  BY <1>1 DEF Shapes, AllScopes
<1>4. Nothing \in [Service -> 0..MaxInstances] /\ \A s \in Service : Nothing[s] = 0
  BY DEF Nothing, RegistryAssumption
<1>5. /\ \A s \in Service : held'[c][s] = 0
      /\ \A d \in AllScopes \ {c} : held'[d] = held[d]
  BY <1>2, <1>3, <1>4
<1>6. /\ chores' \in Seq(AChore)
      /\ \A x : Listed(chores', x) <=>
           (\E s \in Service : held[c][s] # 0 /\ x = ACall(held[c][s])) \/ x = Chore("release", c, 0) \/ Listed(rest, x)
      /\ \A i \in Instance : Once(rest, ACall(i)) /\ (Listed(rest, ACall(i)) => \A s \in Service : held[c][s] # i)
           => Once(chores', ACall(i))
  <2>1. PICK p : p = CallsOf(held[c])
    OBVIOUS
  <2>2. /\ p \in Seq(AChore) /\ \A x : Once(p, x)
        /\ \A x : Listed(p, x) <=> \E s \in Service : held[c][s] # 0 /\ x = ACall(held[c][s])
    <3>1. held[c] \in [Service -> 0..MaxInstances]
      BY <1>3
    <3> QED
      BY <2>1, <3>1, CallsOfListed
  <2>3. PICK o : o = <<Chore("release", c, 0)>>
    OBVIOUS
  <2>4. o \in Seq(AChore) /\ (\A x : Listed(o, x) <=> x = Chore("release", c, 0)) /\ \A x : Once(o, x)
    <3>1. Chore("release", c, 0) \in AChore
      BY <1>3, Chores
    <3> QED
      BY <2>3, <3>1, OneListed
  <2>5. PICK q : q = p \o o
    OBVIOUS
  <2>6. /\ q \in Seq(AChore) /\ \A x : Listed(q, x) <=> Listed(p, x) \/ Listed(o, x)
        /\ \A x : Once(p, x) /\ Once(o, x) /\ ~(Listed(p, x) /\ Listed(o, x)) => Once(q, x)
    <3>1. /\ p \o o \in Seq(AChore) /\ \A x : Listed(p \o o, x) <=> Listed(p, x) \/ Listed(o, x)
          /\ \A x : Once(p, x) /\ Once(o, x) /\ ~(Listed(p, x) /\ Listed(o, x)) => Once(p \o o, x)
      BY <2>2, <2>4, ListedInJoin
    <3> QED
      BY <2>5, <3>1
  <2>7. chores' = q \o rest
    BY <1>3, <2>1, <2>3, <2>5
  <2>8. /\ q \o rest \in Seq(AChore) /\ \A x : Listed(q \o rest, x) <=> Listed(q, x) \/ Listed(rest, x)
        /\ \A x : Once(q, x) /\ Once(rest, x) /\ ~(Listed(q, x) /\ Listed(rest, x)) => Once(q \o rest, x)
    BY <2>6, ListedInJoin
  <2>9. \A i : ~Listed(o, ACall(i)) /\ Once(q, ACall(i))
    BY <2>2, <2>4, <2>6, Chores, ChoreFields
  <2>10. \A x : Listed(chores', x) <=> Listed(p, x) \/ Listed(o, x) \/ Listed(rest, x)
    BY <2>6, <2>7, <2>8
  <2>11. ASSUME NEW i \in Instance, Once(rest, ACall(i)), Listed(rest, ACall(i)) => \A s \in Service : held[c][s] # i
         PROVE  Once(chores', ACall(i))
    <3>1. Listed(q, ACall(i)) => \E s \in Service : ACall(i) = ACall(held[c][s])
      BY <2>2, <2>6, <2>9
    <3>2. Listed(q, ACall(i)) => \E s \in Service : i = held[c][s]
      BY <3>1, Chores
    <3>3. ~(Listed(q, ACall(i)) /\ Listed(rest, ACall(i)))
      BY <2>11, <3>2
    <3> QED
      BY <2>7, <2>8, <2>9, <2>11, <3>3
  <2>12. chores' \in Seq(AChore)
    BY <2>7, <2>8
  <2> QED
    BY <2>2, <2>4, <2>10, <2>11, <2>12
<1>7. Shapes'
  <2>1. held' \in [AllScopes -> [Service -> 0..MaxInstances]] /\ closers' = held'
    BY <1>1, <1>2, <1>3, <1>4 DEF Shapes
  <2> QED
    BY <1>1, <1>2, <1>6, <2>1 DEF Shapes
<1>8. Numbers' /\ Stacks'
  BY <1>2, OthersStay
<1>9. HandedOut'
  BY <1>1, <1>2 DEF HandedOut
<1>10. Places'
  <2>1. ASSUME NEW z \in Service PROVE CacheAgrees(z)' /\ GivenAgrees(z)'
    BY <1>1, <1>2 DEF Places, CacheAgrees, GivenAgrees
  <2>2. ASSUME NEW d \in AllScopes, NEW z \in Service PROVE HeldAgrees(d, z)'
    <3>1. CASE d = c
      BY <1>5, <3>1 DEF HeldAgrees
    <3>2. CASE d # c
      <4>1. HeldAgrees(d, z) /\ held'[d][z] = held[d][z]
        BY <1>1, <1>5, <3>2 DEF Places
      <4>2. d \in open' <=> d \in open
        BY <1>2, <3>2
      <4>3. ASSUME NEW e \in AllScopes, held[d][z] # 0, held'[e][z] = held[d][z] PROVE e = d
        BY <1>5, <4>1, <4>3 DEF HeldAgrees
      <4> QED
        BY <1>2, <4>1, <4>2, <4>3 DEF HeldAgrees
    <3> QED
      BY <3>1, <3>2
  <2> QED
    BY <2>1, <2>2 DEF Places
<1>11. \A s \in Service : held[c][s] # 0 => held[c][s] \in stored /\ made[held[c][s]].service = s
  BY <1>1, <1>3 DEF Places, HeldAgrees
<1>12. \A i : ACall(i) # Chore("release", c, 0) /\ ACall(i) # Chore("close", c, 0)
  <2>1. Chore("release", c, 0).do = "release" /\ Chore("close", c, 0).do = "close"
    BY ChoreFields
  <2> QED
    BY <2>1, Chores
<1>13. \A i : IsDue(i)' <=> (\E s \in Service : held[c][s] # 0 /\ i = held[c][s]) \/ IsDue(i)
  <2>1. \A i : Listed(rest, ACall(i)) <=> IsDue(i)
    BY <1>12 DEF IsDue
  <2>2. \A i : IsDue(i)' <=> Listed(chores', ACall(i))
    BY DEF IsDue, ACall, Chore
  <2> QED
    BY <1>6, <1>12, <2>1, <2>2, Chores
<1>14. Fates'
  <2>1. ASSUME NEW i \in Instance, i \notin stored PROVE disposed[i] = 0 /\ ~IsDue(i)'
    BY <1>1, <1>11, <1>13, <2>1 DEF Fates
  <2>2. ASSUME NEW i \in Live PROVE Fate(i)'
    <3>1. i \in stored /\ i \in Instance /\ i # 0
      BY <1>1, <2>2, StoredIs DEF Live
    <3>2. Fate(i)
      BY <1>1, <2>2 DEF Fates
    <3>3. CASE \E s \in Service : held[c][s] = i
      <4>1. PICK s \in Service : held[c][s] = i
        BY <3>3
      <4>2. HeldAgrees(c, s) /\ made[i].service = s
        BY <1>1, <1>3, <3>1, <4>1 DEF Places, HeldAgrees
      <4>3. ~IsDue(i) /\ disposed[i] = 0
        BY <1>3, <3>2, <4>1 DEF Fate, IsCached
      <4>4. ~IsCached(i)'
        <5>1. ASSUME NEW z \in Service, cache[z] = i PROVE FALSE
          BY <1>1, <3>1, <4>1, <4>2, <5>1 DEF Places, CacheAgrees, HeldAgrees
        <5>2. ASSUME NEW d \in AllScopes, NEW z \in Service, held'[d][z] = i PROVE FALSE
          <6>1. d # c /\ held[d][z] = i
            BY <1>5, <3>1, <5>2
          <6>2. HeldAgrees(d, z)
            BY <1>1 DEF Places
          <6> QED
            BY <1>3, <3>1, <4>1, <4>2, <6>1, <6>2 DEF HeldAgrees
        <5> QED
          BY <1>2, <5>1, <5>2 DEF IsCached
      <4>5. IsDue(i)'
        BY <1>13, <3>1, <4>1
      <4>6. Once(chores', ACall(i))
        <5>1. ~Listed(rest, ACall(i))
          BY <4>3 DEF IsDue
        <5> QED
          BY <1>6, <3>1, <5>1, Unlisted
      <4>7. Once(chores, ACall(i))'
        BY <4>6 DEF Once, ACall, Chore
      <4> QED
        BY <1>2, <4>3, <4>4, <4>5, <4>7 DEF Fate
    <3>4. CASE \A s \in Service : held[c][s] # i
      <4>1. IsDue(i)' <=> IsDue(i)
        BY <1>13, <3>4
      <4>2. IsCached(i)' <=> IsCached(i)
        <5>1. \A d \in AllScopes, z \in Service : held'[d][z] = i <=> held[d][z] = i
          BY <1>5, <3>1, <3>4
        <5> QED
          BY <1>2, <5>1 DEF IsCached
      <4>3. Once(chores', ACall(i))
        BY <1>6, <3>1, <3>2, <3>4 DEF Fate
      <4>4. Once(chores, ACall(i))'
        BY <4>3 DEF Once, ACall, Chore
      <4> QED
        BY <1>2, <3>2, <4>1, <4>2, <4>4, FateStays
    <3> QED
      BY <3>3, <3>4
  <2>3. Live' = Live
    BY <1>2 DEF Live
  <2> QED
    BY <1>2, <2>1, <2>2, <2>3 DEF Fates
<1>15. Ending'
  <2>1. \A d, e : Chore("release", d, 0) # Chore("close", e, 0)
    BY ChoreFields
  <2>2. \A d : d # c => Chore("close", d, 0) # Chore("close", c, 0) /\ Chore("release", d, 0) # Chore("release", c, 0)
    BY ChoreFields
  <2>3. \A d : Listed(chores', Chore("release", d, 0)) <=> d = c \/ Listed(chores, Chore("release", d, 0))
    <3> SUFFICES ASSUME NEW d
                 PROVE  Listed(chores', Chore("release", d, 0)) <=> d = c \/ Listed(chores, Chore("release", d, 0))
      OBVIOUS
    <3>1. \A i : Chore("release", d, 0) # ACall(i)
      BY Chores, ChoreFields
    <3>2. Listed(rest, Chore("release", d, 0)) <=> Listed(chores, Chore("release", d, 0))
      BY <2>1
    <3>3. CASE d = c
      BY <1>6, <3>3
    <3>4. CASE d # c
      BY <1>6, <2>2, <3>1, <3>2, <3>4
    <3> QED
      BY <3>3, <3>4
  <2>4. \A d : d # c /\ Listed(chores, Chore("close", d, 0)) => Listed(chores', Chore("close", d, 0))
    BY <1>6, <2>2
  <2>5. \A z : Listed(chores', Chore("put", Root, z)) => Listed(chores, Chore("put", Root, z))
    <3> SUFFICES ASSUME NEW z, Listed(chores', Chore("put", Root, z)) PROVE Listed(chores, Chore("put", Root, z))
      OBVIOUS
    <3>1. (\A i : Chore("put", Root, z) # ACall(i)) /\ Chore("put", Root, z) # Chore("release", c, 0)
      BY Chores, ChoreFields
    <3> QED
      BY <1>6, <3>1
  <2> QED
    BY <1>1, <1>2, <2>3, <2>4, <2>5 DEF Ending
<1> QED
  BY <1>7, <1>8, <1>9, <1>10, <1>14, <1>15 DEF RegistryBooks

LEMMA CloseScopeKeeps ==
  ASSUME RegistryAssumption, RegistryBooks, NEW c \in Scope, CloseScope(c)
  PROVE  RegistryBooks'
<1>1. /\ MainIdle /\ c \in open /\ Closing(c) /\ UNCHANGED <<tables, scopes, down, stack, history>>
      /\ chores' = CallsOf(closers[c]) \o <<Chore("release", c, 0)>>
  BY DEF CloseScope
<1>2. c \in AllScopes /\ closers[c] \in [Service -> 0..MaxInstances]
  BY DEF RegistryBooks, Shapes, AllScopes
<1>3. PICK p : p = CallsOf(closers[c])
  OBVIOUS
<1>4. PICK o : o = <<Chore("release", c, 0)>>
  OBVIOUS
<1>5. p \in Seq(AChore)
  BY <1>2, <1>3, CallsOfListed
<1>6. o \in Seq(AChore)
  <2>1. Chore("release", c, 0) \in AChore
    BY <1>2, Chores
  <2> QED
    BY <1>4, <2>1
<1>7. PICK q : q = p \o o
  OBVIOUS
<1>8. q \in Seq(AChore)
  BY <1>5, <1>6, <1>7, ListedInJoin
<1>9. PICK r : r = <<>>
  OBVIOUS
<1>10. q \o r = q
  BY <1>8, <1>9, ConcatEmptySeq
<1>11. chores' = CallsOf(closers[c]) \o <<Chore("release", c, 0)>> \o r
  BY <1>1, <1>3, <1>4, <1>7, <1>10
<1>12. r \in Seq(AChore) /\ r = chores
  BY <1>1, <1>9 DEF MainIdle
<1> QED
  BY <1>1, <1>11, <1>12, Closes

LEMMA CallKeeps ==
  ASSUME RegistryAssumption, RegistryBooks, NEW i, chores # <<>>, Head(chores) = ACall(i), Call(i)
  PROVE  RegistryBooks'
<1>1. Shapes /\ Numbers /\ Stacks /\ Places /\ HandedOut /\ Fates /\ Ending
  BY DEF RegistryBooks
<1>2. /\ disposed' = [disposed EXCEPT ![i] = @ + 1] /\ chores' = Tail(chores)
      /\ UNCHANGED <<reg, regs, given, cache, callbacks, scopes, open, held, closers, down, stack>>
      /\ UNCHANGED <<made, stored, late, dropped, handed>>
  BY DEF Call, tables, containers
<1>3. /\ chores' \in Seq(AChore) /\ ACall(i) \in AChore
      /\ \A x : Listed(chores, x) <=> Listed(chores', x) \/ x = ACall(i)
      /\ \A x : Once(chores, x) => Once(chores', x)
      /\ Once(chores, ACall(i)) => ~Listed(chores', ACall(i))
  <2>1. PICK q : q = chores
    OBVIOUS
  <2>2. q \in Seq(AChore) /\ q # <<>>
    BY <1>1, <2>1 DEF Shapes
  <2> QED
    BY <1>2, <2>1, <2>2, ListedInTail
<1>4. i \in Instance
  BY <1>3 DEF ACall, Chore, AChore
<1>5. /\ disposed \in [Instance -> Nat] /\ disposed' \in [Instance -> Nat] /\ disposed'[i] = disposed[i] + 1
      /\ \A x \in Instance \ {i} : disposed'[x] = disposed[x]
  BY <1>1, <1>2, <1>4 DEF Shapes
<1>6. Shapes'
  BY <1>1, <1>2, <1>3, <1>5 DEF Shapes
<1>7. Numbers' /\ Stacks'
  BY <1>2, OthersStay
<1>8. HandedOut'
  BY <1>1, <1>2 DEF HandedOut
<1>9. Places'
  BY <1>1, <1>2 DEF Places, CacheAgrees, HeldAgrees, GivenAgrees
<1>10. \A x : IsDue(x)' <=> Listed(chores', ACall(x))
  BY DEF IsDue, ACall, Chore
<1>11. \A x : x # i => (IsDue(x)' <=> IsDue(x))
  BY <1>3, <1>10, Chores DEF IsDue
<1>12. IsDue(i)
  BY <1>3 DEF IsDue
<1>13. Fates'
  <2>1. ASSUME NEW x \in Instance, x \notin stored PROVE disposed'[x] = 0 /\ ~IsDue(x)'
    BY <1>1, <1>5, <1>11, <1>12, <2>1 DEF Fates
  <2>2. ASSUME NEW x \in Live PROVE Fate(x)'
    <3>1. Fate(x)
      BY <1>1, <2>2 DEF Fates
    <3>2. Once(chores', ACall(x))
      BY <1>3, <3>1 DEF Fate
    <3>3. Once(chores, ACall(x))'
      BY <3>2 DEF Once, ACall, Chore
    <3>4. x \in Instance
      BY <1>1, <2>2, StoredIs DEF Live
    <3>5. IsCached(x)' <=> IsCached(x)
      BY <1>2 DEF IsCached
    <3>6. CASE x = i
      <4>1. disposed[x] = 0 /\ ~IsCached(x)
        BY <1>12, <3>1, <3>6 DEF Fate
      <4>2. ~IsDue(x)' /\ disposed'[x] = 1
        BY <1>3, <1>5, <1>10, <3>1, <3>6, <4>1 DEF Fate
      <4> QED
        BY <3>3, <3>5, <4>1, <4>2 DEF Fate
    <3>7. CASE x # i
      BY <1>5, <1>11, <3>1, <3>3, <3>4, <3>5, <3>7, FateStays
    <3> QED
      BY <3>6, <3>7
  <2>3. Live' = Live
    BY <1>2 DEF Live
  <2> QED
    BY <1>2, <2>1, <2>2, <2>3 DEF Fates
<1>14. Ending'
  <2>1. \A do, d, n : do # "call" => (Listed(chores', Chore(do, d, n)) <=> Listed(chores, Chore(do, d, n)))
    <3> SUFFICES ASSUME NEW do, NEW d, NEW n, do # "call"
                 PROVE  Listed(chores', Chore(do, d, n)) <=> Listed(chores, Chore(do, d, n))
      OBVIOUS
    <3>1. Chore(do, d, n).do = do
      BY ChoreFields
    <3>2. Chore(do, d, n) # ACall(i)
      BY <3>1, Chores
    <3> QED
      BY <1>3, <3>2
  <2> QED
    BY <1>1, <1>2, <2>1 DEF Ending
<1> QED
  BY <1>6, <1>7, <1>8, <1>9, <1>13, <1>14 DEF RegistryBooks

\* The first chore is taken.
LEMMA Taken ==
  ASSUME Shapes, chores # <<>>, NEW do, NEW d, NEW n, Head(chores) = Chore(do, d, n), do # "call"
  PROVE  /\ Chore(do, d, n) \in AChore /\ Tail(chores) \in Seq(AChore) /\ Listed(chores, Chore(do, d, n))
         /\ \A x : Listed(chores, x) <=> Listed(Tail(chores), x) \/ x = Chore(do, d, n)
         /\ \A i : Listed(Tail(chores), ACall(i)) <=> Listed(chores, ACall(i))
         /\ \A x : Once(chores, x) => Once(Tail(chores), x)
<1>1. PICK q : q = chores
  OBVIOUS
<1>2. q \in Seq(AChore) /\ q # <<>> /\ Head(q) = Chore(do, d, n)
  BY <1>1 DEF Shapes
<1>3. /\ Head(q) \in AChore /\ Tail(q) \in Seq(AChore)
      /\ \A x : Listed(q, x) <=> Listed(Tail(q), x) \/ Head(q) = x
      /\ \A x : Once(q, x) => Once(Tail(q), x)
  BY <1>2, ListedInTail
<1>4. \A i : ACall(i) # Chore(do, d, n)
  <2>1. Chore(do, d, n).do # "call"
    BY ChoreFields
  <2>2. \A i : ACall(i).do = "call"
    BY DEF ACall, Chore
  <2> QED
    BY <2>1, <2>2
<1> QED
  BY <1>1, <1>2, <1>3, <1>4

\* A chore with nothing to do, or a scope that leaves the registry
LEMMA Skips ==
  ASSUME RegistryAssumption, RegistryBooks, chores # <<>>, NEW do \in {"close", "release"}, NEW c \in AllScopes,
         Head(chores) = Chore(do, c, 0), chores' = Tail(chores), c \notin open,
         scopes' = IF do = "release" THEN scopes \ {c} ELSE scopes,
         UNCHANGED <<tables, open, held, closers, down, stack, history>>
  PROVE  RegistryBooks'
<1>1. Shapes /\ Numbers /\ Stacks /\ Places /\ HandedOut /\ Fates /\ Ending
  BY DEF RegistryBooks
<1>2. /\ UNCHANGED <<reg, regs, given, cache, callbacks, open, held, closers, down, stack>>
      /\ UNCHANGED <<made, stored, late, dropped, handed, disposed>>
  BY DEF tables, history
<1>3. /\ chores' \in Seq(AChore)
      /\ \A x : Listed(chores, x) <=> Listed(chores', x) \/ x = Chore(do, c, 0)
      /\ \A i : Listed(chores', ACall(i)) <=> Listed(chores, ACall(i))
      /\ \A x : Once(chores, x) => Once(chores', x)
  BY <1>1, Taken
<1>4. Shapes'
  BY <1>1, <1>2, <1>3 DEF Shapes
<1>5. Numbers' /\ Stacks'
  BY <1>2, OthersStay
<1>6. HandedOut' /\ Places'
  BY <1>1, <1>2 DEF HandedOut, Places, CacheAgrees, HeldAgrees, GivenAgrees
<1>7. ASSUME NEW x PROVE (IsDue(x)' <=> IsDue(x)) /\ (Once(chores, ACall(x)) => Once(chores, ACall(x))')
  <2>1. IsDue(x)' <=> Listed(chores', ACall(x))
    BY DEF IsDue, ACall, Chore
  <2>2. Once(chores', ACall(x)) => Once(chores, ACall(x))'
    BY DEF Once, ACall, Chore
  <2> QED
    BY <1>3, <2>1, <2>2 DEF IsDue
<1>8. Fates'
  <2>1. ASSUME NEW x \in Live PROVE Fate(x)'
    <3>1. Fate(x)
      BY <1>1, <2>1 DEF Fates
    <3>2. IsCached(x)' <=> IsCached(x)
      BY <1>2 DEF IsCached
    <3> QED
      BY <1>2, <1>7, <3>1, <3>2, FateStays
  <2>2. Live' = Live
    BY <1>2 DEF Live
  <2> QED
    BY <1>1, <1>2, <1>7, <2>1, <2>2 DEF Fates
<1>9. Ending'
  <2>1. \A d : d # c => /\ Listed(chores, Chore("close", d, 0)) => Listed(chores', Chore("close", d, 0))
                        /\ Listed(chores, Chore("release", d, 0)) => Listed(chores', Chore("release", d, 0))
    <3> SUFFICES ASSUME NEW d, d # c
                 PROVE  Chore("close", d, 0) # Chore(do, c, 0) /\ Chore("release", d, 0) # Chore(do, c, 0)
      BY <1>3
    <3> QED
      BY ChoreFields
  <2>2. do = "close" => \A d : Listed(chores, Chore("release", d, 0)) => Listed(chores', Chore("release", d, 0))
    <3> SUFFICES ASSUME do = "close", NEW d PROVE Chore("release", d, 0) # Chore(do, c, 0)
      BY <1>3
    <3> QED
      BY ChoreFields
  <2>3. \A d \in scopes' : d \in scopes /\ (d = c => do = "close")
    OBVIOUS
  <2>4. \A d \in scopes' : d \in open \/ Listed(chores', Chore("release", d, 0))
    BY <1>1, <2>1, <2>2, <2>3 DEF Ending
  <2>5. \A d \in open : ~Listed(chores', Chore("release", d, 0))
    BY <1>1, <1>3 DEF Ending
  <2>6. down => \A d \in open : Listed(chores', Chore("close", d, 0))
    BY <1>1, <2>1 DEF Ending
  <2> QED
    BY <1>1, <1>2, <1>3, <2>4, <2>5, <2>6 DEF Ending
<1> QED
  BY <1>4, <1>5, <1>6, <1>8, <1>9 DEF RegistryBooks

LEMMA CloseKeeps ==
  ASSUME RegistryAssumption, RegistryBooks, NEW c, chores # <<>>, Head(chores) = Chore("close", c, 0), Close(c)
  PROVE  RegistryBooks'
<1>1. Shapes
  BY DEF RegistryBooks
<1>2. Chore("close", c, 0) \in AChore /\ Tail(chores) \in Seq(AChore)
  BY <1>1, Taken
<1>3. /\ \A x : Listed(chores, x) <=> Listed(Tail(chores), x) \/ x = Chore("close", c, 0)
      /\ \A x : Once(chores, x) => Once(Tail(chores), x)
  BY <1>1, Taken
<1>4. c \in AllScopes
  BY <1>2 DEF AChore, Chore
<1>5. CASE c \in open
  <2>1. /\ Closing(c) /\ chores' = CallsOf(closers[c]) \o <<Chore("release", c, 0)>> \o Tail(chores)
        /\ UNCHANGED <<tables, scopes, down, stack, history>>
    BY <1>5 DEF Close
  <2>2. PICK q : q = Tail(chores)
    OBVIOUS
  <2> QED
    BY <1>2, <1>3, <1>5, <2>1, <2>2, Closes
<1>6. CASE c \notin open
  <2>1. chores' = Tail(chores) /\ UNCHANGED <<tables, scopes, open, held, closers, down, stack, history>>
    BY <1>6 DEF Close
  <2> QED
    BY <1>4, <1>6, <2>1, Skips
<1> QED
  BY <1>5, <1>6

LEMMA ReleaseKeeps ==
  ASSUME RegistryAssumption, RegistryBooks, NEW c, chores # <<>>, Head(chores) = Chore("release", c, 0), Release(c)
  PROVE  RegistryBooks'
<1>1. Shapes /\ Ending
  BY DEF RegistryBooks
<1>2. Chore("release", c, 0) \in AChore /\ Listed(chores, Chore("release", c, 0))
  BY <1>1, Taken
<1>3. c \in AllScopes
  BY <1>2 DEF AChore, Chore
<1>4. c \notin open
  BY <1>1, <1>2 DEF Ending
<1>5. /\ scopes' = scopes \ {c} /\ chores' = Tail(chores)
      /\ UNCHANGED <<tables, open, held, closers, down, stack, history>>
  BY DEF Release
<1> QED
  BY <1>3, <1>4, <1>5, Skips

LEMMA DropKeeps ==
  ASSUME RegistryAssumption, RegistryBooks, NEW c, NEW s, chores # <<>>, Head(chores) = Chore("drop", c, s), Drop(c, s)
  PROVE  RegistryBooks'
<1>1. Shapes /\ Numbers /\ Stacks /\ Places /\ HandedOut /\ Fates /\ Ending
  BY DEF RegistryBooks
<1>2. /\ UNCHANGED <<reg, regs, given, cache, callbacks, scopes, open, down, stack>>
      /\ UNCHANGED <<made, stored, late, dropped, handed, disposed>>
      /\ held' = [held EXCEPT ![c][s] = 0] /\ closers' = [closers EXCEPT ![c][s] = 0]
      /\ chores' = Tail(chores) \o CallOf(closers[c][s])
  BY DEF Drop, tables, history
<1>3. /\ Chore("drop", c, s) \in AChore /\ Tail(chores) \in Seq(AChore)
      /\ \A x : Listed(chores, x) <=> Listed(Tail(chores), x) \/ x = Chore("drop", c, s)
      /\ \A i : Listed(Tail(chores), ACall(i)) <=> Listed(chores, ACall(i))
      /\ \A x : Once(chores, x) => Once(Tail(chores), x)
  BY <1>1, Taken
<1>4. c \in AllScopes /\ s \in Service
  BY <1>3 DEF AChore, Chore
<1>5. PICK j : j = held[c][s]
  OBVIOUS
<1>6. /\ held \in [AllScopes -> [Service -> 0..MaxInstances]] /\ closers[c][s] = j /\ j \in 0..MaxInstances
      /\ 0 \in 0..MaxInstances
  BY <1>1, <1>4, <1>5 DEF Shapes, RegistryAssumption
<1>7. \A d \in AllScopes, z \in Service : held'[d][z] = IF d = c /\ z = s THEN 0 ELSE held[d][z]
  BY <1>2, <1>4, <1>6
<1>8. /\ chores' \in Seq(AChore)
      /\ \A x : Listed(chores', x) <=> Listed(Tail(chores), x) \/ (j # 0 /\ x = ACall(j))
      /\ \A x : Once(Tail(chores), x) /\ ~(Listed(Tail(chores), x) /\ j # 0 /\ x = ACall(j)) => Once(chores', x)
  <2>1. PICK p : p = Tail(chores)
    OBVIOUS
  <2>2. PICK q : q = CallOf(j)
    OBVIOUS
  <2>3. /\ q \in Seq(AChore)
        /\ \A x : (Listed(q, x) <=> j # 0 /\ x = ACall(j)) /\ Once(q, x)
    BY <1>6, <2>2, CallOfListed
  <2>4. /\ p \o q \in Seq(AChore) /\ \A x : Listed(p \o q, x) <=> Listed(p, x) \/ Listed(q, x)
        /\ \A x : Once(p, x) /\ Once(q, x) /\ ~(Listed(p, x) /\ Listed(q, x)) => Once(p \o q, x)
    BY <1>3, <2>1, <2>3, ListedInJoin
  <2>5. chores' = p \o q
    BY <1>2, <1>6, <2>1, <2>2
  <2> QED
    BY <2>1, <2>3, <2>4, <2>5
<1>9. Shapes'
  <2>1. held' \in [AllScopes -> [Service -> 0..MaxInstances]] /\ closers' = held'
    BY <1>1, <1>2, <1>4, <1>6 DEF Shapes
  <2> QED
    BY <1>1, <1>2, <1>8, <2>1 DEF Shapes
<1>10. Numbers' /\ Stacks'
  BY <1>2, OthersStay
<1>11. HandedOut'
  BY <1>1, <1>2 DEF HandedOut
<1>12. Places'
  <2>1. ASSUME NEW z \in Service PROVE CacheAgrees(z)' /\ GivenAgrees(z)'
    BY <1>1, <1>2 DEF Places, CacheAgrees, GivenAgrees
  <2>2. ASSUME NEW d \in AllScopes, NEW z \in Service PROVE HeldAgrees(d, z)'
    <3>1. CASE d = c /\ z = s
      BY <1>7, <3>1 DEF HeldAgrees
    <3>2. CASE ~(d = c /\ z = s)
      <4>1. HeldAgrees(d, z) /\ held'[d][z] = held[d][z]
        BY <1>1, <1>7, <3>2 DEF Places
      <4>2. ASSUME NEW e \in AllScopes, held[d][z] # 0, held'[e][z] = held[d][z] PROVE e = d
        BY <1>7, <4>1, <4>2 DEF HeldAgrees
      <4> QED
        BY <1>2, <4>1, <4>2 DEF HeldAgrees
    <3> QED
      BY <3>1, <3>2
  <2> QED
    BY <2>1, <2>2 DEF Places
<1>13. j # 0 => j \in stored /\ made[j].service = s /\ HeldAgrees(c, s)
  BY <1>1, <1>4, <1>5 DEF Places, HeldAgrees
<1>14. \A i : IsDue(i)' <=> (j # 0 /\ i = j) \/ IsDue(i)
  <2>1. \A i : IsDue(i)' <=> Listed(chores', ACall(i))
    BY DEF IsDue, ACall, Chore
  <2> QED
    BY <1>3, <1>8, <2>1, Chores DEF IsDue
<1>15. Fates'
  <2>1. ASSUME NEW i \in Instance, i \notin stored PROVE disposed[i] = 0 /\ ~IsDue(i)'
    BY <1>1, <1>13, <1>14, <2>1 DEF Fates
  <2>2. ASSUME NEW i \in Live PROVE Fate(i)'
    <3>1. i \in stored /\ i \in Instance /\ i # 0
      BY <1>1, <2>2, StoredIs DEF Live
    <3>2. Fate(i)
      BY <1>1, <2>2 DEF Fates
    <3>3. Once(Tail(chores), ACall(i))
      BY <1>3, <3>2 DEF Fate
    <3>4. CASE i = j
      <4>1. ~IsDue(i) /\ disposed[i] = 0
        BY <1>4, <1>5, <3>2, <3>4 DEF Fate, IsCached
      <4>2. ~IsCached(i)'
        <5>1. ASSUME NEW z \in Service, cache[z] = i PROVE FALSE
          <6>1. CacheAgrees(z) /\ z = s
            BY <1>1, <1>13, <3>1, <3>4, <5>1 DEF Places, CacheAgrees
          <6> QED
            BY <1>5, <1>13, <3>1, <3>4, <5>1, <6>1 DEF HeldAgrees
        <5>2. ASSUME NEW d \in AllScopes, NEW z \in Service, held'[d][z] = i PROVE FALSE
          <6>1. ~(d = c /\ z = s) /\ held[d][z] = i
            BY <1>7, <3>1, <5>2
          <6>2. HeldAgrees(d, z)
            BY <1>1 DEF Places
          <6>3. z = s
            BY <1>13, <3>1, <3>4, <6>1, <6>2 DEF HeldAgrees
          <6> QED
            BY <1>5, <1>13, <3>1, <3>4, <6>1, <6>3 DEF HeldAgrees
        <5> QED
          BY <1>2, <5>1, <5>2 DEF IsCached
      <4>3. IsDue(i)'
        BY <1>14, <3>1, <3>4
      <4>4. Once(chores', ACall(i))
        <5>1. ~Listed(Tail(chores), ACall(i))
          BY <1>3, <4>1 DEF IsDue
        <5> QED
          BY <1>8, <3>3, <5>1
      <4>5. Once(chores, ACall(i))'
        BY <4>4 DEF Once, ACall, Chore
      <4> QED
        BY <1>2, <4>1, <4>2, <4>3, <4>5 DEF Fate
    <3>5. CASE i # j
      <4>1. IsDue(i)' <=> IsDue(i)
        BY <1>14, <3>5
      <4>2. IsCached(i)' <=> IsCached(i)
        <5>1. \A d \in AllScopes, z \in Service : held'[d][z] = i <=> held[d][z] = i
          BY <1>5, <1>7, <3>1, <3>5
        <5> QED
          BY <1>2, <5>1 DEF IsCached
      <4>3. Once(chores', ACall(i))
        <5>1. ACall(i) # ACall(j)
          BY <3>5, Chores
        <5> QED
          BY <1>8, <3>3, <5>1
      <4>4. Once(chores, ACall(i))'
        BY <4>3 DEF Once, ACall, Chore
      <4> QED
        BY <1>2, <3>2, <4>1, <4>2, <4>4, FateStays
    <3> QED
      BY <3>4, <3>5
  <2>3. Live' = Live
    BY <1>2 DEF Live
  <2> QED
    BY <1>2, <2>1, <2>2, <2>3 DEF Fates
<1>16. Ending'
  <2>1. \A do, d, n : do \notin {"call", "drop"} =>
          (Listed(chores', Chore(do, d, n)) <=> Listed(chores, Chore(do, d, n)))
    <3> SUFFICES ASSUME NEW do, NEW d, NEW n, do \notin {"call", "drop"}
                 PROVE  Listed(chores', Chore(do, d, n)) <=> Listed(chores, Chore(do, d, n))
      OBVIOUS
    <3>1. Chore(do, d, n).do = do /\ Chore("drop", c, s).do = "drop"
      BY ChoreFields
    <3>2. Chore(do, d, n) # ACall(j) /\ Chore(do, d, n) # Chore("drop", c, s)
      BY <3>1, Chores
    <3> QED
      BY <1>3, <1>8, <3>2
  <2> QED
    BY <1>1, <1>2, <2>1 DEF Ending
<1> QED
  BY <1>9, <1>10, <1>11, <1>12, <1>15, <1>16 DEF RegistryBooks

LEMMA PutKeeps ==
  ASSUME RegistryAssumption, RegistryBooks, NEW s, chores # <<>>, Head(chores) = Chore("put", Root, s), Put(s)
  PROVE  RegistryBooks'
<1>1. Shapes /\ Numbers /\ Stacks /\ Places /\ HandedOut /\ Fates /\ Ending
  BY DEF RegistryBooks
<1>2. PICK i : i = given[reg[s].id]
  OBVIOUS
<1>3. /\ UNCHANGED <<reg, regs, given, scopes, open, held, closers, down, stack>>
      /\ UNCHANGED <<made, late, dropped, handed, disposed>>
      /\ cache' = [cache EXCEPT ![s] = i] /\ callbacks' = [callbacks EXCEPT ![s] = i]
      /\ stored' = stored \union {i} /\ chores' = Tail(chores)
  BY <1>2 DEF Put, containers
<1>4. /\ Chore("put", Root, s) \in AChore /\ chores' \in Seq(AChore) /\ Listed(chores, Chore("put", Root, s))
      /\ \A x : Listed(chores, x) <=> Listed(chores', x) \/ x = Chore("put", Root, s)
      /\ \A x : Listed(chores', ACall(x)) <=> Listed(chores, ACall(x))
      /\ \A x : Once(chores, x) => Once(chores', x)
  BY <1>1, <1>3, Taken
<1>5. s \in Service
  BY <1>4 DEF AChore, Chore
<1>6. ~down /\ reg[s] # NoReg /\ i # 0
  BY <1>1, <1>2, <1>4, <1>5 DEF Ending
<1>7. reg[s] \in Reg /\ reg[s].id \in 1..MaxRegs
  BY <1>1, <1>5, <1>6, RegTypes DEF Shapes
<1>8. /\ i \in 1..Len(made) /\ made[i].reg = reg[s].id /\ Singleton(reg[s])
      /\ \A x \in 1..Len(made) : made[x].reg = reg[s].id => x = i
  BY <1>1, <1>2, <1>5, <1>6, <1>7 DEF Numbers
<1>9. made[i].service = s
  BY <1>1, <1>5, <1>8 DEF Numbers
<1>10. i \in stored => cache[s] = i
  BY <1>1, <1>2, <1>5, <1>6 DEF Places, GivenAgrees
<1>11. cache[s] # 0 /\ cache[s] \notin late => cache[s] = i
  BY <1>1, <1>5, <1>8 DEF Places, CacheAgrees, Shapes
<1>12. /\ cache'[s] = i /\ \A z \in Service \ {s} : cache'[z] = cache[z]
  BY <1>1, <1>3, <1>5 DEF Shapes
<1>13. i \in Instance
  <2>1. PICK p : p = made
    OBVIOUS
  <2>2. Len(p) \in Nat /\ Len(p) <= MaxInstances /\ MaxInstances \in Nat
    BY <1>1, <2>1, LenProperties DEF Shapes, RegistryAssumption
  <2> QED
    BY <1>8, <2>1, <2>2 DEF Instance
<1>14. Shapes'
  <2>1. cache' \in [Service -> 0..MaxInstances] /\ callbacks' = cache'
    BY <1>1, <1>3, <1>5, <1>13 DEF Shapes, Instance
  <2>2. stored' \subseteq 1..Len(made) /\ stored \subseteq stored'
    BY <1>1, <1>3, <1>8 DEF Shapes
  <2> QED
    BY <1>1, <1>3, <1>4, <2>1, <2>2 DEF Shapes
<1>15. Numbers'
  BY <1>1, <1>3 DEF Numbers
<1>16. Stacks'
  <2>1. Grows
    BY <1>1, <1>3, GrowsWhenSame
  <2>2. ASSUME NEW u \in Thread, At(u, "store"), given[Top(u).reg.id] = 0
        PROVE  Top(u).instance \notin stored' \union handed'
    <3>1. Top(u).instance \notin stored \union handed /\ made[Top(u).instance].reg = Top(u).reg.id
      BY <1>1, <2>2, Fresh
    <3>2. Top(u).instance # i
      BY <1>2, <1>6, <1>8, <2>2, <3>1
    <3> QED
      BY <1>3, <3>1, <3>2
  <2> QED
    BY <1>1, <1>3, <2>1, <2>2, StacksStay
<1>17. Places'
  <2>1. ASSUME NEW z \in Service PROVE CacheAgrees(z)'
    <3>1. CASE z = s
      BY <1>3, <1>8, <1>9, <1>12, <3>1 DEF CacheAgrees
    <3>2. CASE z # s
      <4>1. CacheAgrees(z) /\ cache'[z] = cache[z]
        BY <1>1, <1>12, <3>2 DEF Places
      <4> QED
        BY <1>3, <4>1 DEF CacheAgrees
    <3> QED
      BY <3>1, <3>2
  <2>2. ASSUME NEW z \in Service PROVE GivenAgrees(z)'
    <3>1. CASE z = s
      BY <1>2, <1>3, <1>12, <3>1 DEF GivenAgrees
    <3>2. CASE z # s
      <4>1. GivenAgrees(z) /\ cache'[z] = cache[z]
        BY <1>1, <1>12, <3>2 DEF Places
      <4>2. ASSUME reg[z] # NoReg, given[reg[z].id] = i PROVE FALSE
        <5>1. reg[z].id \in 1..MaxRegs
          BY <1>1, <4>2, RegTypes DEF Shapes
        <5>2. made[i].reg = reg[z].id
          BY <1>1, <1>6, <4>2, <5>1 DEF Numbers
        <5> QED
          BY <1>1, <1>8, <1>9, <3>2, <5>2 DEF Numbers
      <4> QED
        BY <1>3, <4>1, <4>2 DEF GivenAgrees
    <3> QED
      BY <3>1, <3>2
  <2>3. ASSUME NEW d \in AllScopes, NEW z \in Service PROVE HeldAgrees(d, z)'
    <3>1. HeldAgrees(d, z)
      BY <1>1 DEF Places
    <3>2. held[d][z] # 0 => held[d][z] # cache'[z]
      <4>1. CASE z = s
        <5>1. held[d][s] # 0 => held[d][s] # i
          BY <1>2, <1>6, <1>8, <3>1, <4>1 DEF HeldAgrees
        <5> QED
          BY <1>12, <4>1, <5>1
      <4>2. CASE z # s
        BY <1>12, <3>1, <4>2 DEF HeldAgrees
      <4> QED
        BY <4>1, <4>2
    <3> QED
      BY <1>3, <3>1, <3>2 DEF HeldAgrees
  <2> QED
    BY <2>1, <2>2, <2>3 DEF Places
<1>18. HandedOut'
  <2> SUFFICES ASSUME NEW z \in Service, NEW x \in handed, Singleton(reg[z]), made[x].reg = reg[z].id
               PROVE  cache'[z] = x \/ given[reg[z].id] = x
    BY <1>3 DEF HandedOut
  <2>1. CASE z = s
    BY <1>1, <1>8, <1>12, <2>1 DEF Shapes
  <2>2. CASE z # s
    BY <1>1, <1>12, <2>2 DEF HandedOut
  <2> QED
    BY <2>1, <2>2
<1>19. ASSUME NEW x PROVE (IsDue(x)' <=> IsDue(x)) /\ (Once(chores, ACall(x)) => Once(chores, ACall(x))')
  <2>1. IsDue(x)' <=> Listed(chores', ACall(x))
    BY DEF IsDue, ACall, Chore
  <2>2. Once(chores', ACall(x)) => Once(chores, ACall(x))'
    BY DEF Once, ACall, Chore
  <2> QED
    BY <1>4, <2>1, <2>2 DEF IsDue
<1>20. Fates'
  <2>1. ASSUME NEW x \in Instance, x \notin stored' PROVE disposed[x] = 0 /\ ~IsDue(x)'
    BY <1>1, <1>3, <1>19, <2>1 DEF Fates
  <2>2. ASSUME NEW x \in Live' PROVE Fate(x)'
    <3>1. CASE x \in stored
      <4>1. x \in Live /\ x # 0 /\ x \notin late
        BY <1>1, <1>3, <2>2, <3>1, StoredIs DEF Live
      <4>2. Fate(x)
        BY <1>1, <4>1 DEF Fates
      <4>3. \A z \in Service : cache'[z] = x <=> cache[z] = x
        BY <1>10, <1>11, <1>12, <3>1, <4>1
      <4>4. IsCached(x)' <=> IsCached(x)
        BY <1>3, <4>3 DEF IsCached
      <4> QED
        BY <1>3, <1>19, <4>2, <4>4, FateStays
    <3>2. CASE x \notin stored
      <4>1. x = i
        BY <1>3, <2>2, <3>2 DEF Live
      <4>2. disposed[x] = 0 /\ ~IsDue(x)
        BY <1>1, <1>13, <3>2, <4>1 DEF Fates
      <4>3. IsCached(x)'
        BY <1>5, <1>12, <4>1 DEF IsCached
      <4>4. ~IsDue(x)'
        BY <1>19, <4>2
      <4>5. Once(chores, ACall(x))'
        BY <4>4 DEF IsDue, Once, Listed
      <4> QED
        BY <1>3, <4>2, <4>3, <4>4, <4>5 DEF Fate
    <3> QED
      BY <3>1, <3>2
  <2> QED
    BY <1>3, <2>1, <2>2 DEF Fates
<1>21. Ending'
  <2>1. \A do, d, n : do # "put" => (Listed(chores', Chore(do, d, n)) <=> Listed(chores, Chore(do, d, n)))
    <3> SUFFICES ASSUME NEW do, NEW d, NEW n, do # "put"
                 PROVE  Chore(do, d, n) # Chore("put", Root, s)
      BY <1>4
    <3> QED
      BY ChoreFields
  <2> QED
    BY <1>1, <1>3, <1>4, <1>6, <2>1 DEF Ending
<1> QED
  BY <1>14, <1>15, <1>16, <1>17, <1>18, <1>20, <1>21 DEF RegistryBooks

\* What shutdown() has to do
LEMMA DropsListed ==
  ASSUME RegistryAssumption, NEW S \in SUBSET Service, NEW q,
         q = [k \in 1..Cardinality(S) |-> Chore("drop", Root, SetToSeq(S)[k])]
  PROVE  q \in Seq(AChore) /\ \A x : Listed(q, x) => x.do = "drop"
<1>1. IsFiniteSet(S)
  BY FS_Subset DEF RegistryAssumption
<1>2. Cardinality(S) \in Nat /\ SetToSeq(S) \in [1..Cardinality(S) -> S]
  BY <1>1, SetInSeq
<1>3. \A k \in 1..Cardinality(S) : Chore("drop", Root, SetToSeq(S)[k]) \in AChore
  BY <1>2, Chores DEF AllScopes
<1>4. q \in Seq(AChore) /\ Len(q) = Cardinality(S) /\ \A k \in 1..Cardinality(S) : q[k].do = "drop"
  BY <1>2, <1>3, ChoreFields
<1> QED
  BY <1>4 DEF Listed

LEMMA ShutdownLists ==
  ASSUME RegistryAssumption, Shapes, Shutdown
  PROVE  /\ chores' \in Seq(AChore)
         /\ \A i : Listed(chores', ACall(i)) <=> \E s \in Service : cache[s] # 0 /\ i = cache[s]
         /\ \A i : Once(chores', ACall(i))
         /\ \A c \in open : Listed(chores', Chore("close", c, 0))
         /\ \A c : ~Listed(chores', Chore("release", c, 0))
         /\ \A s : ~Listed(chores', Chore("put", Root, s))
<1>1. PICK a : a = ForScopes("close", 0)
  OBVIOUS
<1>2. PICK b : b = <<Chore("close", Root, 0)>>
  OBVIOUS
<1>3. PICK c : c = CallsOf(callbacks)
  OBVIOUS
<1>4. PICK S \in SUBSET Service : S = {s \in Service : Scoped(reg[s])}
  OBVIOUS
<1>5. PICK d : d = [k \in 1..Cardinality(S) |-> Chore("drop", Root, SetToSeq(S)[k])]
  OBVIOUS
<1>6. chores' = ((a \o b) \o c) \o d
  BY <1>1, <1>2, <1>3, <1>4, <1>5 DEF Shutdown
<1>7. a \in Seq(AChore) /\ \A x : Listed(a, x) <=> \E e \in scopes : x = Chore("close", e, 0)
  <2>1. scopes \subseteq Scope
    BY DEF Shapes
  <2> QED
    BY <1>1, <2>1, Chores, ScopesListed
<1>8. b \in Seq(AChore) /\ \A x : Listed(b, x) <=> x = Chore("close", Root, 0)
  <2>1. Chore("close", Root, 0) \in AChore
    BY Chores DEF AllScopes
  <2> QED
    BY <1>2, <2>1, OneListed
<1>9. /\ c \in Seq(AChore) /\ \A x : Once(c, x)
      /\ \A x : Listed(c, x) <=> \E s \in Service : cache[s] # 0 /\ x = ACall(cache[s])
  <2>1. cache \in [Service -> 0..MaxInstances] /\ callbacks = cache
    BY DEF Shapes
  <2> QED
    BY <1>3, <2>1, CallsOfListed
<1>10. d \in Seq(AChore) /\ \A x : Listed(d, x) => x.do = "drop"
  BY <1>5, DropsListed
<1>11. PICK ab : ab = a \o b
  OBVIOUS
<1>12. ab \in Seq(AChore) /\ \A x : Listed(ab, x) <=> Listed(a, x) \/ Listed(b, x)
  <2>1. a \o b \in Seq(AChore) /\ \A x : Listed(a \o b, x) <=> Listed(a, x) \/ Listed(b, x)
    BY <1>7, <1>8, ListedInJoin
  <2> QED
    BY <1>11, <2>1
<1>13. \A x : Listed(ab, x) => x.do = "close"
  BY <1>7, <1>8, <1>12, ChoreFields
<1>14. PICK abc : abc = ab \o c
  OBVIOUS
<1>15. /\ abc \in Seq(AChore) /\ \A x : Listed(abc, x) <=> Listed(ab, x) \/ Listed(c, x)
       /\ \A i : Once(abc, ACall(i))
  <2>1. /\ ab \o c \in Seq(AChore) /\ \A x : Listed(ab \o c, x) <=> Listed(ab, x) \/ Listed(c, x)
        /\ \A x : Once(ab, x) /\ Once(c, x) /\ ~(Listed(ab, x) /\ Listed(c, x)) => Once(ab \o c, x)
    BY <1>9, <1>12, ListedInJoin
  <2>2. \A i : ~Listed(ab, ACall(i)) /\ Once(ab, ACall(i))
    BY <1>13, Chores, Unlisted
  <2> QED
    BY <1>9, <1>14, <2>1, <2>2
<1>16. /\ abc \o d \in Seq(AChore) /\ \A x : Listed(abc \o d, x) <=> Listed(abc, x) \/ Listed(d, x)
       /\ \A i : Once(abc \o d, ACall(i))
  <2>1. /\ abc \o d \in Seq(AChore) /\ \A x : Listed(abc \o d, x) <=> Listed(abc, x) \/ Listed(d, x)
        /\ \A x : Once(abc, x) /\ Once(d, x) /\ ~(Listed(abc, x) /\ Listed(d, x)) => Once(abc \o d, x)
    BY <1>10, <1>15, ListedInJoin
  <2>2. \A i : ~Listed(d, ACall(i)) /\ Once(d, ACall(i))
    BY <1>10, Chores, Unlisted
  <2> QED
    BY <1>15, <2>1, <2>2
<1>17. chores' = abc \o d
  BY <1>6, <1>11, <1>14
<1>18. \A x : Listed(chores', x) => x.do \in {"close", "drop"} \/ \E s \in Service : cache[s] # 0 /\ x = ACall(cache[s])
  BY <1>9, <1>10, <1>12, <1>13, <1>15, <1>16, <1>17
<1>19. ASSUME NEW i PROVE Listed(chores', ACall(i)) <=> \E s \in Service : cache[s] # 0 /\ i = cache[s]
  <2>1. ACall(i).do = "call"
    BY Chores
  <2>2. ASSUME Listed(chores', ACall(i)) PROVE \E s \in Service : cache[s] # 0 /\ i = cache[s]
    BY <1>18, <2>1, <2>2, Chores
  <2>3. ASSUME NEW s \in Service, cache[s] # 0, i = cache[s] PROVE Listed(chores', ACall(i))
    BY <1>9, <1>15, <1>16, <1>17, <2>3
  <2> QED
    BY <2>2, <2>3
<1>20. ASSUME NEW e \in open PROVE Listed(chores', Chore("close", e, 0))
  <2>1. e \in scopes \/ e = Root
    BY DEF Shapes
  <2>2. Listed(ab, Chore("close", e, 0))
    BY <1>7, <1>8, <1>12, <2>1
  <2> QED
    BY <1>15, <1>16, <1>17, <2>2
<1>21. ASSUME NEW e PROVE ~Listed(chores', Chore("release", e, 0))
  BY <1>18, Chores, ChoreFields
<1>22. ASSUME NEW s PROVE ~Listed(chores', Chore("put", Root, s))
  BY <1>18, Chores, ChoreFields
<1> QED
  BY <1>16, <1>17, <1>19, <1>20, <1>21, <1>22

LEMMA ShutdownKeeps ==
  ASSUME RegistryAssumption, RegistryBooks, Shutdown
  PROVE  RegistryBooks'
<1>1. Shapes /\ Numbers /\ Stacks /\ Places /\ HandedOut /\ Fates /\ Ending
  BY DEF RegistryBooks
<1>2. /\ UNCHANGED <<regs, given, scopes, open, held, closers, stack>>
      /\ UNCHANGED <<made, stored, late, dropped, handed, disposed>>
      /\ MainIdle /\ ~down /\ down' = TRUE /\ reg' = [s \in Service |-> NoReg]
      /\ cache' = Nothing /\ callbacks' = Nothing
  BY DEF Shutdown, history
<1>3. \A s \in Service : cache'[s] = 0 /\ reg'[s] = NoReg
  BY <1>2 DEF Nothing
<1>4. /\ chores' \in Seq(AChore)
      /\ \A i : Listed(chores', ACall(i)) <=> \E s \in Service : cache[s] # 0 /\ i = cache[s]
      /\ \A i : Once(chores', ACall(i))
      /\ \A c \in open : Listed(chores', Chore("close", c, 0))
      /\ \A c : ~Listed(chores', Chore("release", c, 0))
      /\ \A s : ~Listed(chores', Chore("put", Root, s))
  BY <1>1, ShutdownLists
<1>5. Shapes'
  <2>1. reg' \in [Service -> Reg \union {NoReg}]
    BY <1>2
  <2>2. cache' \in [Service -> 0..MaxInstances] /\ callbacks' = cache'
    BY <1>2 DEF Nothing, RegistryAssumption
  <2> QED
    BY <1>1, <1>2, <1>4, <2>1, <2>2 DEF Shapes
<1>6. Numbers'
  <2>1. \A s \in Service : reg'[s].id = 0
    BY <1>3, RegTypes
  <2>2. regs \in Nat /\ \A i \in 1..Len(made) : made[i].reg # 0
    <3>1. PICK p : p = made
      OBVIOUS
    <3>2. \A i \in 1..Len(p) : p[i] \in [service : Service, reg : 1..MaxRegs]
      BY <1>1, <3>1, ElementOfSeq DEF Shapes
    <3> QED
      BY <1>1, <3>1, <3>2 DEF Shapes
  <2> QED
    BY <1>1, <1>2, <1>3, <2>1, <2>2 DEF Numbers
<1>7. Stacks'
  <2>1. Grows
    BY <1>1, <1>2, <1>3 DEF Grows, Shapes
  <2>2. ASSUME NEW u \in Thread, At(u, "store"), given[Top(u).reg.id] = 0
        PROVE  Top(u).instance \notin stored' \union handed'
    BY <1>1, <1>2, <2>2, Fresh
  <2> QED
    BY <1>1, <1>2, <2>1, <2>2, StacksStay
<1>8. Places'
  <2>1. ASSUME NEW z \in Service PROVE CacheAgrees(z)' /\ GivenAgrees(z)'
    BY <1>3 DEF CacheAgrees, GivenAgrees
  <2>2. ASSUME NEW c \in AllScopes, NEW z \in Service PROVE HeldAgrees(c, z)'
    <3>1. HeldAgrees(c, z)
      BY <1>1 DEF Places
    <3>2. CASE held[c][z] = 0
      BY <1>2, <3>2 DEF HeldAgrees
    <3>3. CASE held[c][z] # 0
      <4>1. PICK i : i = held[c][z]
        OBVIOUS
      <4>2. i \in 1..Len(made)
        BY <1>1, <3>1, <3>3, <4>1 DEF HeldAgrees, Shapes
      <4>3. made[i].reg # 0
        <5>1. PICK p : p = made
          OBVIOUS
        <5>2. p[i] \in [service : Service, reg : 1..MaxRegs]
          BY <1>1, <4>2, <5>1, ElementOfSeq DEF Shapes
        <5> QED
          BY <5>1, <5>2
      <4>4. \A y \in Service : made[i].reg # reg'[y].id
        BY <1>3, <4>3, RegTypes
      <4> QED
        BY <1>2, <1>3, <3>1, <3>3, <4>1, <4>4 DEF HeldAgrees
    <3> QED
      BY <3>2, <3>3
  <2> QED
    BY <2>1, <2>2 DEF Places
<1>9. HandedOut'
  BY <1>3, RegTypes DEF HandedOut
<1>10. Fates'
  <2>1. ASSUME NEW i \in Instance, i \notin stored PROVE disposed[i] = 0 /\ ~IsDue(i)'
    <3>1. \A s \in Service : cache[s] # 0 => cache[s] \in stored
      BY <1>1 DEF Places, CacheAgrees
    <3> QED
      BY <1>1, <1>4, <2>1, <3>1 DEF Fates, IsDue, ACall, Chore
  <2>2. ASSUME NEW i \in Live PROVE Fate(i)'
    <3>1. i \in stored /\ i \notin late /\ i \in Instance /\ i # 0
      BY <1>1, <2>2, StoredIs DEF Live
    <3>2. Fate(i) /\ ~IsDue(i)
      BY <1>1, <1>2, <2>2 DEF Fates, MainIdle, IsDue, Listed
    <3>3. Once(chores, ACall(i))'
      BY <1>4 DEF Once, ACall, Chore
    <3>4. CASE \E s \in Service : cache[s] = i
      <4>1. PICK s \in Service : cache[s] = i
        BY <3>4
      <4>2. made[i].service = s
        BY <1>1, <3>1, <4>1 DEF Places, CacheAgrees
      <4>3. IsDue(i)'
        BY <1>4, <3>1, <4>1 DEF IsDue, ACall, Chore
      <4>4. ~IsCached(i)'
        <5>1. ASSUME NEW c \in AllScopes, NEW z \in Service, held[c][z] = i PROVE FALSE
          <6>1. HeldAgrees(c, z)
            BY <1>1 DEF Places
          <6> QED
            BY <3>1, <4>1, <4>2, <5>1, <6>1 DEF HeldAgrees
        <5> QED
          BY <1>2, <1>3, <3>1, <5>1 DEF IsCached
      <4>5. disposed[i] = 0
        BY <3>2, <4>1 DEF Fate, IsCached
      <4> QED
        BY <1>2, <3>3, <4>3, <4>4, <4>5 DEF Fate
    <3>5. CASE ~\E s \in Service : cache[s] = i
      <4>1. ~IsDue(i)'
        BY <1>4, <3>5 DEF IsDue, ACall, Chore
      <4>2. IsCached(i)' <=> IsCached(i)
        BY <1>2, <1>3, <3>1, <3>5 DEF IsCached
      <4> QED
        BY <1>2, <3>2, <3>3, <4>1, <4>2, FateStays
    <3> QED
      BY <3>4, <3>5
  <2>3. Live' = Live
    BY <1>2 DEF Live
  <2> QED
    BY <1>2, <2>1, <2>2, <2>3 DEF Fates
<1>11. Ending'
  <2>1. \A c \in scopes : c \in open
    BY <1>1, <1>2 DEF Ending, MainIdle, Listed
  <2> QED
    BY <1>2, <1>3, <1>4, <2>1 DEF Ending
<1> QED
  BY <1>5, <1>6, <1>7, <1>8, <1>9, <1>10, <1>11 DEF RegistryBooks

LEMMA DoChoreKeeps ==
  ASSUME RegistryAssumption, RegistryBooks, DoChore
  PROVE  RegistryBooks'
<1>1. PICK x : x = Head(chores)
  OBVIOUS
<1>2. chores # <<>> /\ x \in AChore
  <2>1. chores \in Seq(AChore) /\ chores # <<>>
    BY DEF RegistryBooks, Shapes, DoChore
  <2>2. PICK p \in Seq(AChore) : p = chores
    BY <2>1
  <2>3. Head(p) \in AChore
    BY <2>1, <2>2, HeadTailProperties
  <2> QED
    BY <1>1, <2>1, <2>2, <2>3
<1>3. x = Chore(x.do, x.scope, x.of)
  BY <1>2 DEF AChore, Chore
<1>4. CASE x.do = "call" /\ Call(x.of)
  <2>1. x.scope = Root
    BY <1>2, <1>4 DEF AChore
  <2>2. Head(chores) = ACall(x.of)
    BY <1>1, <1>3, <1>4, <2>1 DEF ACall
  <2> QED
    BY <1>2, <1>4, <2>2, CallKeeps
<1>5. CASE x.do = "drop" /\ Drop(x.scope, x.of)
  BY <1>1, <1>2, <1>3, <1>5, DropKeeps
<1>6. CASE x.do = "close" /\ Close(x.scope)
  <2>1. x.of = 0
    BY <1>2, <1>6 DEF AChore
  <2> QED
    BY <1>1, <1>2, <1>3, <1>6, <2>1, CloseKeeps
<1>7. CASE x.do = "release" /\ Release(x.scope)
  <2>1. x.of = 0
    BY <1>2, <1>7 DEF AChore
  <2> QED
    BY <1>1, <1>2, <1>3, <1>7, <2>1, ReleaseKeeps
<1>8. CASE x.do = "put" /\ Put(x.of)
  <2>1. x.scope = Root
    BY <1>2, <1>8 DEF AChore
  <2> QED
    BY <1>1, <1>2, <1>3, <1>8, <2>1, PutKeeps
<1> QED
  BY <1>1, <1>4, <1>5, <1>6, <1>7, <1>8 DEF DoChore

-----------------------------------------------------------------------------
(* The registry's invariant *)

LEMMA BooksBegin ==
  ASSUME RegistryAssumption, Init
  PROVE  RegistryBooks
<1>1. /\ reg = [s \in Service |-> NoReg] /\ regs = 0 /\ given = [r \in 1..MaxRegs |-> 0]
      /\ cache = Nothing /\ callbacks = Nothing /\ scopes = {} /\ open = {Root} /\ down = FALSE
      /\ held = [c \in AllScopes |-> Nothing] /\ closers = [c \in AllScopes |-> Nothing]
      /\ chores = <<>> /\ stack = [t \in Thread |-> <<>>] /\ made = <<>>
      /\ stored = {} /\ late = {} /\ dropped = {} /\ handed = {} /\ disposed = [i \in Instance |-> 0]
  BY DEF Init
<1>2. Nothing \in [Service -> 0..MaxInstances] /\ \A s \in Service : Nothing[s] = 0
  BY DEF Nothing, RegistryAssumption
<1>3. Len(made) = 0 /\ \A t \in Thread : stack[t] = <<>> /\ Len(stack[t]) = 0
  BY <1>1
<1>4. \A x : ~Listed(chores, x) /\ Once(chores, x)
  BY <1>1, NoneListed
<1>5. Shapes
  <2>1. reg \in [Service -> Reg \union {NoReg}] /\ stack \in [Thread -> Seq(Frames)]
    BY <1>1
  <2>2. disposed \in [Instance -> Nat] /\ given \in [1..MaxRegs -> 0..MaxInstances] /\ regs \in 0..MaxRegs
    BY <1>1 DEF RegistryAssumption
  <2>3. cache \in [Service -> 0..MaxInstances] /\ callbacks = cache
    BY <1>1, <1>2
  <2>4. held \in [AllScopes -> [Service -> 0..MaxInstances]] /\ closers = held
    BY <1>1, <1>2
  <2>5. chores \in Seq(AChore) /\ made \in Seq([service : Service, reg : 1..MaxRegs]) /\ Len(made) <= MaxInstances
    BY <1>1, <1>3 DEF RegistryAssumption
  <2> QED
    BY <1>1, <2>1, <2>2, <2>3, <2>4, <2>5 DEF Shapes
<1>6. Numbers
  BY <1>1, <1>3, RegTypes DEF Numbers
<1>7. Stacks
  BY <1>3 DEF Stacks, Chain, At
<1>8. Places
  BY <1>1, <1>2 DEF Places, CacheAgrees, HeldAgrees, GivenAgrees
<1>9. HandedOut
  BY <1>1 DEF HandedOut
<1>10. Fates
  BY <1>1, <1>4 DEF Fates, Live, IsDue
<1>11. Ending
  BY <1>1, <1>4 DEF Ending
<1> QED
  BY <1>5, <1>6, <1>7, <1>8, <1>9, <1>10, <1>11 DEF RegistryBooks

LEMMA BooksStay ==
  ASSUME RegistryBooks, UNCHANGED vars
  PROVE  RegistryBooks'
<1>1. /\ UNCHANGED <<reg, regs, given, cache, callbacks, scopes, open, held, closers, down, chores, stack>>
      /\ UNCHANGED <<made, stored, late, dropped, handed, disposed>>
  BY DEF vars, tables, containers, history
<1>2. Shapes' /\ Numbers' /\ Places' /\ HandedOut' /\ Ending'
  BY <1>1 DEF RegistryBooks, Shapes, Numbers, Places, HandedOut, Ending, CacheAgrees, HeldAgrees, GivenAgrees,
              Listed, Chore
<1>3. Stacks'
  BY <1>1 DEF RegistryBooks, Stacks, Chain, FrameAgrees, At, Top
<1>4. Fates'
  BY <1>1 DEF RegistryBooks, Fates, Fate, Live, IsCached, IsDue, Listed, Once, ACall, Chore
<1> QED
  BY <1>2, <1>3, <1>4 DEF RegistryBooks

LEMMA BooksStep ==
  ASSUME RegistryAssumption, RegistryBooks, [Next]_vars
  PROVE  RegistryBooks'
<1>1. CASE DoChore
  BY <1>1, DoChoreKeeps
<1>2. CASE Shutdown
  BY <1>2, ShutdownKeeps
<1>3. ASSUME NEW s \in Service, RegisterInstance(s) PROVE RegistryBooks'
  BY <1>3, RegisterInstanceKeeps
<1>4. ASSUME NEW s \in Service, ReplaceRaises(s) PROVE RegistryBooks'
  BY <1>4, ReplaceRaisesKeeps
<1>5. ASSUME NEW s \in Service, NEW offer \in Offers[s], Register(s, offer) PROVE RegistryBooks'
  BY <1>5, RegisterKeeps
<1>6. ASSUME NEW s \in Service, NEW dispose \in BOOLEAN, Unregister(s, dispose) PROVE RegistryBooks'
  BY <1>6, UnregisterKeeps
<1>7. ASSUME NEW c \in Scope, CreateScope(c) PROVE RegistryBooks'
  BY <1>7, CreateScopeKeeps
<1>8. ASSUME NEW c \in Scope, CloseScope(c) PROVE RegistryBooks'
  BY <1>8, CloseScopeKeeps
<1>9. ASSUME NEW c \in AllScopes, NEW s \in Service, NEW t \in Thread, Resolve(t, s, c) PROVE RegistryBooks'
  BY <1>9, ResolveKeeps
<1>10. ASSUME NEW t \in Thread, Work(t) PROVE RegistryBooks'
  BY <1>10, WorkKeeps
<1>11. CASE UNCHANGED vars
  BY <1>11, BooksStay
<1> QED
  BY <1>1, <1>2, <1>3, <1>4, <1>5, <1>6, <1>7, <1>8, <1>9, <1>10, <1>11 DEF Next

LEMMA BooksType ==
  ASSUME RegistryAssumption, Shapes, Numbers
  PROVE  TypeOK
<1>1. regs \in Nat
  BY DEF Shapes
<1>2. ASSUME NEW s \in Service, Registered(s)
      PROVE  /\ reg[s].id \in 1..regs
             /\ \/ [lifetime |-> reg[s].lifetime, deps |-> reg[s].deps] \in Offers[s]
                \/ given[reg[s].id] # 0 /\ Singleton(reg[s])
  <2>1. reg[s] \in Reg /\ reg[s].id \in 1..MaxRegs /\ reg[s].id <= regs
    BY <1>2, RegTypes DEF Registered, Shapes, Numbers
  <2>2. given[reg[s].id] # 0 => Singleton(reg[s])
    BY <2>1 DEF Numbers
  <2> QED
    BY <1>1, <1>2, <2>1, <2>2 DEF Registered, Numbers, RegistryAssumption
<1>3. made \in Seq([service : Service, reg : 0..MaxRegs])
  <2>1. PICK S : S = [service : Service, reg : 1..MaxRegs]
    OBVIOUS
  <2>2. PICK R : R = [service : Service, reg : 0..MaxRegs]
    OBVIOUS
  <2>3. S \subseteq R
    <3>1. 1..MaxRegs \subseteq 0..MaxRegs
      BY DEF RegistryAssumption
    <3> QED
      BY <2>1, <2>2, <3>1
  <2>4. PICK p \in Seq(S) : p = made
    BY <2>1 DEF Shapes
  <2>5. \A k \in 1..Len(p) : p[k] \in R
    BY <2>3, <2>4, ElementOfSeq
  <2>6. p \in Seq(R)
    BY <2>4, <2>5
  <2> QED
    BY <2>2, <2>4, <2>6
<1>4. open \subseteq AllScopes
  BY DEF Shapes, AllScopes
<1>5. \A table \in {cache, callbacks} \union {held[c] : c \in AllScopes} \union {closers[c] : c \in AllScopes} :
        table \in [Service -> 0..MaxInstances]
  BY DEF Shapes
<1>6. /\ regs \in 0..MaxRegs /\ given \in [1..MaxRegs -> 0..MaxInstances] /\ down \in BOOLEAN
      /\ scopes \subseteq Scope /\ stored \union late \union dropped \union handed \subseteq 1..Len(made)
  BY DEF Shapes
<1> QED
  BY <1>2, <1>3, <1>4, <1>5, <1>6 DEF TypeOK

LEMMA OneIsHandedOut ==
  ASSUME Shapes, Numbers, HandedOut
  PROVE  OneSingleton
<1> SUFFICES ASSUME NEW s \in Service, Singleton(reg[s])
             PROVE  Cardinality(MadeOf(s) \intersect handed) <= 1
  BY DEF OneSingleton
<1>1. PICK S : S = MadeOf(s) \intersect handed
  OBVIOUS
<1>2. \A i, j \in S : i = j
  <2> SUFFICES ASSUME NEW i \in S, NEW j \in S PROVE i = j
    OBVIOUS
  <2>1. i \in handed /\ j \in handed /\ made[i].reg = reg[s].id /\ made[j].reg = reg[s].id
    BY <1>1 DEF MadeOf
  <2>2. (cache[s] = i \/ given[reg[s].id] = i) /\ (cache[s] = j \/ given[reg[s].id] = j)
    BY <2>1 DEF HandedOut
  <2>3. reg[s].id \in 1..MaxRegs /\ i \in 1..Len(made) /\ j \in 1..Len(made)
    BY <1>1, RegTypes DEF Shapes, MadeOf
  <2>4. given[reg[s].id] # 0 => i = given[reg[s].id] /\ j = given[reg[s].id]
    BY <2>1, <2>3 DEF Numbers
  <2>5. i # 0 /\ j # 0
    BY <2>3
  <2> QED
    BY <2>2, <2>4, <2>5
<1>3. CASE S = {}
  BY <1>1, <1>3, FS_EmptySet
<1>4. CASE S # {}
  <2>1. PICK i \in S : TRUE
    BY <1>4
  <2>2. S = {i}
    BY <1>2, <2>1
  <2>3. Cardinality({i}) = 1
    BY FS_Singleton
  <2> QED
    BY <1>1, <2>2, <2>3
<1> QED
  BY <1>3, <1>4

LEMMA AllAreAccountedFor ==
  ASSUME RegistryAssumption, Shapes, Fates
  PROVE  AccountedFor
<1> SUFFICES ASSUME NEW i \in Live
             PROVE  Cardinality({k \in Due : chores[k].of = i}) + disposed[i]
                      + (IF i \in Entries /\ i \in Closers THEN 1 ELSE 0) = 1
  BY DEF AccountedFor, Live
<1>1. i \in Instance /\ Fate(i)
  BY StoredIs DEF Live, Fates
<1>2. (i \in Entries /\ i \in Closers) <=> IsCached(i)
  <2>1. callbacks = cache /\ closers = held
    BY DEF Shapes
  <2>2. i \in Entries <=> IsCached(i)
    BY DEF Entries, IsCached
  <2>3. i \in Closers <=> IsCached(i)
    BY <2>1 DEF Closers, IsCached
  <2> QED
    BY <2>2, <2>3
<1>3. PICK q \in Seq(AChore) : q = chores
  BY DEF Shapes
<1>4. PICK S : S = {k \in Due : chores[k].of = i}
  OBVIOUS
<1>5. S = {k \in 1..Len(q) : q[k] = ACall(i)}
  <2>1. DOMAIN q = 1..Len(q) /\ \A k \in 1..Len(q) : q[k] \in AChore
    BY <1>3, LenProperties, ElementOfSeq
  <2>2. \A x \in AChore : x.do = "call" /\ x.of = i <=> x = ACall(i)
    BY DEF AChore, ACall, Chore
  <2> QED
    BY <1>3, <1>4, <2>1, <2>2 DEF Due
<1>6. IF IsDue(i) THEN Cardinality(S) = 1 ELSE Cardinality(S) = 0
  <2>1. CASE IsDue(i)
    <3>1. PICK k \in 1..Len(q) : q[k] = ACall(i)
      BY <1>3, <2>1 DEF IsDue, Listed
    <3>2. S = {k}
      BY <1>1, <1>3, <1>5, <3>1 DEF Fate, Once
    <3>3. Cardinality({k}) = 1
      BY FS_Singleton
    <3> QED
      BY <2>1, <3>2, <3>3
  <2>2. CASE ~IsDue(i)
    <3>1. S = {}
      BY <1>3, <1>5, <2>2 DEF IsDue, Listed
    <3> QED
      BY <2>2, <3>1, FS_EmptySet
  <2> QED
    BY <2>1, <2>2
<1> HIDE DEF Live
<1>7. Cardinality(S) + disposed[i] + (IF IsCached(i) THEN 1 ELSE 0) = 1
  BY <1>1, <1>6 DEF Fate
<1> QED
  BY <1>2, <1>4, <1>7

LEMMA ClosedAtTheEnd ==
  ASSUME RegistryAssumption, Shapes, Places, Ending
  PROVE  ShutdownIsClean
<1> SUFFICES ASSUME down, MainIdle
             PROVE  scopes = {} /\ open = {} /\ (Entries \union Closers) \ {0} \subseteq late
  BY DEF ShutdownIsClean
<1>1. \A x : ~Listed(chores, x)
  BY NoneListed DEF MainIdle
<1>2. open = {} /\ scopes = {}
  BY <1>1 DEF Ending
<1>3. \A s \in Service : cache[s] # 0 => cache[s] \in late
  BY DEF Ending
<1>4. \A c \in AllScopes, s \in Service : held[c][s] # 0 => held[c][s] \in late
  BY <1>2 DEF Places, HeldAgrees
<1>5. Closers = Entries
  BY DEF Shapes, Closers, Entries
<1>6. Entries \ {0} \subseteq late
  BY <1>3, <1>4 DEF Entries
<1> QED
  BY <1>2, <1>5, <1>6

LEMMA BooksInv ==
  ASSUME RegistryAssumption, RegistryBooks
  PROVE  RegistryInv
<1>1. Shapes /\ Numbers /\ Stacks /\ Places /\ HandedOut /\ Fates /\ Ending
  BY DEF RegistryBooks
<1>2. NoCycle
  <2> SUFFICES ASSUME NEW t \in Thread, NEW j \in DOMAIN stack[t], NEW k \in DOMAIN stack[t], j # k,
                      stack[t][j].at # "lookup", stack[t][k].at # "lookup"
               PROVE  stack[t][j].service # stack[t][k].service
    BY DEF NoCycle
  <2>1. PICK q \in Seq(Frames) : q = stack[t]
    BY <1>1 DEF Shapes
  <2>2. DOMAIN q = 1..Len(q)
    BY LenProperties
  <2>3. Chain(q)
    BY <1>1, <2>1 DEF Stacks
  <2> QED
    BY <2>1, <2>2, <2>3 DEF Chain
<1> QED
  BY <1>1, <1>2, BooksType, OneIsHandedOut, AllAreAccountedFor, ClosedAtTheEnd DEF RegistryInv

\* On every interleaving of the main thread's calls with the resolves of any
\* number of threads, for any services, scopes and offers: no service waits for
\* itself, a singleton's registration hands out one instance, every stored
\* instance is cached with its on_close, or about to be disposed of, or was once,
\* and shutdown() leaves nothing but what a resolve stored too late.
THEOREM RegistryHolds ==
  ASSUME RegistryAssumption
  PROVE  Spec => []RegistryInv
<1>1. Init => RegistryBooks
  BY BooksBegin
<1>2. RegistryBooks /\ [Next]_vars => RegistryBooks'
  BY BooksStep
<1>3. RegistryBooks => RegistryInv
  BY BooksInv
<1> QED
  BY <1>1, <1>2, <1>3, PTL DEF Spec
=============================================================================
