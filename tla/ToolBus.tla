------------------------------ MODULE ToolBus ------------------------------
(* The event side of the tool bus (tools/bus.py) with the reader the tool
   recipes run (tools/recipes.py).

   Readers are coroutines of one asyncio loop: what one does between two
   awaits is a step of its own.  Events are published either by code on the
   loop (home = "loop", as the tests do) or by the thread the setup runs on
   (home = "thread", SetupOrchestrator._publish called off the loop), where a
   publication is several steps and put_nowait does not wake a loop that
   sleeps in its selector.  A subscription is served by the bus itself or, when
   its tool has an endpoint with a subscribe handler, by that handler.  An
   invocation or a streamed call only looks its endpoint up: it changes nothing
   here. *)
EXTENDS Integers, Sequences, FiniteSets, SequencesExt

CONSTANTS Subs,        \* subscriptions, each with the coroutine that reads it
          Topics,      \* topics; a subscription's tool is named by Subs too
          Tools,       \* the subscriptions whose tool may have a handler
          Wants,       \* Wants[s]: the topics s asks for
          Limit,       \* Limit[s]: a recipe step's "limit"
          MaxEvents    \* bound: events published, and items a handler yields

BusAssumption ==
    /\ Tools \subseteq Subs
    /\ Wants \in [Subs -> SUBSET Topics] /\ Limit \in [Subs -> Nat]
    /\ MaxEvents \in Nat

VARIABLES
  home,        \* where publish is called: "loop" or "thread"
  endpoints,   \* tools with a subscribe handler (_endpoints)
  subscribers, \* subscribers[t]: queues registered for the topic
  keys,        \* topics present in the _subscribers defaultdict
  queue,       \* queue[s]: events and NONE, the end marker
  closed,      \* closed[s]: Subscription._closed
  task,        \* the reader: idle, run, get, woken, done
  forward,     \* the handler's task: none, made, run, cancel, done
  received,    \* events the reader got
  published,   \* topics of the events published so far: event n is <<topic, n>>
  pub,         \* the thread's publication: the queues left to fill
  asleep,      \* the loop waits in its selector
  since, upto  \* history: events before s opened; events complete while open

vars == <<home, endpoints, subscribers, keys, queue, closed, task, forward,
          received, published, pub, asleep, since, upto>>
history  == <<since, upto>>
registry == <<subscribers, keys>>

NONE == <<>>
Idle == [at |-> "idle", targets |-> {}]
Event == (Topics \cup Subs) \X (1 .. MaxEvents)

TypeOK ==
  /\ home \in {"loop", "thread"} /\ asleep \in BOOLEAN
  /\ endpoints \in SUBSET Subs
  /\ subscribers \in [Topics -> SUBSET Subs] /\ keys \in SUBSET Topics
  /\ queue \in [Subs -> Seq(Event \cup {NONE})]
  /\ received \in [Subs -> Seq(Event)]
  /\ closed \in [Subs -> BOOLEAN]
  /\ task \in [Subs -> {"idle", "run", "get", "woken", "done"}]
  /\ forward \in [Subs -> {"none", "made", "run", "cancel", "done"}]
  /\ published \in Seq(Topics) /\ Len(published) <= MaxEvents
  /\ pub \in [at : {"idle", "found", "put"}, targets : SUBSET Subs]
  /\ since \in [Subs -> 0 .. MaxEvents] /\ upto \in [Subs -> 0 .. MaxEvents]

Init ==
  /\ home \in {"loop", "thread"} /\ endpoints = {} /\ asleep = FALSE
  /\ subscribers = [t \in Topics |-> {}] /\ keys = {}
  /\ queue = [s \in Subs |-> <<>>] /\ received = [s \in Subs |-> <<>>]
  /\ closed = [s \in Subs |-> FALSE]
  /\ task = [s \in Subs |-> "idle"] /\ forward = [s \in Subs |-> "none"]
  /\ published = <<>> /\ pub = Idle
  /\ since = [s \in Subs |-> 0] /\ upto = [s \in Subs |-> 0]

PutSilent(ss, item) ==                   \* mutant of Put
  /\ queue' = [s \in Subs |-> IF s \in ss THEN Append(queue[s], item) ELSE queue[s]]
  /\ UNCHANGED task

(* asyncio.Queue.put_nowait into every queue of ss: a reader waiting in get is
   made ready. *)
Put(ss, item) ==
  /\ queue' = [s \in Subs |-> IF s \in ss THEN Append(queue[s], item) ELSE queue[s]]
  /\ task' = [s \in Subs |-> IF s \in ss /\ task[s] = "get" THEN "woken" ELSE task[s]]

-----------------------------------------------------------------------------
(* Endpoints.  register_worker stops at the first name that is taken and keeps
   the ones before it. *)
Register(ss) ==
  /\ ~asleep
  /\ LET taken == {i \in DOMAIN ss : ss[i] \in endpoints}
         stop  == IF taken = {} THEN Len(ss)
                  ELSE (CHOOSE i \in taken : \A j \in taken : i <= j) - 1
     IN  endpoints' = endpoints \cup {ss[i] : i \in 1 .. stop}
  /\ UNCHANGED <<home, registry, queue, closed, task, forward, received,
                 published, pub, asleep, history>>

Unregister(s) ==
  /\ ~asleep /\ s \in endpoints
  /\ endpoints' = endpoints \ {s}
  /\ UNCHANGED <<home, registry, queue, closed, task, forward, received,
                 published, pub, asleep, history>>

-----------------------------------------------------------------------------
(* Subscribing: to the handler of the tool, or to the bus. *)
Delegate(s) ==
  /\ ~asleep /\ task[s] = "idle" /\ s \in endpoints
  /\ forward' = [forward EXCEPT ![s] = "made"]
  /\ task' = [task EXCEPT ![s] = "run"]
  /\ UNCHANGED <<home, endpoints, registry, queue, closed, received, published,
                 pub, asleep, history>>

SubscribeLocal(s) ==
  /\ ~asleep /\ task[s] = "idle" /\ s \notin endpoints
  /\ subscribers' = [t \in Topics |-> IF t \in Wants[s] THEN subscribers[t] \cup {s}
                                      ELSE subscribers[t]]
  /\ keys' = keys \cup Wants[s]
  /\ task' = [task EXCEPT ![s] = "run"]
  /\ since' = [since EXCEPT ![s] = Len(published)]
  /\ upto' = [upto EXCEPT ![s] = Len(published)]
  /\ UNCHANGED <<home, endpoints, queue, closed, forward, received, published,
                 pub, asleep>>

CancelFirst(s) ==                        \* mutant of CancelOf
  IF forward[s] # "none"
  THEN /\ forward' = [forward EXCEPT ![s] = IF @ = "run" THEN "cancel" ELSE "done"]
       /\ UNCHANGED registry
  ELSE /\ LET t == CHOOSE t \in Wants[s] : TRUE IN
          subscribers' = [subscribers EXCEPT ![t] = @ \ {s}]
       /\ UNCHANGED <<forward, keys>>

(* The cancel closure of a subscription: the forwarding task is cancelled, or
   the queue leaves every topic; a topic whose set is already empty stays a
   key. *)
CancelOf(s) ==
  IF forward[s] # "none"
  THEN /\ forward' = [forward EXCEPT ![s] =
                        CASE @ = "made" -> "done" [] @ = "run" -> "cancel" [] OTHER -> @]
       /\ UNCHANGED registry
  ELSE /\ subscribers' = [t \in Topics |-> IF t \in Wants[s] THEN subscribers[t] \ {s}
                                           ELSE subscribers[t]]
       /\ keys' = keys \ {t \in Wants[s] : subscribers[t] = {s}}
       /\ UNCHANGED forward

(* Subscription.close by the reader itself, which takes nothing more. *)
CloseAndLeave(s, q) ==
  /\ task' = [task EXCEPT ![s] = "done"]
  /\ IF closed[s] THEN queue' = [queue EXCEPT ![s] = q] /\ UNCHANGED <<closed, forward, registry>>
     ELSE /\ closed' = [closed EXCEPT ![s] = TRUE]
          /\ CancelOf(s)
          /\ queue' = [queue EXCEPT ![s] = Append(q, NONE)]

-----------------------------------------------------------------------------
(* The reader: __anext__ and the loop of a recipe's subscribe step.  An end
   marker is queued with every close and the iteration stops at it, so the test
   for a closed and empty queue is never what ends it. *)
Wait(s) ==
  /\ ~asleep /\ task[s] = "run" /\ ~closed[s] /\ queue[s] = <<>>
  /\ task' = [task EXCEPT ![s] = "get"]
  /\ UNCHANGED <<home, endpoints, registry, queue, closed, forward, received,
                 published, pub, asleep, history>>

TakeAnything(s) ==                       \* mutant of TakeEvent
  /\ ~asleep /\ task[s] \in {"run", "woken"} /\ queue[s] # <<>>
  /\ received' = [received EXCEPT ![s] = Append(@, Head(queue[s]))]
  /\ queue' = [queue EXCEPT ![s] = Tail(@)]
  /\ task' = [task EXCEPT ![s] = "run"]
  /\ UNCHANGED <<home, endpoints, registry, closed, forward, published, pub,
                 asleep, history>>

TakeEvent(s) ==
  /\ ~asleep /\ task[s] \in {"run", "woken"}
  /\ queue[s] # <<>> /\ Head(queue[s]) # NONE
  /\ received' = [received EXCEPT ![s] = Append(@, Head(queue[s]))]
  /\ IF Len(received[s]) + 1 >= Limit[s]
     THEN CloseAndLeave(s, Tail(queue[s]))
     ELSE /\ queue' = [queue EXCEPT ![s] = Tail(@)]
          /\ task' = [task EXCEPT ![s] = "run"]
          /\ UNCHANGED <<closed, forward, registry>>
  /\ UNCHANGED <<home, endpoints, published, pub, asleep, history>>

(* The end marker: the iteration stops and close() finds nothing to do. *)
TakeEnd(s) ==
  /\ ~asleep /\ task[s] \in {"run", "woken"}
  /\ queue[s] # <<>> /\ Head(queue[s]) = NONE
  /\ closed' = [closed EXCEPT ![s] = TRUE]
  /\ queue' = [queue EXCEPT ![s] = Tail(@)]
  /\ task' = [task EXCEPT ![s] = "done"]
  /\ UNCHANGED <<home, endpoints, registry, forward, received, published, pub,
                 asleep, history>>

(* The reader's task is cancelled while it waits: its finally closes. *)
Interrupt(s) ==
  /\ ~asleep /\ task[s] \in {"get", "woken"}
  /\ CloseAndLeave(s, queue[s])
  /\ UNCHANGED <<home, endpoints, received, published, pub, asleep, history>>

(* Subscription.close by another coroutine of the loop. *)
Close(s) ==
  /\ ~asleep /\ task[s] \in {"run", "get", "woken"} /\ ~closed[s]
  /\ closed' = [closed EXCEPT ![s] = TRUE]
  /\ CancelOf(s)
  /\ Put({s}, NONE)
  /\ UNCHANGED <<home, endpoints, received, published, pub, asleep, history>>

-----------------------------------------------------------------------------
(* The forwarding task of a delegated subscription. *)
ForwardStart(s) ==
  /\ ~asleep /\ forward[s] = "made"
  /\ forward' = [forward EXCEPT ![s] = "run"]
  /\ UNCHANGED <<home, endpoints, registry, queue, closed, task, received,
                 published, pub, asleep, history>>

ForwardItem(s) ==
  /\ ~asleep /\ forward[s] = "run" /\ upto[s] < MaxEvents
  /\ upto' = [upto EXCEPT ![s] = @ + 1]
  /\ Put({s}, <<s, upto[s] + 1>>)
  /\ UNCHANGED <<home, endpoints, registry, closed, forward, received,
                 published, pub, asleep, since>>

ForwardEndSilent(s) ==                   \* mutant of ForwardEnd
  /\ ~asleep /\ forward[s] \in {"run", "cancel"}
  /\ forward' = [forward EXCEPT ![s] = "done"]
  /\ UNCHANGED <<home, endpoints, registry, queue, closed, task, received,
                 published, pub, asleep, history>>

(* The handler's stream ends or raises, or the cancellation arrives: whatever
   it was, the end marker follows. *)
ForwardEnd(s) ==
  /\ ~asleep /\ forward[s] \in {"run", "cancel"}
  /\ forward' = [forward EXCEPT ![s] = "done"]
  /\ Put({s}, NONE)
  /\ UNCHANGED <<home, endpoints, registry, closed, received, published, pub,
                 asleep, history>>

-----------------------------------------------------------------------------
(* Publishing.  Complete(n): the local subscriptions that are open have been
   given all they want of the events up to n (history). *)
Local == {s \in Subs : task[s] # "idle" /\ forward[s] = "none"}

Complete(n) ==
  upto' = [s \in Subs |-> IF s \in Local /\ ~closed[s] THEN n ELSE upto[s]]

PublishOnLoop(t) ==
  /\ home = "loop" /\ ~asleep /\ Len(published) < MaxEvents
  /\ published' = Append(published, t)
  /\ Put(IF t \in keys THEN subscribers[t] ELSE {}, <<t, Len(published) + 1>>)
  /\ Complete(Len(published) + 1)
  /\ UNCHANGED <<home, endpoints, registry, closed, forward, received, pub,
                 asleep, since>>

(* The thread: the membership test, then the set is listed (an absent topic is
   created anew), then one queue after another is filled. *)
PublishTest(t) ==
  /\ home = "thread" /\ pub = Idle /\ Len(published) < MaxEvents
  /\ published' = Append(published, t)
  /\ pub' = [Idle EXCEPT !.at = IF t \in keys THEN "found" ELSE "idle"]
  /\ IF t \in keys THEN UNCHANGED upto ELSE Complete(Len(published) + 1)
  /\ UNCHANGED <<home, endpoints, registry, queue, closed, task, forward,
                 received, asleep, since>>

PublishList ==
  /\ pub.at = "found"
  /\ LET t == Last(published) IN
     /\ pub' = [at |-> "put", targets |-> subscribers[t]]
     /\ keys' = keys \cup {t}
  /\ UNCHANGED <<home, endpoints, subscribers, queue, closed, task, forward,
                 received, published, asleep, history>>

PublishPut(s) ==
  /\ pub.at = "put" /\ s \in pub.targets
  /\ Put({s}, <<Last(published), Len(published)>>)
  /\ pub' = [pub EXCEPT !.targets = @ \ {s}]
  /\ UNCHANGED <<home, endpoints, registry, closed, forward, received,
                 published, asleep, history>>

PublishDone ==
  /\ pub.at = "put" /\ pub.targets = {}
  /\ pub' = Idle
  /\ Complete(Len(published))
  /\ UNCHANGED <<home, endpoints, registry, queue, closed, task, forward,
                 received, published, asleep, since>>

-----------------------------------------------------------------------------
(* The loop.  It goes to sleep when no coroutine is ready, and something of its
   own (a timer, a socket) may wake it. *)
Ready(s) == task[s] \in {"run", "woken"} \/ forward[s] \in {"made", "cancel"}

Sleep ==
  /\ ~asleep /\ \A s \in Subs : ~Ready(s)
  /\ asleep' = TRUE
  /\ UNCHANGED <<home, endpoints, registry, queue, closed, task, forward,
                 received, published, pub, history>>

Wake ==
  /\ asleep /\ asleep' = FALSE
  /\ UNCHANGED <<home, endpoints, registry, queue, closed, task, forward,
                 received, published, pub, history>>

Reader(s)    == Wait(s) \/ TakeEvent(s) \/ TakeEnd(s)
Forwarder(s) == ForwardStart(s) \/ ForwardEnd(s)
Publisher == (\E t \in Topics : PublishOnLoop(t) \/ PublishTest(t))
             \/ PublishList \/ (\E s \in Subs : PublishPut(s)) \/ PublishDone

Next ==
  \/ \E ss \in UNION {[1 .. n -> Tools] : n \in 1 .. 2} : Register(ss)
  \/ \E s \in Subs : Unregister(s) \/ Delegate(s) \/ SubscribeLocal(s) \/ Reader(s)
                     \/ Interrupt(s) \/ Close(s) \/ Forwarder(s) \/ ForwardItem(s)
  \/ Publisher \/ Sleep \/ Wake

Spec == Init /\ [][Next]_vars

(* The loop runs a coroutine that is ready; nothing wakes a sleeping loop for
   sure.  A handler that runs need not yield or end, but a cancelled one ends. *)
FairSpec ==
  /\ Spec
  /\ \A s \in Subs : /\ WF_vars(Reader(s))
                     /\ WF_vars(ForwardStart(s))
                     /\ WF_vars(forward[s] = "cancel" /\ ForwardEnd(s))

-----------------------------------------------------------------------------
\* what s has been given, end markers aside
Seen(s) == ToSet(received[s] \o queue[s]) \ {NONE}
InOrder(list) ==
  \A i, j \in DOMAIN list :
    i < j /\ list[i] # NONE /\ list[j] # NONE => list[i][2] < list[j][2]

(* What the source of s gave out as its event n. *)
Given(s, n) == IF forward[s] = "none" THEN published[n] ELSE s

(* A subscription hands out, in the order of publication and once each, the
   events of its topics (the items of its handler) given while it was open, and
   no other: only an event whose publication from the thread overlaps the
   opening or the closing may go either way. *)
EachOnceInOrder ==
  \A s \in Subs :
    LET nums  == {e[2] : e \in Seen(s)}
        slack == IF home = "thread" /\ s \in Local THEN 1 ELSE 0
    IN  /\ InOrder(received[s] \o queue[s])
        /\ \A e \in Seen(s) :
              e[1] = Given(s, e[2]) /\ (s \in Local => e[1] \in Wants[s])
        /\ \A n \in nums : since[s] - slack < n /\ n <= upto[s] + slack
        /\ \A n \in since[s] + 1 .. upto[s] :
              n \in nums \/ (s \in Local /\ published[n] \notin Wants[s])

(* Both. *)
BusInv == TypeOK /\ EachOnceInOrder

(* Once a subscription is closed, by anyone, or its handler's stream is over,
   the coroutine that iterates it ends: none waits on a queue nobody fills. *)
Over(s) == closed[s] \/ forward[s] = "done"
ClosedIterationEnds == \A s \in Subs : Over(s) ~> task[s] = "done"

(* With all publishers on the loop, a reader takes everything that is queued
   for it, unless it stops: no wake-up is lost. *)
Filled(s) == home = "loop" /\ task[s] # "done" /\ queue[s] # <<>>
Taken(s) == task[s] = "done" \/ queue[s] = <<>>
QueuedIsTaken == \A s \in Subs : Filled(s) ~> Taken(s)
=============================================================================
