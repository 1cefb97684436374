------------------------------ MODULE WorkPool ------------------------------
(* The pool of asyncio workers that utils/network writes out for every fan-out:
   a queue of items, workers that take one after the other until the queue is
   empty or the scan is cancelled, and a caller in queue.join().  left is what is
   queued, busy what workers hold, owed the items task_done() has not been called
   for, crew the workers that have not raised.  A worker that ends because
   nothing is left takes nothing more: it stays in crew. *)
EXTENDS Naturals, Sequences, FiniteSets

Smaller(m, n) == IF m < n THEN m ELSE n

\* max(1, min(limit, queue.qsize())) workers
Pool(items, limit) ==
  [left |-> items, busy |-> {}, owed |-> Len(items),
   crew |-> IF items = <<>> THEN 1 ELSE Smaller(limit, Len(items))]

Offered(pool) == pool.left # <<>> /\ Cardinality(pool.busy) < pool.crew

\* queue.get_nowait()
Take(pool) ==
  [pool EXCEPT !.left = Tail(@), !.busy = @ \union {Head(pool.left)}]
\* mutant of Give: task_done() is forgotten
GiveSilently(pool, x) == [pool EXCEPT !.busy = @ \ {x}]
\* The item is done and its worker goes on.
Give(pool, x) == [pool EXCEPT !.busy = @ \ {x}, !.owed = @ - 1]
\* The worker raises on its way, under a finally that calls task_done().
Lose(pool, x) == [pool EXCEPT !.busy = @ \ {x}, !.owed = @ - 1, !.crew = @ - 1]
\* The worker raises before it calls task_done().
Strand(pool, x) == [pool EXCEPT !.busy = @ \ {x}, !.crew = @ - 1]

\* queue.join() returns
Joined(pool) == pool.owed = 0
=============================================================================
