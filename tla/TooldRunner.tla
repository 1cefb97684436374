----------------------------- MODULE TooldRunner -----------------------------
(***************************************************************************)
(* The daemon's side of the plugin protocol                                *)
(* (src/coolbox/plugins/runtime/toold_runner.py): the main thread and the  *)
(* heartbeat thread write messages through one _JsonRpcStream, whose lock  *)
(* is a threading.Lock, to whatever sys.stdout is at that moment; main()   *)
(* replaces sys.stdout by a _TelemetryStream that turns each line written  *)
(* to it into another message on the same _JsonRpcStream.                  *)
(***************************************************************************)
EXTENDS Naturals

CONSTANTS Main, Beat, Free, MaxBeats
Thread == {Main, Beat}

VARIABLES
  stage,       \* of main(): loading, beating, redirected, readySent
  at,          \* per thread: run, locking, writing, forwarding
  lock,        \* the holder of _JsonRpcStream._lock
  beats        \* heartbeats begun

vars == <<stage, at, lock, beats>>

Init == /\ stage = "loading" /\ lock = Free /\ beats = 0
        /\ at = [t \in Thread |-> "run"]

StartHeartbeat ==
  /\ stage = "loading" /\ at[Main] = "run"
  /\ stage' = "beating" /\ UNCHANGED <<at, lock, beats>>

Redirect ==
  /\ stage = "beating"
  /\ stage' = "redirected" /\ UNCHANGED <<at, lock, beats>>

NotifyReady ==
  /\ stage = "redirected" /\ at[Main] = "run"
  /\ stage' = "readySent" /\ at' = [at EXCEPT ![Main] = "locking"]
  /\ UNCHANGED <<lock, beats>>

Heartbeat ==
  /\ stage # "loading" /\ at[Beat] = "run" /\ beats < MaxBeats
  /\ at' = [at EXCEPT ![Beat] = "locking"] /\ beats' = beats + 1
  /\ UNCHANGED <<stage, lock>>

Acquire(t) ==
  /\ at[t] \in {"locking", "forwarding"} /\ lock = Free
  /\ lock' = t /\ at' = [at EXCEPT ![t] = "writing"]
  /\ UNCHANGED <<stage, beats>>

(* The redirected stream sends the line as an event, inside the write.     *)
WriteLine(t) ==
  /\ at[t] = "writing"
  /\ IF stage \in {"redirected", "readySent"}
     THEN at' = [at EXCEPT ![t] = "forwarding"] /\ UNCHANGED lock
     ELSE at' = [at EXCEPT ![t] = "run"] /\ lock' = Free
  /\ UNCHANGED <<stage, beats>>

Next == \/ StartHeartbeat \/ Redirect \/ NotifyReady \/ Heartbeat
        \/ \E t \in Thread : Acquire(t) \/ WriteLine(t)

(* Both threads are scheduled, and a free lock is not withheld for ever.   *)
FairSpec == /\ Init /\ [][Next]_vars
            /\ WF_vars(StartHeartbeat \/ Redirect \/ NotifyReady) /\ WF_vars(Heartbeat)
            /\ \A t \in Thread : SF_vars(Acquire(t)) /\ WF_vars(WriteLine(t))
-----------------------------------------------------------------------------
(* "Capture stdout/stderr writes and forward them as telemetry events"     *)
(* (toold_runner.py:56): a captured line gets forwarded.                   *)
CapturedIsForwarded == \A t \in Thread : at[t] = "forwarding" ~> at[t] # "forwarding"
=============================================================================
