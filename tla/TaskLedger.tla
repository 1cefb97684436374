----------------------------- MODULE TaskLedger -----------------------------
(***************************************************************************)
(* What a resumable setup run promises (src/coolbox/setup/orchestrator.py):*)
(* a ledger of completed tasks that survives crashes, to which a task is   *)
(* added once, after everything it depends on, and from which nothing is   *)
(* ever lost but by starting a new ledger.                                 *)
(***************************************************************************)
CONSTANTS Task, Deps
VARIABLE completed

Init == completed = {}

Complete(t) ==
  /\ t \notin completed /\ Deps[t] \subseteq completed
  /\ completed' = completed \cup {t}

StartOver == completed' = {}

Next == (\E t \in Task : Complete(t)) \/ StartOver

Spec == Init /\ [][Next]_completed
=============================================================================
