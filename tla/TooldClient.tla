----------------------------- MODULE TooldClient -----------------------------
(***************************************************************************)
(* TooldProcess (src/coolbox/plugins/runtime/toold_client.py): threads of  *)
(* the host call a plugin that runs in a daemon process.  A reader thread  *)
(* files the daemon's replies by request id, a second one drains stderr,   *)
(* callers poll for their reply, and one thread shuts the daemon down:     *)
(* the constructor after a ready timeout, a reload or an unregister later. *)
(*                                                                         *)
(* The daemon (toold_runner.py main) is modelled by what it may put on its *)
(* stdout and by when it exits, hangs or crashes.                          *)
(***************************************************************************)
EXTENDS Naturals, Sequences

CONSTANTS
  Caller,     \* threads that call the plugin
  Stop,       \* stands for the shutdown request, which has an id as well
  Noise,      \* raw lines on the daemon's stdout: "text", or "scalar" for one
              \* that is JSON but no object
  MaxCalls,   \* bound on calls per thread
  MaxNoise    \* bound on raw lines

ASSUME CallerAssumption ==
  /\ Stop \notin Caller
  /\ Noise \subseteq {"text", "scalar"} /\ MaxCalls \in Nat /\ MaxNoise \in Nat

VARIABLES
  start,      \* __init__: waiting, ready, failed
  stop,       \* shutdown(): idle, flagged, sent, outClosed, errClosed, done
  shut,       \* the _shutdown event
  readySet,   \* the _ready_event
  nextId,     \* _next_id
  pc,         \* per caller: idle, checked, sending, waiting
  id,         \* per caller: request_id
  got,        \* per caller: the owner of the reply its last call returned
  calls,      \* per caller: calls begun
  responses,  \* _responses: id -> owner of the request that was answered
  reader,     \* _stdout_loop: reading, handling, ended, dead
  msg,        \* the message the reader handles
  errReader,  \* _stderr_loop: reading, ended
  stdinOpen, inq, outq,   \* the pipes
  daemon,     \* loading, serving, hung, gone
  noise       \* raw lines written

host == <<start, stop, shut, readySet>>
call == <<nextId, pc, id, got, calls>>
read == <<responses, reader, msg, errReader>>
peer == <<stdinOpen, inq, outq, daemon, noise>>
vars == <<host, call, read, peer>>

Owner == Caller \cup {Stop}
Alive == daemon # "gone"               \* poll() is None
Ready == [kind |-> "ready", id |-> 0, owner |-> Stop]
Reply(r) == [kind |-> "reply", id |-> r.id, owner |-> r.owner]
Raw(k) == [kind |-> k, id |-> 0, owner |-> Stop]

Init ==
  /\ start = "waiting" /\ stop = "idle" /\ shut = FALSE /\ readySet = FALSE
  /\ nextId = 1
  /\ pc = [c \in Caller |-> "idle"] /\ id = [c \in Caller |-> 0]
  /\ got = [c \in Caller |-> c] /\ calls = [c \in Caller |-> 0]
  /\ responses = {} /\ reader = "reading" /\ msg = Ready /\ errReader = "reading"
  /\ stdinOpen = TRUE /\ inq = <<>> /\ outq = <<>>
  /\ daemon = "loading" /\ noise = 0

-----------------------------------------------------------------------------
(* __init__ waits for the ready notification *)

Started ==
  /\ start = "waiting" /\ stop = "idle" /\ readySet
  /\ start' = "ready"
  /\ UNCHANGED <<stop, shut, readySet, call, read, peer>>

TimeoutUnflagged ==                       \* mutant of ReadyTimeout
  /\ start = "waiting" /\ stop = "idle" /\ ~readySet
  /\ stop' = IF shut THEN "done" ELSE "flagged"
  /\ UNCHANGED <<start, shut, readySet, call, read, peer>>

WaitAgain ==                              \* mutant of ReadyTimeout
  /\ start = "waiting" /\ stop = "idle" /\ ~readySet
  /\ stop' = IF shut THEN "idle" ELSE "flagged"
  /\ shut' = TRUE
  /\ UNCHANGED <<start, readySet, call, read, peer>>

(* the wait times out and calls shutdown() *)
ReadyTimeout ==
  /\ start = "waiting" /\ stop = "idle" /\ ~readySet
  /\ stop' = IF shut THEN "done" ELSE "flagged"
  /\ shut' = TRUE
  /\ UNCHANGED <<start, readySet, call, read, peer>>

StartFailed ==
  /\ start = "waiting" /\ stop = "done"
  /\ start' = "failed"
  /\ UNCHANGED <<stop, shut, readySet, call, read, peer>>

-----------------------------------------------------------------------------
(* shutdown() *)

Shutdown ==
  /\ start = "ready" /\ stop = "idle"
  /\ stop' = IF shut THEN "done" ELSE "flagged"
  /\ shut' = TRUE
  /\ UNCHANGED <<start, readySet, call, read, peer>>

SkipUnready ==                            \* mutant of SendStop
  /\ stop = "flagged" /\ stop' = IF readySet THEN "sent" ELSE "done"
  /\ inq' = IF Alive /\ readySet THEN Append(inq, [id |-> nextId, owner |-> Stop]) ELSE inq
  /\ UNCHANGED <<start, shut, readySet, call, read, stdinOpen, outq, daemon, noise>>

(* the request takes the next id without using it up *)
SendStop ==
  /\ stop = "flagged" /\ stop' = "sent"
  /\ inq' = IF Alive THEN Append(inq, [id |-> nextId, owner |-> Stop]) ELSE inq
  /\ UNCHANGED <<start, shut, readySet, call, read, stdinOpen, outq, daemon, noise>>

CloseStdin ==
  /\ stop = "sent" /\ stdinOpen
  /\ stdinOpen' = FALSE
  /\ UNCHANGED <<host, call, read, inq, outq, daemon, noise>>

(* close() needs the buffer's lock, which a thread blocked in a read holds *)
CloseStdout ==
  /\ stop = "sent" /\ ~stdinOpen /\ reader # "reading"
  /\ stop' = "outClosed"
  /\ UNCHANGED <<start, shut, readySet, call, read, peer>>

CloseStderr ==
  /\ stop = "outClosed" /\ errReader # "reading"
  /\ stop' = "errClosed"
  /\ UNCHANGED <<start, shut, readySet, call, read, peer>>

Terminate ==
  /\ stop = "errClosed"
  /\ stop' = "done" /\ daemon' = "gone"
  /\ UNCHANGED <<start, shut, readySet, call, read, stdinOpen, inq, outq, noise>>

-----------------------------------------------------------------------------
(* call() *)

Check(c) ==
  /\ start = "ready" /\ pc[c] = "idle" /\ calls[c] < MaxCalls
  /\ calls' = [calls EXCEPT ![c] = @ + 1]
  /\ pc' = [pc EXCEPT ![c] = IF shut \/ ~Alive THEN "idle" ELSE "checked"]
  /\ UNCHANGED <<host, nextId, id, got, read, peer>>

ReuseId(c) ==                             \* mutant of TakeId
  /\ pc[c] = "checked"
  /\ id' = [id EXCEPT ![c] = nextId] /\ nextId' = nextId
  /\ pc' = [pc EXCEPT ![c] = "sending"]
  /\ UNCHANGED <<host, got, calls, read, peer>>

TakeId(c) ==
  /\ pc[c] = "checked"
  /\ id' = [id EXCEPT ![c] = nextId] /\ nextId' = nextId + 1
  /\ pc' = [pc EXCEPT ![c] = "sending"]
  /\ UNCHANGED <<host, got, calls, read, peer>>

Send(c) ==
  /\ pc[c] = "sending"
  /\ \/ /\ stdinOpen /\ Alive
        /\ inq' = Append(inq, [id |-> id[c], owner |-> c])
        /\ pc' = [pc EXCEPT ![c] = "waiting"]
     \/ /\ ~(stdinOpen /\ Alive)
        /\ pc' = [pc EXCEPT ![c] = "idle"] /\ inq' = inq
  /\ UNCHANGED <<host, nextId, id, got, calls, read, stdinOpen, outq, daemon, noise>>

Answers(c) == {r \in responses : r.id = id[c]}

(* notified, or after a second of waiting *)
Return(c) ==
  /\ pc[c] = "waiting"
  /\ \E r \in Answers(c) :
       /\ responses' = responses \ {r}
       /\ got' = [got EXCEPT ![c] = r.owner]
  /\ pc' = [pc EXCEPT ![c] = "idle"]
  /\ UNCHANGED <<host, nextId, id, calls, reader, msg, errReader, peer>>

Raise(c) ==
  /\ pc[c] = "waiting" /\ Answers(c) = {} /\ (shut \/ ~Alive)
  /\ pc' = [pc EXCEPT ![c] = "idle"]
  /\ UNCHANGED <<host, nextId, id, got, calls, read, peer>>

-----------------------------------------------------------------------------
(* the reader threads *)

ReadLine ==
  /\ reader = "reading" /\ outq # <<>>
  /\ msg' = Head(outq) /\ outq' = Tail(outq) /\ reader' = "handling"
  /\ UNCHANGED <<host, call, responses, errReader, stdinOpen, inq, daemon, noise>>

HandleLatest ==                           \* mutant of HandleLine
  /\ reader = "handling"
  /\ readySet' = (readySet \/ msg.kind = "ready")
  /\ responses' = IF msg.kind = "reply" /\ msg.id = nextId - 1
                  THEN responses \cup {[id |-> msg.id, owner |-> msg.owner]}
                  ELSE responses
  /\ reader' = "reading"
  /\ UNCHANGED <<start, stop, shut, call, msg, errReader, peer>>

(* A further read of a closed stream raises, and so does msg.get of a      *)
(* scalar; either ends the thread without setting _shutdown.               *)
HandleLine ==
  /\ reader = "handling"
  /\ readySet' = (readySet \/ msg.kind = "ready")
  /\ responses' = IF msg.kind = "reply"
                  THEN {r \in responses : r.id # msg.id}
                         \cup {[id |-> msg.id, owner |-> msg.owner]}
                  ELSE responses
  /\ reader' = IF msg.kind = "scalar" \/ stop \in {"outClosed", "errClosed", "done"}
               THEN "dead" ELSE "reading"
  /\ UNCHANGED <<start, stop, shut, call, msg, errReader, peer>>

ReadEnd ==
  /\ reader = "reading" /\ outq = <<>> /\ ~Alive
  /\ reader' = "ended" /\ shut' = TRUE
  /\ UNCHANGED <<start, stop, readySet, call, responses, msg, errReader, peer>>

ErrEnd ==
  /\ errReader = "reading" /\ ~Alive
  /\ errReader' = "ended" /\ shut' = TRUE
  /\ UNCHANGED <<start, stop, readySet, call, responses, reader, msg, peer>>

-----------------------------------------------------------------------------
(* the daemon process *)

Load ==
  /\ daemon = "loading"
  /\ \/ daemon' = "serving" /\ outq' = Append(outq, Ready)
     \/ daemon' = "gone" /\ outq' = outq
  /\ UNCHANGED <<host, call, read, stdinOpen, inq, noise>>

Serve ==
  /\ daemon = "serving" /\ inq # <<>>
  /\ inq' = Tail(inq) /\ outq' = Append(outq, Reply(Head(inq)))
  /\ daemon' = IF Head(inq).owner = Stop THEN "gone" ELSE "serving"
  /\ UNCHANGED <<host, call, read, stdinOpen, noise>>

Write ==
  /\ daemon \in {"loading", "serving"} /\ noise < MaxNoise
  /\ \E k \in Noise : outq' = Append(outq, Raw(k))
  /\ noise' = noise + 1
  /\ UNCHANGED <<host, call, read, stdinOpen, inq, daemon>>

\* the plugin blocks its process for ever
Hang ==
  /\ daemon \in {"loading", "serving"}
  /\ daemon' = "hung"
  /\ UNCHANGED <<host, call, read, stdinOpen, inq, outq, noise>>

Die ==
  /\ Alive /\ daemon' = "gone"
  /\ UNCHANGED <<host, call, read, stdinOpen, inq, outq, noise>>

-----------------------------------------------------------------------------
Constructor == Started \/ ReadyTimeout \/ StartFailed
Stopper     == SendStop \/ CloseStdin \/ CloseStdout \/ CloseStderr \/ Terminate
Calling(c)  == TakeId(c) \/ Send(c) \/ Return(c) \/ Raise(c)
Reading     == ReadLine \/ HandleLine \/ ReadEnd
Daemon      == Load \/ Serve

Next ==
  \/ Constructor \/ Shutdown \/ Stopper \/ Reading \/ ErrEnd
  \/ \E c \in Caller : Check(c) \/ Calling(c)
  \/ Daemon \/ Write \/ Hang \/ Die

Spec == Init /\ [][Next]_vars

(* Every thread is scheduled again and again; a daemon that has not hung   *)
(* goes on serving.  Nothing makes a shutdown, a call or a crash happen.   *)
FairSpec ==
  /\ Spec
  /\ WF_vars(Constructor) /\ WF_vars(Stopper) /\ WF_vars(Reading) /\ WF_vars(ErrEnd)
  /\ \A c \in Caller : WF_vars(Calling(c))
  /\ WF_vars(Daemon)
-----------------------------------------------------------------------------
(* Properties *)

TypeOK ==
  /\ start \in {"waiting", "ready", "failed"}
  /\ stop \in {"idle", "flagged", "sent", "outClosed", "errClosed", "done"}
  /\ shut \in BOOLEAN /\ readySet \in BOOLEAN /\ nextId \in Nat
  /\ stop # "idle" => shut
  /\ pc \in [Caller -> {"idle", "checked", "sending", "waiting"}]
  /\ id \in [Caller -> Nat] /\ got \in [Caller -> Owner] /\ calls \in [Caller -> 0..MaxCalls]
  /\ responses \subseteq [id : Nat, owner : Owner]
  /\ reader \in {"reading", "handling", "ended", "dead"}
  /\ errReader \in {"reading", "ended"}
  /\ stdinOpen \in BOOLEAN /\ daemon \in {"loading", "serving", "hung", "gone"}
  /\ inq \in Seq([id : Nat, owner : Owner]) /\ noise \in 0..MaxNoise
  /\ outq \in Seq([kind : {"ready", "reply", "text", "scalar"}, id : Nat, owner : Owner])
  /\ msg \in [kind : {"ready", "reply", "text", "scalar"}, id : Nat, owner : Owner]

(* No call returns the answer to another thread's call, although replies   *)
(* are matched by id alone and ids are taken without a lock.  (The answer  *)
(* to the shutdown request can still be taken for a call's: its id is      *)
(* handed out again.)                                                      *)
NoForeignAnswer == \A c \in Caller : got[c] \in {c, Stop}

(* A caller that waits is not left behind by the threads that could wake   *)
(* it: as long as the reader lives, its reply is on its way, filed, or the *)
(* daemon's end is going to be noticed.                                    *)
WaiterHasHope ==
  \A c \in Caller : pc[c] = "waiting" /\ reader # "dead" =>
    \/ Answers(c) # {} \/ shut \/ ~Alive
    \/ \E i \in 1..Len(inq) : inq[i].id = id[c]
    \/ \E i \in 1..Len(outq) : outq[i].kind = "reply" /\ outq[i].id = id[c]
    \/ reader = "handling" /\ msg.kind = "reply" /\ msg.id = id[c]

(* The three of them.                                                      *)
ClientInv == TypeOK /\ NoForeignAnswer /\ WaiterHasHope

(* "Raised when the toold subprocess fails or becomes unavailable"         *)
(* (toold_client.py:18): every call ends, with a result or that error,     *)
(* unless the daemon hangs or a scalar line has ended the reader.          *)
Waiting(c) == pc[c] = "waiting"
Answered(c) == pc[c] = "idle" \/ daemon = "hung" \/ reader = "dead"
CallEnds == \A c \in Caller : Waiting(c) ~> Answered(c)

(* So does the constructor, also when no ready message comes in time ...   *)
Begun == start \in {"ready", "failed"} \/ daemon = "hung"
StartEnds == start = "waiting" ~> Begun

(* ... even with a daemon that hangs: TooldProcessError is "Raised when    *)
(* the toold subprocess fails or becomes unavailable" (line 18).           *)
StartNeverHangs == start = "waiting" ~> start \in {"ready", "failed"}

(* A shutdown leaves no daemon behind, also after a failed start.          *)
Killed == ~Alive \/ daemon = "hung"
ShutdownKills == stop # "idle" ~> Killed
=============================================================================
