------------------------- MODULE TelemetryDelivery -------------------------
(* What becomes of the telemetry of CoolBox from one start to the next:
   consent (telemetry/consent.py), the client that every recorder calls
   (telemetry/client.py) and the two storages (telemetry/storage.py), a
   JSON-lines file and, when an endpoint is configured, ClickHouse behind the
   same composite.

   The boot manager asks for consent before it sets up, the setup and its
   plugins record, and the buffered lines are written once, when the run ends
   (boot/manager.py).  A flush writes line by line and may fail, or die with the
   program, at any of them; an event whose metadata cannot be encoded fails
   every flush at its line.  The lines of a run that has been told apart from
   others are its events. *)
EXTENDS Naturals, Sequences, SequencesExt

CONSTANTS
  Event,        \* what is recorded
  Unencodable,  \* events whose metadata JSON cannot express
  Remote,       \* BOOLEAN: an endpoint is configured
  BatchSize,    \* events that ClickHouse takes at once
  Bad,          \* a whole line that does not parse
  MaxRuns,      \* starts of the program
  MaxTroubles   \* writes and posts that fail, and deaths of the program

TelemetryAssumption ==
  /\ Unencodable \subseteq Event /\ Remote \in BOOLEAN /\ Bad \notin Event
  /\ BatchSize \in Nat \ {0} /\ MaxRuns \in Nat \ {0} /\ MaxTroubles \in Nat

VARIABLES
  stage,      \* "asking" for consent, "recording", "flushing", "ended"
  consent,    \* the stored decision: "none", "granted", "denied"
  granted,    \* the decision for this run
  enabled,    \* _enabled of the client
  recorded,   \* events of this run, in order
  buffer,     \* of the file's storage
  lines,      \* the whole lines of telemetry.jsonl
  torn,       \* it has a last line that was cut off
  known,      \* events the knowledge base was hydrated with or has observed
  batch,      \* ClickHouse's buffer
  sent, lost, \* events that ClickHouse took, and that were in a failed post
  before,     \* whole lines the file had when this run began
  spoilt,     \* it ended with one that was cut off then
  written,    \* lines that this run has written
  used,       \* events recorded so far, by any run
  runs, troubles

telemetryVars == <<stage, consent, granted, enabled, recorded, buffer, lines, torn, known, batch,
                   sent, lost, before, spoilt, written, used, runs, troubles>>

TelemetryTypeOK ==
  /\ stage \in {"asking", "recording", "flushing", "ended"}
  /\ consent \in {"none", "granted", "denied"} /\ granted \in BOOLEAN /\ enabled \in BOOLEAN
  /\ recorded \in Seq(Event) /\ buffer \in Seq(Event) /\ batch \in Seq(Event)
  /\ lines \in Seq(Event \union {Bad}) /\ torn \in BOOLEAN /\ spoilt \in BOOLEAN
  /\ known \subseteq Event
  /\ sent \subseteq Event /\ used \subseteq Event /\ lost \subseteq Event
  /\ before \in 0..Len(lines) /\ written \in 0..Len(recorded)
  /\ runs \in 1..MaxRuns /\ troubles \in 0..MaxTroubles

\* bootstrap(): one line that does not parse and nothing is read.
Bootstrap == IF torn \/ Bad \in ToSet(lines) THEN {} ELSE ToSet(lines)

TelemetryInit ==
  /\ stage = "asking" /\ consent \in {"none", "granted", "denied"}
  /\ granted = FALSE /\ enabled = TRUE
  /\ recorded = <<>> /\ buffer = <<>> /\ lines = <<>> /\ torn = FALSE /\ known = {}
  /\ batch = <<>> /\ sent = {} /\ lost = {} /\ before = 0 /\ spoilt = FALSE /\ written = 0
  /\ used = {} /\ runs = 1 /\ troubles = 0

Trouble(n) == troubles + n <= MaxTroubles /\ troubles' = troubles + n
Cost(ok) == IF ok THEN 0 ELSE 1

\* The decision: COOLBOX_TELEMETRY, else the stored one, else "denied", which
\* is stored.
Decision(env) ==
  IF env = "unset"
  THEN granted' = (consent = "granted")
       /\ consent' = IF consent = "none" THEN "denied" ELSE consent
  ELSE granted' = (env = "on") /\ UNCHANGED consent

\* mutant of Ask: the client stays as it is
AskOnly(env) ==
  /\ stage = "asking" /\ stage' = "recording" /\ Decision(env)
  /\ UNCHANGED <<enabled, recorded, buffer, lines, torn, known, batch, sent, lost, before,
                 spoilt, written, used, runs, troubles>>

\* Without consent the client is disabled, for this run.
Ask(env) ==
  /\ stage = "asking" /\ stage' = "recording" /\ Decision(env)
  /\ enabled' = granted'
  /\ UNCHANGED <<recorded, buffer, lines, torn, known, batch, sent, lost, before, spoilt,
                 written, used, runs, troubles>>

\* _flush_locked(): the buffer is emptied first; a post that fails, and rows
\* that cannot be encoded, are no more than logged.
Post(events, ok) ==
  /\ batch' = <<>>
  /\ IF ok /\ ToSet(events) \intersect Unencodable = {}
     THEN sent' = sent \union ToSet(events) /\ UNCHANGED lost
     ELSE lost' = lost \union ToSet(events) /\ UNCHANGED sent

Persist(e, ok) ==
  /\ buffer' = Append(buffer, e)
  /\ IF Remote /\ Len(batch) + 1 >= BatchSize
     THEN Post(Append(batch, e), ok)
     ELSE /\ ok /\ UNCHANGED <<sent, lost>>
          /\ batch' = IF Remote THEN Append(batch, e) ELSE batch

\* _record(): nothing is kept of what a disabled client is told.  Events are
\* told apart, so that each is recorded once.
Record(e, ok) ==
  /\ stage = "recording" /\ e \notin used
  /\ recorded' = Append(recorded, e) /\ used' = used \union {e}
  /\ IF enabled
     THEN Persist(e, ok) /\ known' = known \union {e}
     ELSE ok /\ UNCHANGED <<buffer, known, batch, sent, lost>>
  /\ Trouble(Cost(ok))
  /\ UNCHANGED <<stage, consent, granted, enabled, lines, torn, before, spoilt, written, runs>>

\* The run ends, after the application or instead of it: the client flushes,
\* unless it is disabled or has nothing.
RunEnds ==
  /\ stage = "recording"
  /\ stage' = IF enabled /\ buffer # <<>> THEN "flushing" ELSE "ended"
  /\ UNCHANGED <<consent, granted, enabled, recorded, buffer, lines, torn, known, batch, sent,
                 lost, before, spoilt, written, used, runs, troubles>>

\* A line that was cut off has no end, so that the next one is appended to it.
WriteLine ==
  /\ stage = "flushing" /\ written < Len(buffer) /\ buffer[written + 1] \notin Unencodable
  /\ lines' = Append(lines, IF torn THEN Bad ELSE buffer[written + 1]) /\ torn' = FALSE
  /\ written' = written + 1
  /\ UNCHANGED <<stage, consent, granted, enabled, recorded, buffer, known, batch, sent, lost,
                 before, spoilt, used, runs, troubles>>

\* The composite goes on to ClickHouse, whatever became of the file.
Rest(ok) == IF batch # <<>> THEN Post(batch, ok) ELSE ok /\ UNCHANGED <<batch, sent, lost>>

\* mutant of Written: the flush of the composite stops at its first storage
WrittenOnly(ok) ==
  /\ stage = "flushing" /\ written = Len(buffer)
  /\ buffer' = <<>> /\ stage' = "ended"
  /\ ok /\ Trouble(0)
  /\ UNCHANGED <<consent, granted, enabled, recorded, lines, torn, known, batch, sent, lost,
                 before, spoilt, written, used, runs>>

Written(ok) ==
  /\ stage = "flushing" /\ written = Len(buffer)
  /\ buffer' = <<>> /\ stage' = "ended"
  /\ Rest(ok) /\ Trouble(Cost(ok))
  /\ UNCHANGED <<consent, granted, enabled, recorded, lines, torn, known, before, spoilt,
                 written, used, runs>>

\* An event that cannot be encoded ends the flush at its line.  The lines so
\* far are in the file; the buffer is kept, for a run that is over.
CannotEncode(ok) ==
  /\ stage = "flushing" /\ written < Len(buffer) /\ buffer[written + 1] \in Unencodable
  /\ stage' = "ended"
  /\ Rest(ok) /\ Trouble(Cost(ok))
  /\ UNCHANGED <<consent, granted, enabled, recorded, buffer, lines, torn, known, before,
                 spoilt, written, used, runs>>

\* The file takes no more, at the end of a line or within one.
CannotWrite(ok, within) ==
  /\ stage = "flushing" /\ written < Len(buffer)
  /\ stage' = "ended" /\ torn' = (torn \/ within)
  /\ Rest(ok) /\ Trouble(1 + Cost(ok))
  /\ UNCHANGED <<consent, granted, enabled, recorded, buffer, lines, known, before, spoilt,
                 written, used, runs>>

\* The program dies, and what is buffered with it.
Dies(within) ==
  /\ stage # "ended" /\ stage' = "ended" /\ Trouble(1)
  /\ within => stage = "flushing" /\ written < Len(buffer)
  /\ torn' = (torn \/ within)
  /\ recorded' = SubSeq(recorded, 1, written)
  /\ buffer' = <<>> /\ batch' = <<>> /\ sent' = {} /\ lost' = {}
  /\ UNCHANGED <<consent, granted, enabled, lines, known, before, spoilt, written, used, runs>>

\* opt_in() and opt_out() store a decision for the next start.
Decide(d) ==
  /\ stage = "ended" /\ consent # d /\ consent' = d
  /\ UNCHANGED <<stage, granted, enabled, recorded, buffer, lines, torn, known, batch, sent,
                 lost, before, spoilt, written, used, runs, troubles>>

\* The next start reads what the file has.
NextStart ==
  /\ stage = "ended" /\ runs < MaxRuns
  /\ stage' = "asking" /\ runs' = runs + 1 /\ enabled' = TRUE /\ granted' = FALSE
  /\ known' = Bootstrap /\ before' = Len(lines) /\ spoilt' = torn /\ written' = 0
  /\ recorded' = <<>> /\ buffer' = <<>> /\ batch' = <<>> /\ sent' = {} /\ lost' = {}
  /\ UNCHANGED <<consent, lines, torn, used, troubles>>

TelemetryNext ==
  \/ \E env \in {"unset", "on", "off"} : Ask(env)
  \/ \E e \in Event, ok \in BOOLEAN : Record(e, ok)
  \/ RunEnds \/ WriteLine
  \/ \E ok \in BOOLEAN : Written(ok) \/ CannotEncode(ok)
  \/ \E ok \in BOOLEAN, within \in BOOLEAN : CannotWrite(ok, within)
  \/ \E within \in BOOLEAN : Dies(within)
  \/ \E d \in {"granted", "denied"} : Decide(d)
  \/ NextStart

TelemetrySpec == TelemetryInit /\ [][TelemetryNext]_telemetryVars

-----------------------------------------------------------------------------
(* Properties *)

\* A run without consent leaves nothing behind, in a buffer, the file or
\* ClickHouse, although its recorders and the final flush go on calling.
ConsentRespected ==
  ~granted => /\ Len(lines) = before /\ (torn <=> spoilt)
              /\ buffer = <<>> /\ batch = <<>> /\ sent = {} /\ lost = {}

\* What a run with consent recorded is in the file or the buffer, in its order,
\* whatever a flush met: its lines are a beginning of it, but for a first line
\* that a torn one spoilt, and the buffer still has all of it until the file has.
LineOf(k) == IF k = 1 /\ spoilt THEN Bad ELSE recorded[k]
NothingForgotten ==
  /\ Len(lines) = before + written
  /\ \A k \in 1..written : lines[before + k] = LineOf(k)
  /\ granted => buffer = recorded \/ (stage = "ended" /\ written = Len(recorded))

\* No event is in the file twice, and ClickHouse is told of an event once: it
\* waits in the batch, was taken or was lost, and never waits once the run is
\* over.
OncePerSink ==
  /\ \A i, j \in DOMAIN lines : lines[i] = lines[j] /\ lines[i] \in Event => i = j
  /\ \A i \in DOMAIN batch : batch[i] \notin sent \union lost
  /\ sent \intersect lost = {}
  /\ Len(batch) < BatchSize
  /\ stage = "ended" => batch = <<>>

\* What the knowledge base learned of this run is what was recorded.
KnowsTheRun == granted => \A k \in DOMAIN recorded : recorded[k] \in known

\* What leads there: the client is enabled as the run is allowed to, the batch
\* has nothing that the buffer has not, and an event is recorded once.
Allowed ==
  /\ stage = "asking" => ~granted /\ recorded = <<>>
  /\ stage \in {"recording", "flushing"} => enabled = granted
  /\ stage = "flushing" => granted
  /\ stage \in {"asking", "recording"} => written = 0
  /\ stage # "ended" => (torn <=> spoilt /\ written = 0)
  /\ stage = "recording" /\ buffer = <<>> => batch = <<>>
  /\ ~Remote => batch = <<>>
RecordedOnce ==
  /\ \A i \in DOMAIN lines : lines[i] \in used \union {Bad}
  /\ \A k \in DOMAIN recorded : recorded[k] \in used
  /\ \A i \in DOMAIN batch : batch[i] \in used
  /\ sent \subseteq used /\ lost \subseteq used
  /\ \A i, k \in DOMAIN recorded : recorded[i] = recorded[k] => i = k
  /\ \A i \in 1..before, k \in DOMAIN recorded : lines[i] # recorded[k]

TelemetryInv ==
  TelemetryTypeOK /\ ConsentRespected /\ NothingForgotten /\ OncePerSink /\ KnowsTheRun
    /\ Allowed /\ RecordedOnce
=============================================================================
