-------------------------- MODULE AdaptiveSampling --------------------------
(* How the process watcher (utils/processes/monitor.py) comes to measure one process
   less often than the others.

   Its pace: the longer the process is at rest, the more visits leave its CPU time
   out, until something stirs.  Every visit asks _should_skip_cpu() twice, before the
   figures are collected and while they are, and each time what is asked has effects.
   The first time nothing catches what it raises: the watcher's thread ends.

   Its details: whether its entry counts as stable or as normal, when the details are
   collected, and where the number of open files comes from.  They are counted by a
   look at the process, by a scan for the processes of one batch or by one over the
   whole machine.

   The two have nothing in common but the visit: what the figures say of it, and how
   many entries want their files counted, is its input. *)
EXTENDS Integers, FiniteSetsExt

CONSTANTS
  IdleCycles,     \* idle_cycles: samples at rest before any visit is left out
  MaxSkip,        \* max_skip: visits left out in a row
  Mult,           \* idle_mult, a whole number
  Grace,          \* idle_grace
  ActiveSamples,  \* idle_active_samples
  TrendSamples,   \* idle_trend_samples
  Recheck,        \* idle_check_interval, in units of time
  Refresh,        \* idle_refresh
  Gaps,           \* the times that pass between two visits
  NormalWindow,   \* _normal_window
  MaxCycles,      \* the most _stable_cycles comes to, 20
  StableSkip,     \* _stable_skip
  Target,         \* target_detail_interval
  Stretch,        \* how many times that the interval may come to, 5
  FileInterval,   \* file_interval
  Ttl,            \* cache_ttl
  Gap             \* the most time that passes between two visits

VARIABLES
  pace,      \* what is counted: see Paces
  known,     \* it has an entry in the snapshot
  trending,  \* one of the entry's trending flags is set
  waited,    \* time since the last sample, up to Refresh
  skipped,   \* (history) visits left out in a row
  seen,      \* (history) visits since it has an entry that did not leave it out
  astir,     \* (history) samples in a row that did not find it at rest
  owed,      \* (history) such visits still to come since it was last woken
  ended,     \* what the watcher's thread has ended by: "no", "listed" or "asked"
  since,     \* time since _detail_ts
  every,     \* detail_interval
  same,      \* _stable_counts, from MaxCycles + StableSkip on as if it were so much less
  cycles,    \* _stable_cycles
  quiet,     \* _normal_counts, up to NormalWindow
  stable, normal,
  cached,    \* _file_cache: how old it is, and whether anyone has counted
  all,       \* age of _global_file_data, None when there is none
  allScan,   \* _global_file_future: "none", "running" or "done"
  ownScan,   \* _file_future
  files      \* the number shown: "none" yet, "counted" or "made up"

paceVars == <<pace, known, trending, waited, skipped, seen, astir, owed, ended>>

PaceAssumption ==
  /\ {IdleCycles, MaxSkip, Mult, Grace, ActiveSamples, TrendSamples, Recheck, Refresh} \subseteq Nat \ {0}
  /\ Gaps \subseteq Nat \ {0}

Paces ==
  [idles    : Nat,      \* _idle_counts
   interval : Nat,      \* _cpu_skip_intervals
   count    : Nat,      \* _cpu_skip_counts
   idle     : BOOLEAN,  \* _idle_state
   grace    : Nat,      \* _grace_counts, idle_grace when there is none
   active   : Nat]      \* _active_counts
Afresh == [idles |-> 0, interval |-> 1, count |-> 0, idle |-> FALSE, grace |-> Grace, active |-> 0]

PaceInit ==
  /\ pace = Afresh /\ known = FALSE /\ trending = FALSE /\ waited = 0
  /\ skipped = 0 /\ seen = 0 /\ astir = 0 /\ owed = 0 /\ ended = "no"

\* It is measured at every visit again; the next samples are not to be left out if
\* it was at rest.
Woken(p) ==
  [p EXCEPT !.idles = 0, !.interval = 1, !.idle = FALSE,
            !.active = IF p.active = 0 /\ p.idles > 0 THEN ActiveSamples ELSE p.active]

\* _should_skip_cpu() after some time: what is counted then, and whether to measure
\* or to skip.  The look at a process that is left out may find its memory or I/O up
\* (rise) or one of its figures far above the baseline (jump), or raise because the
\* process has gone.
Says(p, answer) == [pace |-> p, answer |-> answer]
Resting(p, now) == p.interval > 1 /\ p.count < p.interval /\ now < Refresh
Looked(p, now, look) ==
  CASE now >= Recheck /\ look = "rise" -> Says(Woken(p), "measure")
    [] now >= Recheck /\ look = "jump" -> Says([p EXCEPT !.active = ActiveSamples], "measure")
    [] now >= Recheck /\ look = "gone" -> Says(p, "raise")
    [] OTHER -> Says(p, "skip")
\* mutant of Asked: the samples owed to a process do not keep it from being left out
AskedAtRest(p, now, look) ==
  CASE Resting(p, now) -> Looked([p EXCEPT !.active = Max({0, @ - 1})], now, look)
    [] OTHER -> Says([p EXCEPT !.active = Max({0, @ - 1}), !.grace = @ + 1], "measure")
Asked(p, now, look) ==
  CASE p.active > 0 -> Says([p EXCEPT !.active = @ - 1], "measure")
    [] p.active = 0 /\ known /\ trending ->
         Says([p EXCEPT !.interval = 1, !.idles = 0, !.idle = FALSE, !.active = TrendSamples],
              "measure")
    [] p.active = 0 /\ ~known -> Says([p EXCEPT !.grace = 1], "measure")
    [] p.active = 0 /\ known /\ ~trending ->
         IF p.grace <= Grace THEN Says([p EXCEPT !.grace = @ + 1], "measure")
         ELSE IF Resting(p, now) THEN Looked(p, now, look)
         ELSE Says(p, "measure")

\* mutant of Grown: no bound
GrownFreely(n) == n..Mult * n
\* The interval of a process at rest grows by a factor of up to idle_mult; that of one
\* that is not shrinks to idle_decay, a half, or less.
Grown(n) == n..Min({Mult * n, MaxSkip})
Shrunk(n) == 1..Max({1, n \div 2})

\* _update_idle_state(): a figure is far above its threshold, above or below the
\* margin around it, or in between.
AtRest(p, figure) == IF p.idle THEN figure # "above" ELSE figure = "below"
Rests(p, n) == [p EXCEPT !.idle = TRUE, !.idles = Min({@ + 1, IdleCycles}), !.interval = n]
Stirs(p, n) ==
  [p EXCEPT !.idle = FALSE, !.idles = 0, !.interval = n,
            !.active = IF p.idle /\ p.active = 0 /\ p.idles > 0 THEN ActiveSamples ELSE p.active]
Updated(p, figure) ==
  CASE p.grace <= Grace -> {[p EXCEPT !.idle = FALSE, !.idles = 0, !.interval = 1]}
    [] p.grace > Grace /\ figure = "far" -> {Woken(p)}
    [] p.grace > Grace /\ figure # "far" /\ AtRest(p, figure) ->
         {Rests(p, n) : n \in IF p.idles + 1 >= IdleCycles THEN Grown(p.interval) ELSE {p.interval}}
    [] OTHER -> {Stirs(p, n) : n \in Shrunk(p.interval)}
\* _maybe_sample_cpu() without an entry to compare with
Anew(p) == [p EXCEPT !.idles = 0, !.interval = 1, !.count = 0, !.idle = FALSE]

\* A visit that did not leave it out; when it is woken more are owed to it, half of
\* those it is to be given, for every visit asks twice and uses up two.
Counted(after) ==
  /\ seen' = Min({seen + 1, IdleCycles + Grace})
  /\ owed' = IF pace.active = 0 /\ after.active > 0
             THEN (ActiveSamples - 1) \div 2 ELSE Max({0, owed - 1})
Skip(asked, now) ==
  /\ asked.answer = "skip"
  /\ pace' = [asked.pace EXCEPT !.count = @ + 1]
  /\ skipped' = skipped + 1 /\ waited' = Min({now, Refresh})
  /\ trending' \in BOOLEAN
  /\ UNCHANGED <<known, seen, astir, owed, ended>>
Sample(asked, figure) ==
  /\ asked.answer = "measure" /\ known
  /\ pace' \in Updated([asked.pace EXCEPT !.count = 0], figure)
  /\ skipped' = 0 /\ waited' = 0 /\ trending' \in BOOLEAN
  /\ astir' = IF pace'.idle THEN 0 ELSE Min({astir + 1, MaxSkip})
  /\ Counted(pace')
  /\ UNCHANGED <<known, ended>>
\* The first sample makes an entry, if the list has room for it.
First(asked, room) ==
  /\ asked.answer = "measure" /\ ~known
  /\ pace' = Anew(asked.pace) /\ known' = room /\ trending' = FALSE
  /\ waited' = 0 /\ skipped' = 0 /\ seen' = 0 /\ astir' = 0
  /\ owed' = Max({0, owed - 1}) /\ UNCHANGED ended
\* What the process is asked for fails, or already the second question whether to
\* measure it: it has been asked about all the same.
Fail(asked, now) ==
  /\ asked.answer \in {"measure", "raise"}
  /\ pace' = asked.pace /\ waited' = Min({now, Refresh})
  /\ IF known THEN Counted(pace') ELSE UNCHANGED <<seen, owed>>
  /\ UNCHANGED <<known, trending, skipped, astir, ended>>
\* The thread ends before the figures are collected: the list of processes has no
\* memory figure of one that may not be looked at, or the first question raises.
End(by) ==
  ended' = by /\ UNCHANGED <<pace, known, trending, waited, skipped, seen, astir, owed>>

Outlook == {"none", "rise", "jump", "gone"}
Visit(gap, first, second) ==
  LET now == waited + gap
      before == Asked(pace, now, first)
      asked == Asked(before.pace, now, second)
  IN /\ ended = "no"
     /\ \/ End("listed")
        \/ before.answer = "raise" /\ End("asked")
        \/ /\ before.answer # "raise"
           /\ \/ Skip(asked, now)
              \/ \E figure \in {"far", "above", "between", "below"} : Sample(asked, figure)
              \/ \E room \in BOOLEAN : First(asked, room)
              \/ Fail(asked, now)
\* The process is gone when the listing ends: _reset_idle_state()
Remove ==
  /\ ended = "no" /\ UNCHANGED ended
  /\ known /\ pace' = Afresh /\ known' = FALSE /\ trending' = FALSE /\ waited' = 0
  /\ skipped' = 0 /\ seen' = 0 /\ astir' = 0 /\ owed' = 0

PaceNext ==
  \/ \E gap \in Gaps, first, second \in Outlook : Visit(gap, first, second)
  \/ Remove

----------------------------------------------------------------------------
(* No figure is older than max_skip visits, however its interval has come about. *)
BoundedRest == skipped <= MaxSkip /\ pace.count <= MaxSkip
(* README.md (FORCE_QUIT_IDLE_DECAY): a process that stirs is soon measured at every
   visit again: each sample halves what is left of its interval. *)
CalmsDown == pace.interval = 1 \/ pace.interval * 2^astir <= MaxSkip
(* A new process, and one that is woken, is measured in half as many visits in a row
   as FORCE_QUIT_IDLE_GRACE and FORCE_QUIT_IDLE_ACTIVE_SAMPLES say, for every visit
   asks twice, before one leaves it out, or ends the watcher over whether to; README.md
   promises all of them, which the code does not do. *)
HalfIsPaid ==
  skipped' > skipped \/ (ended' = "asked" /\ ended = "no") =>
    seen >= IdleCycles + (Grace - 1) \div 2 /\ owed = 0
PaceInv == BoundedRest /\ CalmsDown

-----------------------------------------------------------------------------
(* The details *)
detailVars == <<since, every, same, cycles, quiet, stable, normal, cached, all, allScan, ownScan, files>>

EntryAssumption ==
  {NormalWindow, MaxCycles, StableSkip, Target, Stretch, FileInterval, Ttl, Gap} \subseteq Nat \ {0}

None == -1
Missing == [age |-> None, counted |-> FALSE]

EntryInit ==
  /\ since = 0 /\ every = Target /\ same = 0 /\ cycles \in 1..MaxCycles /\ quiet = 0
  /\ stable = FALSE /\ normal = FALSE /\ cached = Missing /\ all = None
  /\ allScan = "none" /\ ownScan = "none" /\ files = "none"

\* _prune_caches()
Aged(age, gap) == IF age = None \/ age + gap > Ttl THEN None ELSE age + gap
Cache(gap) == IF Aged(cached.age, gap) = None THEN Missing ELSE [cached EXCEPT !.age = @ + gap]
\* When there are many processes their files are scanned all together.
ScanAll(age, many) ==
  IF many /\ allScan = "none" /\ (age = None \/ age > FileInterval) THEN "running" ELSE allScan

Same(changed) ==
  IF changed THEN 0 ELSE IF same + 1 = MaxCycles + StableSkip THEN MaxCycles ELSE same + 1
SkipStable(n) == n >= cycles /\ n % StableSkip # 0
Stand(changed, low) ==
  /\ same' = Same(changed) /\ stable' = (same' >= cycles)
  /\ quiet' = IF ~changed /\ low /\ ~stable' THEN Min({quiet + 1, NormalWindow}) ELSE 0
  /\ normal' = (quiet' >= NormalWindow)

\* mutant of Kept: nothing was known before
KeptNothing(c, got) == [age |-> 0, counted |-> got]
\* What could not be counted is what it was, or 0; in any case it is of now.
Kept(c, got) == [age |-> 0, counted |-> got \/ c.counted]
Uncounted(age, scan) == all' = age /\ allScan' = scan /\ UNCHANGED ownScan
\* A look at the process fails when it may not be looked at.
Look(c, age, scan) == \E got \in BOOLEAN : cached' = Kept(c, got) /\ Uncounted(age, scan)
\* When a crowd is to be counted what was scanned has it or not, if there is anything;
TakeAll(c, age, scan) ==
  /\ scan = "done" \/ age # None
  /\ IF scan = "done" THEN all' = 0 /\ allScan' = "none" ELSE all' = age /\ allScan' = scan
  /\ \E got \in BOOLEAN : cached' = Kept(c, got)
  /\ UNCHANGED ownScan
\* otherwise one scan after the other is made of those that a batch wants.
TakeOwn(c, age, scan) ==
  /\ scan # "done" /\ age = None /\ all' = age /\ allScan' = scan
  /\ ownScan' = CASE ownScan = "none" -> "running" [] ownScan = "running" -> "running"
                  [] ownScan = "done" -> "none"
  /\ \E got \in BOOLEAN : (got => ownScan = "done") /\ cached' = Kept(c, got)
Count(c, age, scan) ==
  IF c.age # None /\ c.age < FileInterval THEN cached' = c /\ Uncounted(age, scan)
  ELSE \/ Look(c, age, scan)
       \/ TakeAll(c, age, scan)
       \/ TakeOwn(c, age, scan)
\* The details take long, or not.
Tuned == {every} \cup {Min({every + 1, Stretch * Target})} \cup {Max({every - 1, Target})}

Collect(c, age, scan) ==
  /\ Count(c, age, scan)
  /\ files' = IF cached'.counted THEN "counted" ELSE "made up"
  /\ since' = 0 /\ every' \in Tuned
Attend(gap, many, changed, low) ==
  LET age == Aged(all, gap)
      scan == ScanAll(age, many)
  IN /\ files = "none" => changed
     /\ Stand(changed, low)
     /\ IF (changed \/ since + gap >= every) /\ ~SkipStable(same') THEN Collect(Cache(gap), age, scan)
        ELSE /\ since' = since + gap /\ cached' = Cache(gap) /\ all' = age /\ allScan' = scan
             /\ UNCHANGED <<every, ownScan, files>>
     /\ cycles' \in {n \in {cycles - 1, cycles, cycles + 1} : n \in 1..MaxCycles}
ScanDone ==
  /\ \/ allScan = "running" /\ allScan' = "done" /\ UNCHANGED ownScan
     \/ ownScan = "running" /\ ownScan' = "done" /\ UNCHANGED allScan
  /\ UNCHANGED <<since, every, same, cycles, quiet, stable, normal, cached, all, files>>

EntryNext ==
  \/ \E gap \in 1..Gap, many, changed, low \in BOOLEAN : Attend(gap, many, changed, low)
  \/ ScanDone

----------------------------------------------------------------------------
(* However long an entry has not changed, and whatever becomes of the intervals, its
   details do not get older than the interval at its longest and the visits that
   leave out the stable ones. *)
DetailsInTime == since < Stretch * Target + (StableSkip - 1) * Gap
(* README.md: a process is hidden when it has been normal for so many refreshes; one
   that is stable is not, so a process at rest comes back to the list. *)
HiddenOnceQuiet == normal => ~stable /\ same >= NormalWindow
EntryInv == DetailsInTime /\ HiddenOnceQuiet
(* A number that was counted is not replaced by one nobody counted, unless its
   details waited so long that the caches forgot it. *)
CountIsKept ==
  files = "counted" /\ files' = "made up" => since + Gap + FileInterval - 1 > Ttl
=============================================================================
