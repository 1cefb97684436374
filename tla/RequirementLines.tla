------------------------- MODULE RequirementLines -------------------------
(* What the setup says and plans of a requirements file before it installs
   (setup.py): eight analyses read the file on their own, line by line, and each has
   its own idea of which lines are requirements; the smart context turns what they
   list into the warnings a user sees, and the smart plan into pip's steps.  pip
   itself joins a line that ends in a backslash with the next one, which only the
   hashing analysis does.  The lines named here are positions in the file. *)
EXTENDS Integers, Sequences, SequencesExt, FiniteSets

CONSTANTS
  MayHold,   \* the lines a file may have
  OnDisk,    \* the packages whose local path exists
  Hosts,     \* what the plan may meet beside the file, see below
  Usual,     \* the one of them that every file meets
  MaxLines,  \* bound: lines of the file
  FewLines   \* bound: lines of a file that meets another one

VARIABLES file, host

LinesInit == file = <<>> /\ host \in Hosts
AppendLine(l) ==
  /\ Len(file) < IF host = Usual THEN MaxLines ELSE FewLines
  /\ file' = Append(file, l) /\ UNCHANGED host
LinesNext == \E l \in MayHold : AppendLine(l)

(* A line has a kind, for a requirement a package, its version ("none", "range",
   "wild" or the exact one), where it comes from ("index", "url", "http", "file",
   "path", and "user" for an address with user@host), its marker, and whether a
   --hash is on the line, a backslash ends it and a " # note" follows. *)
Pos == DOMAIN file
OfKind(kinds) == {i \in Pos : file[i].kind \in kinds}
Wanted == OfKind({"req", "editable"})
\* what packaging's Requirement accepts once the line is stripped of what follows
\* it: "name @ url" and "name==1", never a bare path or address
Named(i) == file[i].kind = "req" /\ file[i].from \notin {"path", "user"}
Exact(i) == file[i].ver \in {"1", "2"}
StrictlyPinned(i) == Named(i) /\ file[i].from = "index" /\ Exact(i)

----------------------------------------------------------------------------
(* Sources: notes are cut; options count as requirements; what follows the first
   "@" is the address, so that "://" before it is missed in a bare one. *)
SourcesTotal == Pos \ OfKind({"blank", "comment", "include", "constraint"})
NetworkSources ==
  {i \in OfKind({"req", "editable", "index", "links", "include"}) :
     \/ file[i].from \in {"url", "http", "file"}
     \/ file[i].kind = "include" /\ file[i].from = "user"}
LocalSources ==
  {i \in Wanted \ NetworkSources : file[i].from = "path" \/ file[i].kind = "editable"}
MissingLocal == {i \in LocalSources : file[i].from # "path" \/ file[i].pkg \notin OnDisk}
MissingNested ==
  {i \in OfKind({"include"}) \ NetworkSources : file[i].pkg \notin OnDisk}

(* Pinning: the line is parsed as it stands, note, hash and backslash included. *)
Plain(i) == Named(i) /\ ~file[i].hash /\ ~file[i].more /\ ~file[i].note
HasVersion(i) == file[i].from = "index" /\ file[i].ver # "none"
Invalid == {i \in OfKind({"req"}) : ~Plain(i)}
Unversioned == {i \in Pos : Plain(i) /\ ~HasVersion(i)}
Wildcard == {i \in Pos : Plain(i) /\ HasVersion(i) /\ file[i].ver = "wild"}
Ranged == {i \in Pos : Plain(i) /\ HasVersion(i) /\ file[i].ver = "range"}
Pinned == {i \in Pos : Plain(i) /\ HasVersion(i) /\ Exact(i)}

(* Duplicates: notes are cut, a hash or a backslash hides the line; an exact pin
   and a wildcard are both versions. *)
Counted == {i \in Pos : Named(i) /\ ~file[i].hash /\ ~file[i].more}
Group(p) == {i \in Counted : file[i].pkg = p}
Versions(p) ==
  {file[i].ver : i \in {j \in Group(p) : HasVersion(j) /\ file[j].ver # "range"}}
Packages == {file[i].pkg : i \in Counted}
Duplicates ==
  {p \in Packages : /\ Cardinality(Group(p)) > 1
                    /\ \E i \in Group(p) : file[i].marker = "none"}
Conflicting == {p \in Packages : Cardinality(Versions(p)) > 1}

(* Hashing: a requirement is held while its line goes on, and given up at the end
   of it, at the next one, at an option or at a blank line; comments are skipped. *)
Flush(s) ==
  IF s.held = 0 THEN [s EXCEPT !.has = FALSE]
  ELSE [held |-> 0, has |-> FALSE,
        hashed |-> s.hashed \cup (IF s.has THEN {s.held} ELSE {}),
        unhashed |-> s.unhashed \cup (IF s.has THEN {} ELSE {s.held})]
\* mutant of ReadLine: a requirement that goes on is given up at the next one
ReadOver(s, i) ==
  LET l == file[i] IN
  CASE l.kind = "comment" -> s
    [] l.kind = "hash" /\ s.held # 0 -> [s EXCEPT !.has = TRUE]
    [] l.kind \in {"req", "editable"} -> [s EXCEPT !.held = i, !.has = l.hash]
    [] OTHER -> Flush(s)
ReadLine(s, i) ==
  LET l == file[i] IN
  CASE l.kind = "comment" -> s
    [] l.kind = "hash" ->
         IF s.held = 0 THEN s
         ELSE IF l.more THEN [s EXCEPT !.has = TRUE] ELSE Flush([s EXCEPT !.has = TRUE])
    [] l.kind \in {"req", "editable"} ->
         LET held == [Flush(s) EXCEPT !.held = i, !.has = l.hash]
         IN IF l.more THEN held ELSE Flush(held)
    [] OTHER -> Flush(s)
Hashing ==
  LET read[n \in 0..Len(file)] ==
        IF n = 0 THEN [held |-> 0, has |-> FALSE, hashed |-> {}, unhashed |-> {}]
        ELSE ReadLine(read[n - 1], n)
  IN Flush(read[Len(file)])
HashedUnpinned == {i \in Hashing.hashed : ~StrictlyPinned(i)}
InsecureUrls == {i \in Wanted : file[i].from = "http"}

(* Markers: hash, backslash and note are cut, and the two options that introduce a
   path or an address leave what cannot be parsed. *)
MarkerTotal == {i \in Wanted : Named(i)}
MarkerErrors == Wanted \ MarkerTotal

(* Indexes and options. *)
RequiresNetwork(i) == file[i].from \in {"url", "http"}
NoIndex == OfKind({"noindex"}) # {}
NetworkIndexes == {i \in OfKind({"index"}) : RequiresNetwork(i)}
NetworkLinks == {i \in OfKind({"links"}) : RequiresNetwork(i)}
InsecureIndexes == {i \in OfKind({"index", "links"}) : file[i].from = "http"}

----------------------------------------------------------------------------
(* The warnings, each naming the lines it is about. *)
OfflineWarned ==
  NetworkSources \cup (IF NoIndex THEN {} ELSE NetworkIndexes) \cup NetworkLinks
PinWarned == Unversioned \cup Ranged \cup Wildcard \cup Invalid
HashWarned ==
  (IF Hashing.hashed # {} THEN Hashing.unhashed ELSE {}) \cup HashedUnpinned
InsecureWarned == InsecureUrls \cup InsecureIndexes

(* Options: looked for word by word, on every line; -e counts as one. *)
Optional(o) == {i \in OfKind({"option"}) : file[i].ver = o}
OtherOptions == Optional("other") \cup OfKind({"editable"})
OptionWarned ==
  UNION {Optional(o) : o \in {"nobinary", "pre", "nodeps", "feature"}} \cup OtherOptions

----------------------------------------------------------------------------
(* The plan.  What it meets beside the file is a record: whether the file is there at
   all, the stamp of the last install ("none", "same" or "other"), the python it names
   ("none" where it names none) and whether it is old, the version of each package
   that is installed ("0" for none), whether pip is missing or too old, whether the
   environment has a python, whether we are offline and whether the network answers,
   and what was asked for. *)
Kept(i) == file[i].marker # "fails"
Accepts(i, v) == v # "0" /\ (HasVersion(i) /\ Exact(i) => v = file[i].ver)
Unmet(i, h) == Kept(i) /\ ~Accepts(i, h.has[file[i].pkg])

\* _missing_requirements reads every line as a requirement, and one that is none
\* ends it: the plan then knows of nothing missing and says so.
Readable == \A i \in Pos : file[i].kind \in {"blank", "comment"} \/ Plain(i)
MissingLines(h) == IF h.exists /\ Readable THEN {i \in Wanted : Unmet(i, h)} ELSE {}

\* _gather_venv_diagnostics(): there is no environment, or no interpreter in it
NoEnvironment(h) == ~h.venv
Reasons(h) ==
  {r \in {"file missing", "no stamp", "changed", "missing", "python", "stale",
          "environment", "unreachable", "upgrade"} :
     CASE r = "file missing" -> ~h.exists
       [] r = "no stamp" -> h.exists /\ h.stamp = "none"
       [] r = "changed" -> h.exists /\ h.stamp = "other"
       [] r = "missing" -> MissingLines(h) # {}
       [] r = "python" -> h.exists /\ h.python = "other"
       [] r = "stale" -> h.exists /\ h.old
       [] r = "environment" -> NoEnvironment(h)
       [] r = "unreachable" -> ~h.offline /\ ~h.online
       [] r = "upgrade" -> h.upgrade}

\* mutant of ShouldInstall: a stamp of another file counts, one that is missing does not
ShouldInstallStamped(h) ==
  h.exists /\ \/ h.upgrade \/ MissingLines(h) # {} \/ h.stamp = "other" \/ h.python = "other"
              \/ NoEnvironment(h)
ShouldInstall(h) ==
  h.exists /\ \/ h.upgrade \/ MissingLines(h) # {} \/ h.stamp # "same" \/ h.python = "other"
              \/ NoEnvironment(h)
Targeted(h) == h.stamp = "same" /\ MissingLines(h) # {} /\ ~h.upgrade

\* pip is brought up to date by a step of its own or, offline, before every step,
\* where _pip passes it over.
Bootstrap(h) == ~h.offline /\ (h.pipOld \/ ShouldInstall(h) \/ h.dev)
Install(h, what, lines) == [what |-> what, lines |-> lines, pipToo |-> ~Bootstrap(h)]
FileSteps(h) ==
  IF Targeted(h)
  THEN LET lines == SetToSortSeq(MissingLines(h), <)
       IN [k \in DOMAIN lines |-> Install(h, "line", {lines[k]})]
  ELSE IF ShouldInstall(h) THEN <<Install(h, "file", Pos)>> ELSE <<>>
\* one step stands for those of the packages that are developed with
DevSteps(h) ==
  IF h.dev THEN <<Install(h, IF h.devFile THEN "dev file" ELSE "dev packages", {})>> ELSE <<>>
Alone(what) == <<[what |-> what, lines |-> {}, pipToo |-> FALSE]>>
Plan(h) ==
  LET work == FileSteps(h) \o DevSteps(h) IN
  IF work = <<>> THEN <<>>
  ELSE (IF Bootstrap(h) THEN Alone("pip") ELSE <<>>) \o work \o Alone("check")
InstalledBy(h) == UNION {FileSteps(h)[k].lines : k \in DOMAIN FileSteps(h)} \cap Wanted

\* What an install that succeeds may leave: an environment, what was asked for in one
\* of the versions that its lines accept, and the stamp of this file and this python.
Installed(h) ==
  {[h EXCEPT !.stamp = "same", !.python = "same", !.old = FALSE, !.venv = TRUE, !.has = has] :
     has \in {f \in [DOMAIN h.has -> {"0", "1", "2"}] :
       \A p \in DOMAIN f :
         LET lines == {i \in InstalledBy(h) : file[i].pkg = p /\ Kept(i)} IN
         IF lines = {} THEN f[p] = h.has[p] ELSE \A i \in lines : Accepts(i, f[p])}}

----------------------------------------------------------------------------
(* What the plan tells: lists of lines, each under a name, warnings among them. *)
Lists ==
  [network |-> NetworkSources, local |-> LocalSources, editable |-> OfKind({"editable"}),
   nested |-> OfKind({"include"}), constraints |-> OfKind({"constraint"}),
   unversioned |-> Unversioned, ranged |-> Ranged, wildcard |-> Wildcard, invalid |-> Invalid,
   marked |-> {i \in Pos : Plain(i) /\ file[i].marker # "none"},
   unsatisfied |-> {i \in MarkerTotal : ~Kept(i)},
   unhashed |-> Hashing.unhashed, loose |-> HashedUnpinned, insecure |-> InsecureUrls,
   links |-> OfKind({"links"}), options |-> OptionWarned \cup Optional("binary")]
Insights == {k \in DOMAIN Lists : Lists[k] # {}}
Twice == UNION {Group(p) : p \in Duplicates \cup Conflicting}

\* the warnings about the file itself
FileWarned ==
  PinWarned \cup HashWarned \cup InsecureWarned \cup OptionWarned \cup MissingLocal \cup MissingNested
    \cup MarkerErrors \cup {i \in MarkerTotal : ~Kept(i)} \cup Twice
    \cup (IF host.offline THEN OfflineWarned ELSE {})

----------------------------------------------------------------------------
(* The line that pip reads at i: from i to the first line that does not go on. *)
End(i) == CHOOSE j \in i..Len(file) :
            /\ j = Len(file) \/ ~file[j].more
            /\ \A k \in i..(j - 1) : file[k].more
\* a file pip can read: a line goes on with hashes, and hashes only follow such a line
Joined ==
  /\ \A i \in Pos : file[i].more => i < Len(file) /\ file[i + 1].kind = "hash"
  /\ \A i \in OfKind({"hash"}) : i > 1 /\ file[i - 1].more

(* The analyses agree on what a requirement is, up to what each is known to leave
   out: hashing counts every one exactly once, markers count or fail on each of
   them, duplicates count those of them on one line without a hash, and pinning
   calls the rest of those it reads invalid. *)
SameRequirements ==
  /\ Hashing.hashed \cup Hashing.unhashed = Wanted
  /\ Hashing.hashed \cap Hashing.unhashed = {}
  /\ Wanted \subseteq SourcesTotal
  /\ Counted \cap MarkerErrors = {}
  /\ Pinned \cup Unversioned \cup Ranged \cup Wildcard \subseteq Counted
(* A requirement that may change under the user is named by a warning of the
   pinning, and one that is pinned and plain by none. *)
LooseIsNamed ==
  \A i \in OfKind({"req"}) :
    /\ ~StrictlyPinned(i) => i \in PinWarned
    /\ i \in Pinned => i \notin PinWarned
(* In a file that pip can read, a requirement is hashed for the analysis just when
   it is for pip: a hash is on its line or on one that continues it. *)
HashesAsPip ==
  Joined => Hashing.hashed =
    {i \in Wanted : file[i].hash \/ \E j \in (i + 1)..End(i) : file[j].kind = "hash"}
(* Offline, what needs the network is named unless it is an address with user@host
   or a constraint, and nothing else is named but a file: URL. *)
OfflineIsNamed ==
  /\ \A i \in Pos \ OfKind({"constraint"}) :
       RequiresNetwork(i) => i \in OfflineWarned
  /\ \A i \in OfflineWarned :
       RequiresNetwork(i) \/ file[i].from = "file" \/ file[i].kind = "include"
(* Two lines that pin one package to different versions are reported, as a conflict
   and, unless every line of it has a marker, as a duplicate. *)
ConflictsAreNamed ==
  \A i, j \in Pinned :
    (file[i].pkg = file[j].pkg /\ file[i].ver # file[j].ver) =>
       /\ file[i].pkg \in Conflicting
       /\ file[i].pkg \in Duplicates \/ \A k \in Group(file[i].pkg) : file[k].marker # "none"
(* What is fetched without encryption is named wherever it is written. *)
InsecureIsNamed ==
  \A i \in Pos : (file[i].from = "http" /\ file[i].kind \in {"req", "editable", "index", "links"})
                   => i \in InsecureWarned
\* Once one requirement is hashed pip refuses what is not hashed and pinned, and
\* every such line is named.
RefusedIsNamed ==
  Hashing.hashed # {} =>
    \A i \in Wanted \ HashWarned : StrictlyPinned(i) /\ i \in Hashing.hashed
\* A path that is not there is named, and no other is.
MissingIsNamed ==
  {i \in OfKind({"req", "editable", "include"}) : file[i].from = "path" /\ file[i].pkg \notin OnDisk}
    = {i \in MissingLocal \cup MissingNested : file[i].from = "path"}
\* Nothing is installed without a reason that is told; and of the reasons only a
\* missing file, an old stamp and a network that does not answer are told without an
\* install.
PlanExplained ==
  (FileSteps(host) # <<>>) = (host.exists /\ Reasons(host) \ {"stale", "unreachable"} # {})
(* A requirement that is not met is installed, by a step of its own or with the file,
   unless a line could not be read; and a targeted plan installs no other. *)
PlanCovers ==
  LET unmet == {i \in Wanted : Unmet(i, host)} IN
  host.exists =>
    /\ Readable => unmet \subseteq InstalledBy(host)
    /\ Targeted(host) => InstalledBy(host) = unmet
(* An install that succeeded leaves nothing to install, but for an upgrade that is
   asked for and a file that pins one package twice, differently. *)
Agreeing ==
  \A i, j \in {k \in Wanted : Kept(k) /\ HasVersion(k) /\ Exact(k)} :
    file[i].pkg = file[j].pkg => file[i].ver = file[j].ver
PlanSettles ==
  Agreeing /\ ~host.upgrade => \A h \in Installed(host) : FileSteps(h) = <<>>
(* Online, pip is brought up to date once, before anything else; offline nothing is
   planned for it. *)
PipFirst ==
  {k \in DOMAIN Plan(host) : Plan(host)[k].what = "pip" \/ (Plan(host)[k].pipToo /\ ~host.offline)}
    = IF host.offline \/ Plan(host) = <<>> THEN {} ELSE {1}
(* What a warning says of a requirement stands in a list of the plan too, but for a
   path that is missing and two lines that contradict each other; and no requirement
   without a hash is passed over. *)
WarnedIsListed ==
  /\ FileWarned \cap Wanted
       \subseteq UNION {Lists[k] : k \in Insights} \cup Twice \cup MarkerErrors
  /\ \A i \in Wanted : i \in Hashing.hashed \/ i \in Lists.unhashed
LinesInv ==
  /\ PlanExplained /\ PlanCovers /\ PlanSettles /\ PipFirst /\ WarnedIsListed
  /\ RefusedIsNamed /\ MissingIsNamed
  /\ SameRequirements /\ LooseIsNamed /\ HashesAsPip
  /\ OfflineIsNamed /\ ConflictsAreNamed /\ InsecureIsNamed
=============================================================================
