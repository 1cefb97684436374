----------------------------- MODULE ConfigStore -----------------------------
(* The settings of CoolBox (config/manager.py) as its screens change them: the
   settings screen, its editor and its reset (ui/views/screens/settings.py), the
   lists of recent files, and the sections that are folded.

   The settings are a mapping whose plain values are replaced and whose two
   containers, the recent files and the folded sections, are changed in place.
   Loading and resetting copy the mapping of the defaults, not its containers:
   a container the settings took from the defaults, because the file has none, is
   the defaults' own (shared) until it is replaced.  What is typed into the editor
   or imported may lack any of the settings; they are then read as the shipped
   ones, and an empty container.  A save empties the file before it writes it. *)
EXTENDS Naturals, Sequences, SequencesExt

CONSTANTS
  Plain,       \* values of the plain settings, taken together
  Shipped,     \* the one that is shipped
  File, Limit, \* recent files, and how many are kept
  Section,     \* sections that can be folded
  NoFile, Broken, Unset,
  MaxSaves     \* saves that are followed

ConfigAssumption == Shipped \in Plain /\ Limit \in Nat \ {0} /\ MaxSaves \in Nat

VARIABLES
  config,    \* the settings in memory: plain, recent, folded, or Unset
  defaults,  \* the defaults in memory
  shared,    \* containers of config that are the defaults' own
  stored,    \* the file: settings, Broken or NoFile
  widgets,   \* what the settings screen shows of the plain ones
  editor,    \* the settings its editor was opened with, or NoFile
  running,
  took,      \* (history) containers this run's settings took from the defaults
  resets,    \* the settings have been reset in this run
  saves

configVars == <<config, defaults, shared, stored, widgets, editor, running, took, resets, saves>>

\* A file is listed once among the recent ones, whatever way the list came about.
Recent == {list \in Seq(File) : IsInjective(list)}
Settings ==
  [plain : {Unset} \union Plain, recent : {Unset} \union Recent,
   folded : {Unset} \union SUBSET Section]
Pristine == [plain |-> Shipped, recent |-> <<>>, folded |-> {}]
Bare == [plain |-> Unset, recent |-> Unset, folded |-> Unset]
Containers == {"recent", "folded"}

ConfigTypeOK ==
  /\ config \in Settings /\ defaults \in Settings /\ shared \subseteq Containers
  /\ stored \in Settings \union {NoFile, Broken} /\ widgets \in Plain
  /\ editor \in Settings \union {NoFile}
  /\ running \in BOOLEAN /\ took \subseteq Containers /\ resets \in BOOLEAN
  /\ saves \in 0..MaxSaves

\* What the whole of a save may leave: all of it, an empty or cut off file, or,
\* when the file cannot be opened, what was there.
Save ==
  /\ saves < MaxSaves /\ saves' = saves + 1
  /\ stored' \in {config', Broken, stored}

\* {**self.defaults, **loaded_config}
Merged(from) ==
  [plain  |-> IF from.plain = Unset THEN Pristine.plain ELSE from.plain,
   recent |-> IF from.recent = Unset THEN Pristine.recent ELSE from.recent,
   folded |-> IF from.folded = Unset THEN Pristine.folded ELSE from.folded]
Lacking(from) ==
  (IF from.recent = Unset THEN {"recent"} ELSE {})
    \union (IF from.folded = Unset THEN {"folded"} ELSE {})

\* mutant of Loaded: the settings are the defaults, updated from the file
LoadedInto(from) ==
  /\ config' = Merged(from) /\ defaults' = config' /\ shared' = Containers
  /\ took' = Lacking(from)

Loaded(from) ==
  /\ config' = Merged(from) /\ defaults' = Pristine
  /\ shared' = Lacking(from) /\ took' = Lacking(from)

FromDefaults ==
  /\ config' = Pristine /\ defaults' = Pristine
  /\ shared' = Containers /\ took' = Containers

\* The settings screen is built: its variables take the settings in force.
ScreenBuilt == widgets' = IF config'.plain = Unset THEN Shipped ELSE config'.plain

\* _load_config(): a file that does not parse is moved aside, and the defaults
\* are saved; one that cannot be read is left, and the defaults are used.
LoadConfig ==
  /\ ~running /\ running' = TRUE /\ resets' = FALSE /\ editor' = NoFile
  /\ \/ stored \notin {NoFile, Broken} /\ Loaded(stored) /\ UNCHANGED <<stored, saves>>
     \/ stored = Broken /\ FromDefaults /\ Save
     \/ FromDefaults /\ UNCHANGED <<stored, saves>>
  /\ ScreenBuilt

ConfigInit ==
  /\ config = Pristine /\ defaults = Pristine /\ shared = Containers
  /\ stored \in {NoFile, Broken, Pristine, Bare} /\ widgets = Shipped /\ editor = NoFile
  /\ running = FALSE /\ took = Containers /\ resets = FALSE /\ saves = 0

\* config.get("recent_files", []) and config.setdefault("section_states", {})
Listed == IF config.recent = Unset THEN <<>> ELSE config.recent
Sections == IF config.folded = Unset THEN {} ELSE config.folded

\* list.remove()
Without(list, f) ==
  IF \E i \in DOMAIN list : list[i] = f
  THEN LET at == CHOOSE i \in DOMAIN list : list[i] = f /\ \A j \in 1..(i - 1) : list[j] # f
       IN SubSeq(list, 1, at - 1) \o SubSeq(list, at + 1, Len(list))
  ELSE list

FirstOf(list) == SubSeq(list, 1, IF Len(list) < Limit THEN Len(list) ELSE Limit)

\* add_recent_file(): the list gets the file in place; its beginning becomes
\* the setting.
AddRecent(f) ==
  LET longer == <<f>> \o Without(Listed, f) IN
  /\ running
  /\ config' = [config EXCEPT !.recent = FirstOf(longer)]
  /\ defaults' = IF "recent" \in shared THEN [defaults EXCEPT !.recent = longer] ELSE defaults
  /\ shared' = shared \ {"recent"}
  /\ Save /\ UNCHANGED <<widgets, editor, running, took, resets>>

\* The dialog of recent files takes one from the list itself.  A container of the
\* settings that changes in place changes the defaults' with it.
RemoveRecent(f) ==
  /\ running /\ \E i \in DOMAIN Listed : Listed[i] = f
  /\ config' = [config EXCEPT !.recent = Without(Listed, f)]
  /\ defaults' = IF "recent" \in shared THEN [defaults EXCEPT !.recent = config'.recent] ELSE defaults
  /\ Save
  /\ UNCHANGED <<shared, widgets, editor, running, took, resets>>

Fold(s) ==
  /\ running
  /\ config' = [config EXCEPT !.folded = (Sections \union {s}) \ (Sections \intersect {s})]
  /\ defaults' = IF "folded" \in shared THEN [defaults EXCEPT !.folded = config'.folded] ELSE defaults
  /\ Save
  /\ UNCHANGED <<shared, widgets, editor, running, took, resets>>

\* get_section_state(): looking makes the mapping that is not there, of its own.
LookUpSection ==
  /\ running /\ config.folded = Unset /\ config' = [config EXCEPT !.folded = {}]
  /\ shared' = shared \ {"folded"}
  /\ UNCHANGED <<defaults, stored, widgets, editor, running, took, resets, saves>>

\* The settings screen: a widget is changed, and all of them are saved.
Choose(v) ==
  /\ running /\ widgets # v /\ widgets' = v
  /\ UNCHANGED <<config, defaults, shared, stored, editor, running, took, resets, saves>>

SaveSettings ==
  /\ running /\ config' = [config EXCEPT !.plain = widgets] /\ Save
  /\ UNCHANGED <<defaults, shared, widgets, editor, running, took, resets>>

\* The settings become the defaults as they are by now.  Most widgets go on
\* showing what they showed.
Reset ==
  /\ running /\ config' = defaults /\ shared' = Containers /\ resets' = TRUE /\ Save
  /\ UNCHANGED <<defaults, widgets, editor, running, took>>

\* The editor opens on the file, whatever is in it, or on the settings when it
\* cannot be read, and what is typed in it becomes the settings: with another plain
\* value or none, and without some of the containers.
OpenEditor ==
  /\ running /\ editor = NoFile
  /\ editor' = CASE stored = NoFile -> config [] stored = Broken -> Bare
                 [] OTHER -> stored
  /\ UNCHANGED <<config, defaults, shared, stored, widgets, running, took, resets, saves>>

SaveEditor(v, cut) ==
  /\ running /\ editor # NoFile
  /\ config' = [plain  |-> v,
                recent |-> IF "recent" \in cut THEN Unset ELSE editor.recent,
                folded |-> IF "folded" \in cut THEN Unset ELSE editor.folded]
  /\ shared' = {} /\ editor' = NoFile /\ Save
  /\ UNCHANGED <<defaults, widgets, running, took, resets>>

\* The imported file has some of the settings.
Import(v, cs) ==
  /\ running
  /\ config' = [plain  |-> IF v = Unset THEN config.plain ELSE v,
                recent |-> IF "recent" \in cs THEN <<>> ELSE config.recent,
                folded |-> IF "folded" \in cs THEN {} ELSE config.folded]
  /\ shared' = shared \ cs /\ Save
  /\ UNCHANGED <<defaults, widgets, editor, running, took, resets>>

\* The program ends, with a last save when it is closed.
Close ==
  /\ running /\ running' = FALSE /\ UNCHANGED config /\ Save
  /\ UNCHANGED <<defaults, shared, widgets, editor, took, resets>>
Killed ==
  /\ running /\ running' = FALSE
  /\ UNCHANGED <<config, defaults, shared, stored, widgets, editor, took, resets, saves>>

ConfigNext ==
  \/ LoadConfig \/ LookUpSection \/ SaveSettings \/ Reset \/ OpenEditor \/ Close \/ Killed
  \/ \E f \in File : AddRecent(f) \/ RemoveRecent(f)
  \/ \E s \in Section : Fold(s)
  \/ \E v \in Plain : Choose(v)
  \/ \E v \in {Unset} \union Plain, cs \in SUBSET Containers : SaveEditor(v, cs) \/ Import(v, cs)

ConfigSpec == ConfigInit /\ [][ConfigNext]_configVars

-----------------------------------------------------------------------------
(* Properties *)

\* The defaults a first reset restores are the shipped ones: the plain settings in
\* any run, a container in a run that has it from the file, however the settings
\* are changed, typed, imported and saved.
FirstResetRestores ==
  /\ defaults.plain = Pristine.plain
  /\ ~resets /\ "recent" \notin took => defaults.recent = Pristine.recent
  /\ ~resets /\ "folded" \notin took => defaults.folded = Pristine.folded

\* What a container of the settings shares with the defaults is the same.
SharedIsSame ==
  running => /\ "recent" \in shared => config.recent = defaults.recent
             /\ "folded" \in shared => config.folded = defaults.folded

\* What leads there: until a reset no other container becomes the defaults' own.
OwnContainers == ~resets => shared \subseteq took

ConfigInv == ConfigTypeOK /\ FirstResetRestores /\ SharedIsSame /\ OwnContainers
=============================================================================
