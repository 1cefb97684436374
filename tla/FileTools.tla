----------------------------- MODULE FileTools -----------------------------
(* The file tools of the tools screen, on one folder: Batch Rename, Duplicate Finder
   with its cache of hashes, File Converter and File Manager, with the helpers they
   call (utils/files/file_manager, utils/system/hash_utils).  The thread manager runs
   every tool in a thread of its own, so that a tool finds the folder as the others
   left it half way.  What matters is whether content goes: last tells what a step
   took off the disk that no other file has. *)
EXTENDS Naturals, FiniteSets, Sequences

CONSTANTS
  File,      \* the names a file may have
  Serial,    \* of those, the sequence of names Batch Rename gives
  Content,   \* what may be in a file, or in a folder
  Size,      \* the size of each content
  Start,     \* the folders there may be at first
  MaxOps     \* bound: calls of the tools and edits

VARIABLES
  posix,     \* whether renaming replaces what is there
  twins,     \* whether at first two files of one time differed, as out of an archive
  disk,      \* what each name holds, or links to, and its modification time
  clock,
  digests,   \* hash_cache.json: for each path a time and a digest
  finder,    \* Duplicate Finder: its groups, then its window
  renamer,   \* Batch Rename: the paths it listed and how far it is
  ops,
  last       \* (history) the tool of the last step, what it lost, and what it might lose

fileVars == <<posix, twins, disk, clock, digests, finder, renamer, ops, last>>

None == [kind |-> "none", what |-> "none", at |-> 0]
Holding(c, t) == [kind |-> "file", what |-> c, at |-> t]
Kinds == {"none", "file", "dir", "link"}
\* a link is followed once
Real(n) == IF disk[n].kind = "link" THEN disk[n].what ELSE n
IsFile(n) == disk[Real(n)].kind = "file"
Of(n) == disk[Real(n)].what
Held(d) == {d[n].what : n \in {m \in File : d[m].kind \in {"file", "dir"}}}
Lost == Held(disk) \ Held(disk')
Anything == Content \cup {"torn"}
Did(tool, may) == last' = [by |-> tool, lost |-> Lost, may |-> may]
Quiet == last' = [by |-> "none", lost |-> {}, may |-> {}]
Use == ops < MaxOps /\ ops' = ops + 1

NoDigest == [at |-> 0, of |-> "none"]
NoFinder == [st |-> "none"]
NoRenamer == [st |-> "none"]

FilesInit ==
  /\ posix \in BOOLEAN /\ disk \in Start /\ clock = 2
  /\ twins = \E n, m \in File : /\ disk[n].kind = "file" /\ disk[m].kind = "file"
                               /\ disk[n].at = disk[m].at /\ disk[n].what # disk[m].what
  /\ digests = [n \in File |-> NoDigest] /\ finder = NoFinder /\ renamer = NoRenamer
  /\ ops = 0 /\ last = [by |-> "none", lost |-> {}, may |-> {}]

----------------------------------------------------------------------------
(* _duplicate_finder(): files of one size are hashed, in threads; of the files of
   one digest that which is done first is kept and the others are offered. *)
List ==
  /\ Use /\ finder.st = "none" /\ Quiet
  /\ LET files == {n \in File : IsFile(n)}
         group == {n \in files : \E m \in files \ {n} : Size[Of(n)] = Size[Of(m)]} IN
     finder' = IF group = {} THEN NoFinder ELSE [st |-> "listed", group |-> group]
  /\ UNCHANGED <<posix, twins, disk, clock, digests, renamer>>

\* mutant of Digest: what is cached is not compared with the file's time
DigestAnyTime(n) == IF digests[n] # NoDigest THEN digests[n].of ELSE Of(n)
\* calc_hashes(): a digest is good while the file has its time
Digest(n) ==
  IF digests[n] # NoDigest /\ digests[n].at = disk[Real(n)].at THEN digests[n].of ELSE Of(n)

\* one file of every digest is kept, whichever
Offered(group) ==
  {offer \in SUBSET group :
     \A m \in group : Cardinality({n \in group \ offer : Digest(n) = Digest(m)}) = 1}

Hash ==
  /\ finder.st = "listed" /\ Quiet
  /\ LET group == finder.group IN
     IF \E n \in group : ~IsFile(n)
     THEN finder' = NoFinder /\ UNCHANGED digests     \* its time cannot be read
     ELSE /\ digests' = [n \in File |->
                IF n \in group THEN [at |-> disk[Real(n)].at, of |-> Digest(n)] ELSE digests[n]]
          /\ \E offer \in Offered(group) :
               finder' = IF offer = {} THEN NoFinder
                         ELSE [st |-> "window", offer |-> offer, kept |-> group \ offer,
                               told |-> [n \in group |-> Of(n)],
                               lied |-> \E n \in group : Digest(n) # Of(n)]
  /\ UNCHANGED <<posix, twins, disk, clock, renamer, ops>>

\* what was found is not so, or no longer so, or hangs on a file that is offered
Misled ==
  \/ finder.lied
  \/ \E n \in DOMAIN finder.told : ~IsFile(n) \/ Of(n) # finder.told[n]
  \/ \E n \in finder.kept : disk[n].kind = "link"
\* delete_selected(): nothing is looked at again before it is deleted
DeleteSelected(chosen) ==
  /\ finder.st = "window" /\ chosen \subseteq finder.offer
  /\ disk' = [n \in File |-> IF n \in chosen /\ disk[n].kind # "dir" THEN None ELSE disk[n]]
  /\ finder' = NoFinder
  /\ Did("finder", IF Misled THEN Anything ELSE {})
  /\ UNCHANGED <<posix, twins, clock, digests, renamer, ops>>

----------------------------------------------------------------------------
(* _batch_rename(): the folder is listed once, in no order, and every path that is
   still a file then gets the name of its place in the list. *)
ListForRename ==
  /\ Use /\ renamer.st = "none" /\ Quiet
  /\ LET there == {n \in File : disk[n].kind # "none"} IN
     /\ there # {} /\ Cardinality(there) <= Len(Serial)
     /\ \E order \in [1..Cardinality(there) -> there] :
          /\ \A n \in there : \E i \in DOMAIN order : order[i] = n
          /\ renamer' = [st |-> "renaming", order |-> order, i |-> 1,
                         met |-> \E i \in DOMAIN Serial : disk[Serial[i]].kind # "none"]
  /\ UNCHANGED <<posix, twins, disk, clock, digests, finder>>

\* path.rename(): False when it raises, which ends the tool
Renamable(from, to) ==
  from = to \/ disk[to].kind = "none" \/ (posix /\ disk[to].kind # "dir")
Moved(from, to) == [[disk EXCEPT ![from] = None] EXCEPT ![to] = disk[from]]
\* mutant of RenameOne: the number is not counted up
RenameOneUncounted ==
  /\ renamer.st = "renaming"
  /\ LET from == renamer.order[renamer.i]
         stop == IsFile(from) /\ ~Renamable(from, Serial[1]) IN
     /\ disk' = IF IsFile(from) /\ ~stop THEN Moved(from, Serial[1]) ELSE disk
     /\ renamer' = IF stop \/ renamer.i = Len(renamer.order) THEN NoRenamer
                   ELSE [renamer EXCEPT !.i = @ + 1]
     /\ Did("rename", IF renamer.met THEN Anything ELSE {})
  /\ UNCHANGED <<posix, twins, clock, digests, finder, ops>>
RenameOne ==
  /\ renamer.st = "renaming"
  /\ LET from == renamer.order[renamer.i]
         to == Serial[renamer.i]
         stop == IsFile(from) /\ ~Renamable(from, to) IN
     /\ disk' = IF IsFile(from) /\ ~stop THEN Moved(from, to) ELSE disk
     /\ renamer' = IF stop \/ renamer.i = Len(renamer.order) THEN NoRenamer
                   ELSE [renamer EXCEPT !.i = @ + 1]
     /\ Did("rename", IF renamer.met THEN Anything ELSE {})
  /\ UNCHANGED <<posix, twins, clock, digests, finder, ops>>

----------------------------------------------------------------------------
(* The File Manager asks for a path that exists, whether a folder is meant, and for
   the destination, and always overwrites. *)
Paths(dir) == {n \in File : IF dir THEN disk[Real(n)].kind = "dir" ELSE IsFile(n)}
\* a step of another tool under the renamer's feet
Meets(n) ==
  renamer' = IF renamer.st = "renaming" /\ \E i \in DOMAIN Serial : Serial[i] = n
             THEN [renamer EXCEPT !.met = TRUE] ELSE renamer
Managed(tool, n, may) ==
  Meets(n) /\ Did(tool, may) /\ UNCHANGED <<posix, twins, digests, finder>>

\* copy_file() writes through a link and keeps the time; a file onto itself is refused
CopyFile(n, m) ==
  /\ Use /\ n \in Paths(FALSE) /\ disk[Real(m)].kind # "dir"
  /\ disk' = IF Real(n) = Real(m) THEN disk ELSE [disk EXCEPT ![Real(m)] = disk[Real(n)]]
  /\ Managed("copy", Real(m), {Of(m)}) /\ UNCHANGED clock
\* move_file() moves a link as it is
MoveFile(n, m) ==
  /\ Use /\ n \in Paths(FALSE) /\ disk[Real(m)].kind # "dir"
  /\ disk' = IF n = m \/ ~Renamable(n, m) THEN disk ELSE Moved(n, m)
  /\ Managed("move", m, {disk[m].what}) /\ UNCHANGED clock

\* mutant of PutDir: a file in the way is removed as well
PutDirOverFile(n, m, move) ==
  /\ Use /\ disk[n].kind = "dir"
  /\ disk' = IF m = n THEN [disk EXCEPT ![n] = None]
             ELSE IF move THEN Moved(n, m) ELSE [disk EXCEPT ![m] = disk[n]]
  /\ Managed("folder", m, IF disk[m].kind = "dir" THEN {disk[m].what} ELSE {})
  /\ UNCHANGED clock
\* copy_dir() and move_dir() remove the folder that is there, be it the source itself
PutDir(n, m, move) ==
  /\ Use /\ disk[n].kind = "dir"
  /\ disk' = IF disk[m].kind \in {"file", "link"} THEN disk
             ELSE IF m = n THEN [disk EXCEPT ![n] = None]
             ELSE IF move THEN Moved(n, m) ELSE [disk EXCEPT ![m] = disk[n]]
  /\ Managed("folder", m, IF disk[m].kind = "dir" THEN {disk[m].what} ELSE {})
  /\ UNCHANGED clock
\* delete_file() and delete_dir(), after a question
Delete(n, dir) ==
  /\ Use /\ n \in Paths(dir)
  /\ disk' = IF dir /\ disk[n].kind = "link" THEN disk ELSE [disk EXCEPT ![n] = None]
  /\ Managed("delete", n, {disk[n].what}) /\ UNCHANGED clock

\* write_text() empties the file before it writes it; atomic_write() writes another one
\* beside it and puts that in its place, be it a link.  A write may fail.
Save(n, c, atomic, fails) ==
  /\ Use /\ disk[Real(n)].kind # "dir"
  /\ clock' = clock + 1
  /\ disk' = IF atomic
             THEN IF fails THEN disk ELSE [disk EXCEPT ![n] = Holding(c, clock')]
             ELSE [disk EXCEPT ![Real(n)] = Holding(IF fails THEN "torn" ELSE c, clock')]
  /\ Managed("save", n, IF atomic /\ fails THEN {} ELSE {IF atomic THEN disk[n].what ELSE Of(n)})

FilesNext ==
  \/ List \/ Hash \/ ListForRename \/ RenameOne
  \/ \E chosen \in SUBSET File : DeleteSelected(chosen)
  \/ \E n, m \in File :
       \/ CopyFile(n, m) \/ MoveFile(n, m)
       \/ \E move \in BOOLEAN : PutDir(n, m, move)
  \/ \E n \in File :
       \/ \E dir \in BOOLEAN : Delete(n, dir)
       \/ \E c \in Content, atomic, fails \in BOOLEAN : Save(n, c, atomic, fails)

----------------------------------------------------------------------------
(* Nothing goes off the disk but what the user was to lose: what is overwritten or
   deleted by name.  Duplicate Finder loses content only if a digest was wrong, a
   file it hashed has changed since, or what it keeps is a link; Batch Rename only
   if one of the names it gives is in use when it begins or comes into use. *)
NothingElseLost == last.lost \subseteq last.may
(* A digest out of the cache is that of what the file holds, unless files of one
   time differed: a copy keeps the time, and a move. *)
DigestsTrue == finder.st = "window" /\ finder.lied => twins
FilesInv == NothingElseLost /\ DigestsTrue
=============================================================================
