------------------------------ MODULE Retention -------------------------------
(*****************************************************************************)
(* The files in snapshots and backups: WriteSnapshot (files.go) and Backup   *)
(* (enterprise.go) write a temporary file, sync it and rename it; PruneFiles *)
(* takes the two directories in random order, lists one, keeps its newest    *)
(* files and removes the others one by one. Nothing keeps two writers of one *)
(* name apart, nor prune from running beside them, and writers may die at    *)
(* every step.                                                               *)
(*                                                                           *)
(* Abstractions.                                                             *)
(*  - A name is a number: the height of a snapshot, the second of a backup   *)
(*    or its --out. Two writers may have the same one.                       *)
(*  - A content is empty, whole or torn. Modification times are the steps of *)
(*    a clock that no two writes share.                                      *)
(*  - An open file follows its inode: after a rename, a writer that has      *)
(*    opened the temporary file writes into the renamed one.                 *)
(*****************************************************************************)
EXTENDS Naturals, Integers, FiniteSetsExt

CONSTANTS
  Writer,    \* snapshot and backup commands
  Limits,    \* the retention counts prune is called with
  MaxNames,  \* bound: snapshots and backups of different names
  MaxTime    \* bound: writes

ASSUME LimitsAssumption == Limits \subseteq Int
ASSUME BoundsAssumption == MaxNames \in Nat /\ MaxTime \in Nat

Dir == {"snapshots", "backups"}
File == [name : 1..MaxNames, tmp : BOOLEAN, content : {"empty", "torn", "whole"},
         mod : 1..MaxTime, inode : 1..MaxTime]
Job == [at : {"opened", "written"}, dir : Dir, name : 1..MaxNames, inode : 1..MaxTime]
NoJob == [at |-> "off"]

VARIABLES
  files,   \* files[d]: the files in directory d
  job,     \* job[w]: what w is writing
  clock,   \* the time of the last write
  pc,      \* where prune is
  keep,    \* keep[d]: the count for directory d
  left,    \* the directories prune has not come to yet
  here,    \* the directory it is at
  names,   \* the entries ReadDir has returned
  doomed,  \* the entries prune is going to remove
  before,  \* history: the files when prune was started
  apart,   \* history: has nothing been written since the last prune was started?
  shared   \* history: the names that two writers have been at work on at a time

vars == <<files, job, clock, pc, keep, left, here, names, doomed, before, apart, shared>>
prune == <<pc, keep, left, here, names, doomed>>

Entry(f) == <<f.name, f.tmp>>
Named(d, e) == {f \in files[d] : Entry(f) = e}
Busy(w) == job[w].at # "off"
-------------------------------------------------------------------------------
(* WriteSnapshot and atomicWrite *)

(* The clock ticks and in d the files of gone make way for f *)
Gets(d, gone, f) ==
  /\ clock < MaxTime
  /\ clock' = clock + 1
  /\ files' = [files EXCEPT ![d] = (@ \ gone) \cup {[f EXCEPT !.mod = clock + 1]}]

(* What was before the last prune no longer says anything of the files now *)
Disturbs == apart' = FALSE /\ before' = [d \in Dir |-> {}]

(* An empty file; one that was there keeps its inode *)
Truncated(d, n, tmp) ==
  [name |-> n, tmp |-> tmp, content |-> "empty", mod |-> 0,
   inode |-> IF Named(d, <<n, tmp>>) = {} THEN clock + 1
             ELSE (CHOOSE f \in Named(d, <<n, tmp>>) : TRUE).inode]

Opens(w, d, n, f) ==
  /\ ~Busy(w)
  /\ Gets(d, Named(d, Entry(f)), f)
  /\ job' = [job EXCEPT ![w] = [at |-> "opened", dir |-> d, name |-> n, inode |-> f.inode]]
  /\ shared' = IF \E v \in Writer : Busy(v) /\ job[v].dir = d /\ job[v].name = n
               THEN shared \cup {<<d, n>>} ELSE shared
  /\ Disturbs
  /\ UNCHANGED prune

(* Mutant: the file is created under its own name *)
CreateInPlace(w, d, n) == Opens(w, d, n, Truncated(d, n, FALSE))

(* O_CREATE|O_TRUNC: a file that another writer has left or is writing is    *)
(* emptied                                                                   *)
CreateTmp(w, d, n) == Opens(w, d, n, Truncated(d, n, TRUE))

(* The file that w has open, unless prune has removed it *)
OpenFile(w) == {f \in files[job[w].dir] : f.inode = job[w].inode}

(* The file that w has open gets the content x *)
Puts(w, x) ==
  \/ \E f \in OpenFile(w) : Gets(job[w].dir, {f}, [f EXCEPT !.content = x])
  \/ OpenFile(w) = {} /\ UNCHANGED <<files, clock>>

(* Write, Sync and Close; over what another writer has written, a mixture    *)
(* may come out                                                              *)
FillTmp(w) ==
  /\ job[w].at = "opened"
  /\ \/ Puts(w, "whole")
     \/ (\E f \in OpenFile(w) : f.content # "empty") /\ Puts(w, "torn")
  /\ job' = [job EXCEPT ![w].at = "written"]
  /\ Disturbs
  /\ UNCHANGED <<shared, prune>>

(* What has the temporary name now takes the place of what has the final     *)
(* one; the modification time stays                                          *)
RenameTmp(w) ==
  /\ job[w].at = "written"
  /\ \E f \in Named(job[w].dir, <<job[w].name, TRUE>>) :
       files' = [files EXCEPT ![job[w].dir] =
         (@ \ ({f} \cup Named(job[w].dir, <<f.name, FALSE>>))) \cup {[f EXCEPT !.tmp = FALSE]}]
  /\ job' = [job EXCEPT ![w] = NoJob]
  /\ Disturbs
  /\ UNCHANGED <<clock, shared, prune>>

(* The writer dies or returns an error, in the middle of its write perhaps,  *)
(* or because there is nothing to rename: the temporary file stays           *)
WriterEnds(w) ==
  /\ Busy(w)
  /\ \/ UNCHANGED <<files, clock>>
     \/ job[w].at = "opened" /\ Puts(w, "torn")
  /\ job' = [job EXCEPT ![w] = NoJob]
  /\ Disturbs
  /\ UNCHANGED <<shared, prune>>
-------------------------------------------------------------------------------
(* PruneFiles *)

StartPrune(limits) ==
  /\ pc = "off"
  /\ pc' = "next" /\ keep' = limits /\ left' = Dir
  /\ apart' = (\A w \in Writer : ~Busy(w))
  /\ before' = IF apart' THEN files ELSE [d \in Dir |-> {}]
  /\ UNCHANGED <<files, job, clock, here, names, doomed, shared>>

(* The next directory of the map, in any order, and its entries *)
ReadDir(d) ==
  /\ pc = "next" /\ d \in left
  /\ pc' = "read" /\ here' = d /\ left' = left \ {d}
  /\ names' = {Entry(f) : f \in files[d]}
  /\ UNCHANGED <<files, job, clock, keep, doomed, before, apart, shared>>

Items == {f \in files[here] : Entry(f) \in names}
Newer(f) == {g \in Items : g.mod > f.mod}

(* Mutant: the files are sorted the other way round *)
ExcessOfNewest(n) == {f \in Items : Cardinality(Items \ Newer(f)) > n}

(* items[keep:], newest first *)
Excess(n) == {f \in Items : Cardinality(Newer(f)) >= n}

(* Info of every entry, the sort and the check of the limit *)
Choose ==
  /\ pc = "read" /\ \A e \in names : Named(here, e) # {}
  /\ keep[here] >= 0
  /\ pc' = "removing" /\ doomed' = {Entry(f) : f \in Excess(keep[here])}
  /\ UNCHANGED <<files, job, clock, keep, left, here, names, before, apart, shared>>

PruneEnds ==
  /\ pc' = "off" /\ here' = "snapshots" /\ left' = {} /\ names' = {} /\ doomed' = {}
  /\ UNCHANGED <<files, job, clock, keep, before, apart, shared>>

(* A negative limit is an error, whatever has been removed elsewhere *)
LimitRefused == pc = "read" /\ keep[here] < 0 /\ PruneEnds

(* Info of an entry that is gone returns nil, and ModTime of it panics *)
InfoPanics == pc = "read" /\ (\E e \in names : Named(here, e) = {}) /\ PruneEnds

(* Remove goes by the name, and an entry that is gone is passed over *)
Remove(e) ==
  /\ pc = "removing" /\ e \in doomed
  /\ files' = [files EXCEPT ![here] = @ \ Named(here, e)]
  /\ doomed' = doomed \ {e}
  /\ UNCHANGED <<job, clock, pc, keep, left, here, names, before, apart, shared>>

(* os.Remove fails and its error is ignored *)
RemoveFails(e) ==
  /\ pc = "removing" /\ e \in doomed
  /\ doomed' = doomed \ {e}
  /\ UNCHANGED <<files, job, clock, pc, keep, left, here, names, before, apart, shared>>

Continue ==
  /\ pc = "removing" /\ doomed = {}
  /\ pc' = "next"
  /\ UNCHANGED <<files, job, clock, keep, left, here, names, doomed, before, apart, shared>>

Finish == pc = "next" /\ left = {} /\ PruneEnds

Init ==
  /\ files = [d \in Dir |-> {}] /\ job = [w \in Writer |-> NoJob] /\ clock = 0
  /\ pc = "off" /\ keep = [d \in Dir |-> 0] /\ left = {} /\ here = "snapshots"
  /\ names = {} /\ doomed = {} /\ before = files /\ apart = FALSE
  /\ shared = {}

Next ==
  \/ \E w \in Writer :
       \/ \E d \in Dir, n \in 1..MaxNames : CreateTmp(w, d, n)
       \/ FillTmp(w) \/ RenameTmp(w) \/ WriterEnds(w)
  \/ \E d \in Dir : ReadDir(d)
  \/ \E limits \in [Dir -> Limits] : StartPrune(limits)
  \/ Choose \/ LimitRefused \/ InfoPanics \/ Continue \/ Finish
  \/ \E e \in doomed : Remove(e) \/ RemoveFails(e)

Spec == Init /\ [][Next]_vars
-------------------------------------------------------------------------------
(* Properties *)

(* A file under its own name is whole, whichever writer died where, whatever *)
(* rest of a temporary file it found and whatever prune removed meanwhile,   *)
(* as long as no two writers have been at work on that name at a time. Two   *)
(* that are share one temporary file, and one renames what the other has     *)
(* just emptied.                                                             *)
FinalWhole ==
  \A d \in Dir : \A f \in files[d] :
    ~f.tmp /\ <<d, f.name>> \notin shared => f.content = "whole"

NewerBefore(d, f) == {g \in before[d] : g.mod > f.mod}

(* A prune during which nothing is written keeps the newest files of each    *)
(* directory, as many as it was told, in whatever order it takes the         *)
(* directories and wherever it stops; a negative limit removes nothing.      *)
RetainsNewest ==
  apart => \A d \in Dir : \A f \in before[d] :
    keep[d] < 0 \/ Cardinality(NewerBefore(d, f)) < keep[d] => f \in files[d]
===============================================================================
