------------------------------ MODULE Compaction ------------------------------
(*****************************************************************************)
(* Several processes on one database directory: the commands of cli.go, each *)
(* of which opens the engine, works and closes it; agidb compact             *)
(* (enterprise.go), which rebuilds the segments in a second directory and    *)
(* swaps the two; agidb unlock; and crashes in between, which may leave a    *)
(* write-ahead log that the next Open replays onto what it then finds.       *)
(*                                                                           *)
(* Abstractions.                                                             *)
(*  - A data directory is the index its segments give: of two records of a   *)
(*    height the later one counts. How records lie in segments, and what     *)
(*    damages them, is the subject of Storage: an append that is cut short   *)
(*    leaves its whole record here or nothing, and reads do not fail.        *)
(*  - Reading the segments of a directory is one step, writing the log is    *)
(*    one, and so is filling the scratch directory.                          *)
(*  - A process goes on appending to the segment file it has opened,         *)
(*    wherever its directory is renamed to; any append may be the one that   *)
(*    rotates to a new file, which is opened by its path.                    *)
(*  - A compaction is left alone if nothing is started on the directory      *)
(*    after it has closed the engine, it does not die between its renames,   *)
(*    and the rename that undoes the first one works.                        *)
(*****************************************************************************)
EXTENDS Naturals, FiniteSets, SequencesExt

CONSTANTS
  Proc,        \* processes that run put, delete, serve, ...
  Compactor,   \* processes that run compact
  NoDir,       \* "there is no such directory"
  MaxBlocks,   \* bound: blocks built by Commit
  MaxFaults    \* bound: crashes and I/O errors

Block == [id : 1..MaxBlocks, height : 1..MaxBlocks, prev : 0..MaxBlocks]
NoBlock == [id |-> 0, height |-> 0, prev |-> 0]
Index == UNION {[heights -> Block] : heights \in SUBSET (1..MaxBlocks)}

ASSUME BoundsAssumption == MaxBlocks \in Nat /\ MaxFaults \in Nat
ASSUME NoDirIsNoIndex == NoDir \notin Index
ASSUME RolesAreApart == Proc \cap Compactor = {}

VARIABLES
  data,    \* the directory data: an index or NoDir
  old,     \* the directory data.precompact
  tmp,     \* the directory data of the scratch database
  wal,     \* the block in wal/commit.wal, or NoBlock
  lock,    \* does meta/LOCK exist?
  pc,      \* where each process is
  mem,     \* the blocks each process holds
  home,    \* where the segment file is that a process appends to
  made,    \* blocks built so far, the source of fresh identities
  faults,  \* crashes and I/O errors so far
  served,  \* every block that a process has held while it answered requests
  calm,    \* history: has every compaction so far been left alone?
  single,  \* history: have no two compactions been past their Close at a time?
  clear    \* history: has every swap so far found neither LOCK nor a log?

vars == <<data, old, tmp, wal, lock, pc, mem, home, made, faults, served, calm, single, clear>>
hist == <<calm, single, clear>>
dirs == <<data, old, tmp>>

Process == Proc \cup Compactor
Chain(dir) == IF dir = NoDir THEN <<>> ELSE dir
LastId(chain) == IF chain = <<>> THEN 0 ELSE chain[Len(chain)].id

(* applyLoaded accepts the blocks: no height is missing and every block      *)
(* names the one before it                                                   *)
Linked(index) ==
  \A h \in DOMAIN index :
    IF h = 1 THEN index[h].prev = 0
             ELSE h - 1 \in DOMAIN index /\ index[h].prev = index[h - 1].id

Continues(b, chain) == b.height = Len(chain) + 1 /\ b.prev = LastId(chain)

Fault ==
  /\ faults < MaxFaults
  /\ faults' = faults + 1

(* A process ends, as it should or not *)
Ends(p) ==
  /\ pc' = [pc EXCEPT ![p] = "off"]
  /\ mem' = [mem EXCEPT ![p] = <<>>]

(* A process ends, and with it its hold on a segment file *)
Leaves(p) == Ends(p) /\ home' = [home EXCEPT ![p] = "gone"]

Moves(from, to) == home' = [p \in Process |-> IF home[p] = from THEN to ELSE home[p]]
Goes(p, from, to) == pc[p] = from /\ pc' = [pc EXCEPT ![p] = to]
-------------------------------------------------------------------------------
(* AppendBlock *)

(* The directories the next record of a process may go to: the one its file  *)
(* is in, and the one that is called data when a new segment is opened       *)
Places(p) ==
  IF home[p] = "closed" THEN {}
  ELSE {home[p]} \cup {dir \in {"data"} : data # NoDir}

Add(index, b) ==
  [h \in DOMAIN index \cup {b.height} |-> IF h = b.height THEN b ELSE index[h]]

Writes(b, place) ==
  /\ data' = IF place = "data" THEN Add(data, b) ELSE data
  /\ old' = IF place = "old" THEN Add(old, b) ELSE old

Appends(p, b) ==
  \E place \in Places(p) : Writes(b, place) /\ home' = [home EXCEPT ![p] = place]

(* An append that did not return success has left its record or not *)
Left(p, b) == UNCHANGED <<data, old>> \/ \E place \in Places(p) : Writes(b, place)

(* Its error is returned: the file was closed by a rotation that failed, the *)
(* rotation finds no directory and leaves the file closed, or an I/O error   *)
AppendFails(p, b) ==
  \/ home[p] = "closed" /\ UNCHANGED <<data, old, home, faults>>
  \/ /\ data = NoDir
     /\ home' = [home EXCEPT ![p] = "closed"] /\ UNCHANGED <<data, old, faults>>
  \/ /\ Fault
     /\ \E place \in Places(p) :
          /\ Writes(b, place) \/ UNCHANGED <<data, old>>
          /\ home' = [home EXCEPT ![p] = place]

(* The log is removed, or that fails and it stays *)
ClearWAL ==
  \/ wal' = NoBlock /\ UNCHANGED faults
  \/ wal # NoBlock /\ Fault /\ UNCHANGED wal
-------------------------------------------------------------------------------
(* Open, Commit, Close *)

Init ==
  /\ data = NoDir /\ old = NoDir /\ tmp = NoDir /\ wal = NoBlock /\ lock = FALSE
  /\ pc = [p \in Process |-> "off"]
  /\ mem = [p \in Process |-> <<>>]
  /\ home = [p \in Process |-> "gone"]
  /\ made = 0 /\ faults = 0 /\ served = {}
  /\ calm = TRUE /\ single = TRUE /\ clear = TRUE

(* A process is between taking LOCK and removing it *)
Inside(p) == pc[p] \in {"locked", "loaded", "open", "logged"}

(* A compaction has closed the engine and still works on the directory *)
Unlocked(c) == pc[c] \in {"copied", "wiped", "rebuilt", "checked", "moved", "swapped"}

(* A process is started, at any time; no compaction expects it *)
Starts(p) ==
  /\ pc[p] = "off"
  /\ calm' = (calm /\ \A c \in Compactor : ~Unlocked(c))
  /\ UNCHANGED <<single, clear>>

(* MkdirAll comes before the lock, and is done even if the lock is refused *)
MakeData == data' = Chain(data)

(* Mutant: an existing LOCK is opened like a new one *)
TakeLockUnchecked(p) ==
  /\ Starts(p)
  /\ MakeData
  /\ lock' = TRUE /\ pc' = [pc EXCEPT ![p] = "locked"]
  /\ UNCHANGED <<old, tmp, wal, mem, home, made, faults, served>>

TakeLock(p) ==
  /\ Starts(p) /\ ~lock
  /\ MakeData
  /\ lock' = TRUE /\ pc' = [pc EXCEPT ![p] = "locked"]
  /\ UNCHANGED <<old, tmp, wal, mem, home, made, faults, served>>

LockRefused(p) ==
  /\ Starts(p) /\ lock
  /\ MakeData
  /\ UNCHANGED <<old, tmp, wal, lock, pc, mem, home, made, faults, served>>

(* The segments are read, and the first one is created if there is none *)
Load(p) ==
  /\ Goes(p, "locked", "loaded")
  /\ data # NoDir /\ Linked(data)
  /\ mem' = [mem EXCEPT ![p] = data]
  /\ home' = [home EXCEPT ![p] = "data"]
  /\ UNCHANGED <<dirs, wal, lock, made, faults, served, hist>>

(* The directory was renamed away, or its blocks are not accepted: Open      *)
(* returns an error and keeps LOCK                                           *)
LoadFails(p) ==
  /\ pc[p] = "locked"
  /\ data = NoDir \/ ~Linked(Chain(data))
  /\ Ends(p)
  /\ UNCHANGED <<dirs, wal, lock, home, made, faults, served, hist>>

(* The process answers requests from now on, or goes on doing so *)
Serves(p, chain) ==
  /\ pc' = [pc EXCEPT ![p] = "open"]
  /\ mem' = [mem EXCEPT ![p] = chain]
  /\ served' = served \cup Range(chain)

(* There is no log, or it holds the last block *)
ReplayNothing(p) ==
  /\ pc[p] = "loaded"
  /\ wal = NoBlock \/ LastId(mem[p]) = wal.id
  /\ ClearWAL
  /\ Serves(p, mem[p])
  /\ UNCHANGED <<dirs, lock, home, made, hist>>

MustReplay(p) == pc[p] = "loaded" /\ wal # NoBlock /\ LastId(mem[p]) # wal.id

ReplayApplies(p) ==
  /\ MustReplay(p)
  /\ Appends(p, wal)
  /\ Continues(wal, mem[p])
  /\ ClearWAL
  /\ Serves(p, Append(mem[p], wal))
  /\ UNCHANGED <<tmp, lock, made, hist>>

(* The log's block is appended before it is checked: Open returns an error   *)
(* and keeps LOCK                                                            *)
ReplayRejected(p) ==
  /\ MustReplay(p)
  /\ \E place \in Places(p) : Writes(wal, place)
  /\ ~Continues(wal, mem[p])
  /\ Leaves(p)
  /\ UNCHANGED <<tmp, wal, lock, made, faults, served, hist>>

(* The append fails: an I/O error, or the rotation finds no directory *)
ReplayFails(p) ==
  /\ MustReplay(p)
  /\ \/ Fault /\ Left(p, wal)
     \/ data = NoDir /\ UNCHANGED <<data, old, faults>>
  /\ Leaves(p)
  /\ UNCHANGED <<tmp, wal, lock, made, served, hist>>

(* Mutant: the height is the number of blocks, not one more *)
NewBlockOffByOne(p) ==
  [id |-> made + 1, height |-> Len(mem[p]), prev |-> LastId(mem[p])]

(* Mutant: the block links to the last one built by anybody *)
NewBlockOnLatest(p) ==
  [id |-> made + 1, height |-> Len(mem[p]) + 1, prev |-> made]

NewBlock(p) ==
  [id |-> made + 1, height |-> Len(mem[p]) + 1, prev |-> LastId(mem[p])]

(* Commit writes the log; while the process is inside nobody else does *)
WriteWAL(p) ==
  /\ p \in Proc /\ Goes(p, "open", "logged")
  /\ made < MaxBlocks
  /\ wal' = NewBlock(p) /\ made' = made + 1
  /\ UNCHANGED <<dirs, lock, mem, home, faults, served, hist>>

(* The append, the update of the memory and the removal of the log *)
Commit(p) ==
  /\ pc[p] = "logged"
  /\ Appends(p, wal)
  /\ Serves(p, Append(mem[p], wal))
  /\ ClearWAL
  /\ UNCHANGED <<tmp, lock, made, hist>>

(* Commit returns the error; the log stays *)
CommitFails(p) ==
  /\ Goes(p, "logged", "open")
  /\ AppendFails(p, wal)
  /\ UNCHANGED <<tmp, wal, lock, mem, made, served, hist>>

(* LOCK is removed, whoever wrote it *)
Close(p) ==
  /\ p \in Proc /\ pc[p] = "open"
  /\ lock' = FALSE
  /\ Leaves(p)
  /\ UNCHANGED <<dirs, wal, made, faults, served, hist>>

(* The process dies, in the middle of an append too; LOCK and the log stay   *)
(* if they are there                                                         *)
Crash(p) ==
  /\ pc[p] # "off"
  /\ Fault
  /\ IF MustReplay(p) \/ pc[p] = "logged" THEN Left(p, wal) ELSE UNCHANGED <<data, old>>
  /\ Leaves(p)
  /\ calm' = (calm /\ pc[p] # "moved")
  /\ UNCHANGED <<tmp, wal, lock, made, served, single, clear>>

(* "use agidb unlock only after confirming no process is active" *)
Unlock ==
  /\ lock /\ \A p \in Process : pc[p] = "off"
  /\ lock' = FALSE
  /\ UNCHANGED <<dirs, wal, pc, mem, home, made, faults, served, hist>>
-------------------------------------------------------------------------------
(* Compact *)

(* Verify, BlocksCopy and Close *)
CopyBlocks(c) ==
  /\ c \in Compactor /\ Goes(c, "open", "copied")
  /\ lock' = FALSE
  /\ home' = [home EXCEPT ![c] = "gone"]
  /\ single' = (single /\ \A d \in Compactor : ~Unlocked(d))
  /\ UNCHANGED <<dirs, wal, mem, made, faults, served, calm, clear>>

(* RemoveAll of the scratch directory, whoever left it *)
Wipe(c) ==
  /\ Goes(c, "copied", "wiped")
  /\ tmp' = NoDir
  /\ UNCHANGED <<data, old, wal, lock, mem, home, made, faults, served, hist>>

(* Blocks appended to what is there *)
Overlaid(dir, chain) ==
  [h \in DOMAIN Chain(dir) \cup DOMAIN chain |->
     IF h \in DOMAIN chain THEN chain[h] ELSE dir[h]]

Rebuild(c) ==
  /\ Goes(c, "wiped", "rebuilt")
  /\ tmp' = Overlaid(tmp, mem[c])
  /\ UNCHANGED <<data, old, wal, lock, mem, home, made, faults, served, hist>>

(* storage.Open or AppendBlock fails with the first n blocks written *)
RebuildFails(c) ==
  /\ pc[c] = "wiped"
  /\ Fault
  /\ \E n \in 0..Len(mem[c]) : tmp' = Overlaid(tmp, SubSeq(mem[c], 1, n))
  /\ Ends(c)
  /\ UNCHANGED <<data, old, wal, lock, home, made, served, hist>>

(* engine.Open and Verify of the scratch directory: it must hold some chain  *)
(* that verifies. It is not compared with the blocks that were copied, and   *)
(* it is created if it is not there.                                         *)
Check(c) ==
  /\ Goes(c, "rebuilt", "checked")
  /\ Linked(Chain(tmp))
  /\ tmp' = Chain(tmp)
  /\ UNCHANGED <<data, old, wal, lock, mem, home, made, faults, served, hist>>

CheckFails(c) ==
  /\ pc[c] = "rebuilt" /\ ~Linked(Chain(tmp))
  /\ Ends(c)
  /\ UNCHANGED <<dirs, wal, lock, home, made, faults, served, hist>>

(* RemoveAll(data.precompact) and the first rename *)
MoveAside(c) ==
  /\ Goes(c, "checked", "moved")
  /\ data # NoDir
  /\ old' = data /\ data' = NoDir
  /\ home' = [p \in Process |-> CASE home[p] = "data" -> "old"
                                  [] home[p] = "old"  -> "gone"
                                  [] OTHER            -> home[p]]
  /\ clear' = (clear /\ ~lock /\ wal = NoBlock)
  /\ UNCHANGED <<tmp, wal, lock, mem, made, faults, served, calm, single>>

(* The first rename fails: there is nothing to rename, or an I/O error *)
MoveAsideFails(c) ==
  /\ pc[c] = "checked"
  /\ (data = NoDir /\ UNCHANGED faults) \/ Fault
  /\ old' = NoDir
  /\ Moves("old", "gone")
  /\ Ends(c)
  /\ UNCHANGED <<data, tmp, wal, lock, made, served, hist>>

(* os.Rename moves no directory to a name that is a directory already, not   *)
(* even to an empty one                                                      *)
MoveIn(c) ==
  /\ Goes(c, "moved", "swapped")
  /\ tmp # NoDir /\ data = NoDir
  /\ data' = tmp /\ tmp' = NoDir
  /\ UNCHANGED <<old, wal, lock, mem, home, made, faults, served, hist>>

(* Mutant: a failed second rename is not rolled back *)
MoveInFailsAsIs(c) ==
  /\ pc[c] = "moved"
  /\ \/ (tmp = NoDir \/ data # NoDir) /\ UNCHANGED faults
     \/ Fault
  /\ Ends(c)
  /\ UNCHANGED <<dirs, wal, lock, home, made, served, hist>>

(* The second rename fails, and the first one is undone, or that fails too *)
MoveInFails(c) ==
  /\ pc[c] = "moved"
  /\ \/ (tmp = NoDir \/ data # NoDir) /\ UNCHANGED faults
     \/ Fault
  /\ \/ /\ data = NoDir /\ old # NoDir
        /\ data' = old /\ old' = NoDir
        /\ Moves("old", "data")
        /\ UNCHANGED calm
     \/ calm' = FALSE /\ UNCHANGED <<data, old, home>>
  /\ Ends(c)
  /\ UNCHANGED <<tmp, wal, lock, made, served, single, clear>>

CleanUp(c) ==
  /\ pc[c] = "swapped"
  /\ tmp' = NoDir /\ old' = NoDir
  /\ Moves("old", "gone")
  /\ Ends(c)
  /\ UNCHANGED <<data, wal, lock, made, faults, served, hist>>

Next ==
  \/ \E p \in Process :
       \/ TakeLock(p) \/ LockRefused(p) \/ Load(p) \/ LoadFails(p)
       \/ ReplayNothing(p) \/ ReplayApplies(p) \/ ReplayRejected(p) \/ ReplayFails(p)
       \/ WriteWAL(p) \/ Commit(p) \/ CommitFails(p) \/ Close(p) \/ Crash(p)
  \/ \E c \in Compactor :
       \/ CopyBlocks(c) \/ Wipe(c) \/ Rebuild(c) \/ RebuildFails(c)
       \/ Check(c) \/ CheckFails(c) \/ MoveAside(c) \/ MoveAsideFails(c)
       \/ MoveIn(c) \/ MoveInFails(c) \/ CleanUp(c)
  \/ Unlock

Spec == Init /\ [][Next]_vars
-------------------------------------------------------------------------------
(* Properties *)

Dir == Index \cup {NoDir}

(* Every variable has its type. *)
TypeOK ==
  /\ data \in Dir /\ old \in Dir /\ tmp \in Dir
  /\ wal \in Block \cup {NoBlock} /\ lock \in BOOLEAN
  /\ pc \in [Process -> {"off", "locked", "loaded", "open", "logged", "copied", "wiped",
                         "rebuilt", "checked", "moved", "swapped"}]
  /\ mem \in [Process -> Seq(Block)]
  /\ home \in [Process -> {"data", "old", "gone", "closed"}]
  /\ made \in 0..MaxBlocks /\ faults \in 0..MaxFaults /\ served \subseteq Block
  /\ calm \in BOOLEAN /\ single \in BOOLEAN /\ clear \in BOOLEAN

(* LOCK excludes: whatever processes overlap, crash, compact or unlock, at   *)
(* most one is between taking it and closing.                                *)
Exclusive == \A p, q \in Process : Inside(p) /\ Inside(q) => p = q

(* What Open finds in data is a linked chain, also where blocks are lost: by *)
(* a process that has worked on data during a compaction, by a crash between *)
(* the renames, by a rollback that failed. It rests on two things: no two    *)
(* compactions share the scratch directory, and no swap happens under an     *)
(* open process or an unfinished commit, whose rotation or replayed log      *)
(* would end up in the other chain.                                          *)
AlwaysVerifies == single /\ clear => Linked(Chain(data))

Holds(dir, blocks) ==
  \A b \in blocks : b.height \in DOMAIN Chain(dir) /\ Chain(dir)[b.height] = b

(* What a compaction that is left alone gives: data holds every block that   *)
(* was ever served, at every moment, whatever crashes, failing steps and     *)
(* replayed logs there were, except between the two renames, when            *)
(* data.precompact holds them.                                               *)
HistoryInPlace ==
  calm => Holds(IF \E c \in Compactor : pc[c] = "moved" THEN old ELSE data, served)

(* "compaction verified and committed atomically": whatever happens, every   *)
(* acknowledged block is still in data or in data.precompact.                *)
HistoryOnDisk == Holds(data, served) \/ Holds(old, served)
===============================================================================
