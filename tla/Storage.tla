------------------------------- MODULE Storage --------------------------------
(*****************************************************************************)
(* The path of a block to disk and back: Commit's write-ahead log and        *)
(* segment append (engine.go, files.go), the LOCK file, and Open, which      *)
(* truncates damaged segment tails, reloads the chain and replays the log.   *)
(* Every step may be the last one before a crash, and every I/O call may     *)
(* return an error, the reads of recovery included.                          *)
(*                                                                           *)
(* Abstractions.                                                             *)
(*  - A block is its identity (standing for its record hash), its height,    *)
(*    the identity of its predecessor and the size of its frame; what it     *)
(*    does to the state is the subject of Engine.                            *)
(*  - A segment file is a sequence of cells: a whole record, a lone 16-byte  *)
(*    frame header, or a record torn at any other place.                     *)
(*  - One process at a time uses the directory, as the LOCK file intends.    *)
(*  - A rename, a remove or a truncate that has returned is durable.         *)
(*****************************************************************************)
EXTENDS Naturals, Sequences, FiniteSetsExt

CONSTANTS
  SegmentSize,  \* f.segmentSize
  Sizes,        \* the frame sizes of blocks, headers included
  FailLeft,     \* what an append that returned an error may have written
  CrashLeft,    \* what an append cut short by a crash may have written
  ReadErrors,   \* may a read of recovery return an error?
  MaxBlocks,    \* bound: blocks built by Commit
  MaxFaults     \* bound: crashes and I/O errors

Residue == {"none", "torn", "hdr", "rec"}

ASSUME SizesAssumption == SegmentSize \in Nat /\ Sizes \subseteq Nat \ {0, 1}
ASSUME ResidueAssumption == FailLeft \subseteq Residue /\ CrashLeft \subseteq Residue
ASSUME ReadAssumption == ReadErrors \in BOOLEAN
ASSUME BoundsAssumption == MaxBlocks \in Nat /\ MaxFaults \in Nat

Block == [id : 1..MaxBlocks, height : 1..MaxBlocks, prev : 0..MaxBlocks, size : Sizes]
NoBlock == [id |-> 0, height |-> 0, prev |-> 0, size |-> 0]
Cell == [kind : Residue \ {"none"}, block : Block]

VARIABLES
  segs,        \* the segment files, in the order of their numbers
  wal,         \* the block in wal/commit.wal, or NoBlock
  lock,        \* does meta/LOCK exist?
  pc,          \* where the process is
  blocks,      \* e.blocks
  pending,     \* the block Commit is working on
  activeSize,  \* f.activeSize
  activeOpen,  \* is f.active an open file?
  made,        \* blocks built so far, the source of fresh identities
  faults,      \* crashes and I/O errors so far
  sound,       \* history: none of them was one that recovery cannot cope with
  served       \* the chain as last held by a process that answers requests

vars == <<segs, wal, lock, pc, blocks, pending, activeSize, activeOpen,
          made, faults, sound, served>>

LastBlock(chain) == IF chain = <<>> THEN NoBlock ELSE chain[Len(chain)]
-------------------------------------------------------------------------------
(* Reading segments *)

(* readFrame fails on a torn record, and on a lone header that is followed   *)
(* by the bytes of another record; a lone header at the very end of the file *)
(* reads as a clean end of file.                                             *)
Damaged(seg, i) ==
  \/ seg[i].kind = "torn"
  \/ seg[i].kind = "hdr" /\ i < Len(seg)

(* Mutant: a damaged file is emptied *)
IntactOrNothing(seg) ==
  IF \E i \in DOMAIN seg : Damaged(seg, i) THEN <<>> ELSE seg

(* recoverSegments truncates a file at the first frame it cannot read *)
Intact(seg) ==
  LET bad == {i \in DOMAIN seg : Damaged(seg, i)}
  IN  IF bad = {} THEN seg ELSE SubSeq(seg, 1, Min(bad) - 1)

RecoverSegments(files) == [s \in DOMAIN files |-> Intact(files[s])]

(* openActive creates the first segment when there is none *)
OpenActive(files) == IF files = <<>> THEN << <<>> >> ELSE files

CellSize(cell) == IF cell.kind = "rec" THEN cell.block.size ELSE 1

(* The bytes of the file, by cell and offset *)
FileSize(seg) == Cardinality(UNION {{<<i, n>> : n \in 1..CellSize(seg[i])} : i \in DOMAIN seg})

Records(files) ==
  {p \in UNION {{s} \X DOMAIN files[s] : s \in DOMAIN files} :
     files[p[1]][p[2]].kind = "rec"}
BlockAt(files, p) == files[p[1]][p[2]].block
Before(p, q) == p[1] < q[1] \/ (p[1] = q[1] /\ p[2] < q[2])

(* Mutant: the first record of a height wins *)
HoldsFirst(files, h, b) ==
  \E p \in Records(files) :
    /\ BlockAt(files, p) = b /\ b.height = h
    /\ \A q \in Records(files) : BlockAt(files, q).height = h => q = p \/ Before(p, q)

(* f.index: the last record of every height wins *)
Holds(files, h, b) ==
  \E p \in Records(files) :
    /\ BlockAt(files, p) = b /\ b.height = h
    /\ \A q \in Records(files) : BlockAt(files, q).height = h => q = p \/ Before(q, p)
Index(files) ==
  [h \in {BlockAt(files, p).height : p \in Records(files)} |->
     CHOOSE b \in {BlockAt(files, p) : p \in Records(files)} : Holds(files, h, b)]

(* applyLoaded accepts what ReadAll returns: no height is missing and every  *)
(* block names the one before it.                                            *)
Loads(index) ==
  \A h \in DOMAIN index :
    IF h = 1 THEN index[h].prev = 0
             ELSE h - 1 \in DOMAIN index /\ index[h].prev = index[h - 1].id
-------------------------------------------------------------------------------
(* Writing segments *)

TooBig(b) == b.size > SegmentSize
MustRotate(b) == activeSize + b.size > SegmentSize

(* The files after the append of b got as far as leaving the given residue *)
Wrote(b, residue) ==
  LET files == IF MustRotate(b) THEN Append(segs, <<>>) ELSE segs
  IN  IF residue = "none" THEN files
      ELSE [files EXCEPT ![Len(files)] = Append(@, [kind |-> residue, block |-> b])]

(* A crash or an I/O error, harmful or one that recovery copes with *)
Fault(harmful) ==
  /\ faults < MaxFaults
  /\ faults' = faults + 1
  /\ sound' = (sound /\ ~harmful)

AppendSucceeds(b) ==
  /\ activeOpen /\ ~TooBig(b)
  /\ segs' = Wrote(b, "rec")
  /\ activeSize' = IF MustRotate(b) THEN b.size ELSE activeSize + b.size
  /\ UNCHANGED <<activeOpen, faults, sound>>

(* Refused for its size; or f.active was left closed by a failed rotation *)
AppendRefused(b) ==
  /\ TooBig(b) \/ ~activeOpen
  /\ UNCHANGED <<segs, activeSize, activeOpen, faults, sound>>

(* Sync, Close or openActive failed while rotating: in the last two cases    *)
(* f.active is closed, in the last one the new file may exist.               *)
RotateFails(b) ==
  /\ activeOpen /\ ~TooBig(b) /\ MustRotate(b)
  /\ Fault(FALSE)
  /\ \/ UNCHANGED segs /\ activeOpen' \in BOOLEAN
     \/ segs' = Append(segs, <<>>) /\ activeOpen' = FALSE
  /\ UNCHANGED activeSize

(* Write or Sync failed: the bytes are there or not, f.activeSize does not   *)
(* count them, and O_APPEND puts the next record behind them. A part of a    *)
(* record is harmful there: recovery truncates what follows it.              *)
WriteFails(b) ==
  /\ activeOpen /\ ~TooBig(b)
  /\ \E residue \in FailLeft :
       segs' = Wrote(b, residue) /\ Fault(residue \in {"torn", "hdr"})
  /\ activeSize' = IF MustRotate(b) THEN 0 ELSE activeSize
  /\ UNCHANGED activeOpen

AppendFails(b) == AppendRefused(b) \/ RotateFails(b) \/ WriteFails(b)
-------------------------------------------------------------------------------
(* Open *)

Init ==
  /\ segs = <<>> /\ wal = NoBlock /\ lock = FALSE
  /\ pc = "down" /\ blocks = <<>> /\ pending = NoBlock
  /\ activeSize = 0 /\ activeOpen = FALSE
  /\ made = 0 /\ faults = 0 /\ sound = TRUE /\ served = <<>>

(* The process is gone, and what it held in memory with it *)
Stopped ==
  /\ pc' = "down" /\ blocks' = <<>> /\ pending' = NoBlock
  /\ activeSize' = 0 /\ activeOpen' = FALSE

(* A process answers requests from now on *)
Ready(chain) == pc' = "ready" /\ blocks' = chain /\ served' = chain

(* os.OpenFile(LOCK, O_CREATE|O_EXCL) *)
TakeLock ==
  /\ pc = "down" /\ ~lock
  /\ lock' = TRUE /\ pc' = "locked"
  /\ UNCHANGED <<segs, wal, blocks, pending, activeSize, activeOpen, made, faults, sound, served>>

(* A read of recovery returns an error at a frame it could have read: the    *)
(* file is truncated there all the same, and recovery goes on.               *)
ReadFails ==
  /\ pc = "locked" /\ ReadErrors
  /\ Fault(TRUE)
  /\ \E s \in DOMAIN segs : \E i \in DOMAIN Intact(segs[s]) :
       segs' = [segs EXCEPT ![s] = SubSeq(@, 1, i - 1)]
  /\ UNCHANGED <<wal, lock, pc, blocks, pending, activeSize, activeOpen, made, served>>

(* Recovery truncates the files whether or not the chain is accepted. An     *)
(* error leaves LOCK behind.                                                 *)
LoadSegments ==
  LET files == OpenActive(RecoverSegments(segs))
      index == Index(files)
  IN
  /\ pc = "locked"
  /\ segs' = files
  /\ \/ /\ Loads(index)
        /\ pc' = "loaded" /\ blocks' = index
        /\ activeSize' = FileSize(files[Len(files)]) /\ activeOpen' = TRUE
        /\ UNCHANGED pending
     \/ /\ ~Loads(index)
        /\ Stopped
  /\ UNCHANGED <<wal, lock, made, faults, sound, served>>

(* The log is empty, or holds the last block: ClearWAL's error is ignored.   *)
ReplayNothing ==
  /\ pc = "loaded"
  /\ \/ wal = NoBlock /\ UNCHANGED <<wal, faults, sound>>
     \/ /\ wal # NoBlock /\ LastBlock(blocks).id = wal.id
        /\ (wal' = NoBlock /\ UNCHANGED <<faults, sound>>) \/ (Fault(FALSE) /\ UNCHANGED wal)
  /\ Ready(blocks)
  /\ UNCHANGED <<segs, lock, pending, activeSize, activeOpen, made>>

MustReplay == pc = "loaded" /\ wal # NoBlock /\ LastBlock(blocks).id # wal.id

ReplayAppends ==
  /\ MustReplay
  /\ AppendSucceeds(wal)
  /\ pc' = "replayed"
  /\ UNCHANGED <<wal, lock, blocks, pending, made, served>>

(* The log does not fit into a segment (or its frame is too long to be read  *)
(* at all), or the append fails: Open returns an error and keeps LOCK.       *)
ReplayAppendFails ==
  /\ MustReplay
  /\ \/ TooBig(wal) /\ UNCHANGED <<segs, faults, sound>>
     \/ /\ ~TooBig(wal)
        /\ \/ UNCHANGED segs /\ Fault(FALSE)
           \/ \E residue \in FailLeft : segs' = Wrote(wal, residue) /\ Fault(residue = "hdr")
  /\ Stopped
  /\ UNCHANGED <<wal, lock, made, served>>

(* Mutant: the replayed block is not checked against the chain *)
ReplayAppliesUnchecked ==
  /\ pc = "replayed"
  /\ Ready(Append(blocks, wal))
  /\ wal' = NoBlock
  /\ UNCHANGED <<segs, lock, pending, activeSize, activeOpen, made, faults, sound>>

(* applyLoaded of the replayed block, then ClearWAL, its error ignored *)
ReplayApplies ==
  /\ pc = "replayed"
  /\ wal.height = Len(blocks) + 1 /\ wal.prev = LastBlock(blocks).id
  /\ Ready(Append(blocks, wal))
  /\ (wal' = NoBlock /\ UNCHANGED <<faults, sound>>) \/ (Fault(FALSE) /\ UNCHANGED wal)
  /\ UNCHANGED <<segs, lock, pending, activeSize, activeOpen, made>>

ReplayRejected ==
  /\ pc = "replayed"
  /\ ~(wal.height = Len(blocks) + 1 /\ wal.prev = LastBlock(blocks).id)
  /\ Stopped
  /\ UNCHANGED <<segs, wal, lock, made, faults, sound, served>>
-------------------------------------------------------------------------------
(* Commit *)

(* Mutant: heights are counted from 0 *)
NewBlockFromZero(size) ==
  [id |-> made + 1, height |-> Len(blocks), prev |-> LastBlock(blocks).id, size |-> size]

(* Mutant: heights are counted by attempts *)
NewBlockByAttempt(size) ==
  [id |-> made + 1, height |-> made + 1, prev |-> LastBlock(blocks).id, size |-> size]

NewBlock(size) ==
  [id |-> made + 1, height |-> Len(blocks) + 1, prev |-> LastBlock(blocks).id,
   size |-> size]

(* The log is written to a temporary file, synced and renamed into place *)
WriteWAL(size) ==
  /\ pc = "ready" /\ made < MaxBlocks
  /\ wal' = NewBlock(size) /\ pending' = NewBlock(size)
  /\ made' = made + 1
  /\ pc' = "logged"
  /\ UNCHANGED <<segs, lock, blocks, activeSize, activeOpen, faults, sound, served>>

(* An error before the rename: the old log, if any, is still in place *)
WriteWALFails ==
  /\ pc = "ready" /\ made < MaxBlocks
  /\ Fault(FALSE)
  /\ UNCHANGED <<segs, wal, lock, pc, blocks, pending, activeSize, activeOpen, made, served>>

(* The append, and the update of the memory that follows it *)
CommitAppends ==
  /\ pc = "logged"
  /\ AppendSucceeds(pending)
  /\ pc' = "applied"
  /\ blocks' = Append(blocks, pending) /\ served' = blocks'
  /\ UNCHANGED <<wal, lock, pending, made>>

(* Commit returns the error; the log stays *)
CommitAppendFails ==
  /\ pc = "logged"
  /\ AppendFails(pending)
  /\ pc' = "ready" /\ pending' = NoBlock
  /\ UNCHANGED <<wal, lock, blocks, made, served>>

(* Commit returns the block, with an error when the log cannot be removed *)
ClearWAL ==
  /\ pc = "applied"
  /\ (wal' = NoBlock /\ UNCHANGED <<faults, sound>>) \/ (Fault(FALSE) /\ UNCHANGED wal)
  /\ pc' = "ready" /\ pending' = NoBlock
  /\ UNCHANGED <<segs, lock, blocks, activeSize, activeOpen, made, served>>
-------------------------------------------------------------------------------
(* Stopping and starting again *)

Close ==
  /\ pc = "ready"
  /\ lock' = FALSE
  /\ Stopped
  /\ UNCHANGED <<segs, wal, made, faults, sound, served>>

(* The block an append may be under way for *)
InFlight ==
  IF pc = "logged" THEN pending ELSE IF MustReplay THEN wal ELSE NoBlock

(* A crash at any point, in the middle of an append too. LOCK stays. A lone  *)
(* header is harmful: recovery does not see it.                              *)
Crash ==
  /\ pc # "down"
  /\ \/ UNCHANGED segs /\ Fault(FALSE)
     \/ /\ InFlight # NoBlock /\ activeOpen /\ ~TooBig(InFlight)
        /\ \E residue \in CrashLeft :
             segs' = Wrote(InFlight, residue) /\ Fault(residue = "hdr")
  /\ Stopped
  /\ UNCHANGED <<wal, lock, made, served>>

(* Mutant: a directory with a log is not unlocked *)
UnlockWithoutLog ==
  /\ pc = "down" /\ lock /\ wal = NoBlock
  /\ lock' = FALSE
  /\ UNCHANGED <<segs, wal, pc, blocks, pending, activeSize, activeOpen, made, faults, sound, served>>

(* agidb unlock, run when no process is active *)
Unlock ==
  /\ pc = "down" /\ lock
  /\ lock' = FALSE
  /\ UNCHANGED <<segs, wal, pc, blocks, pending, activeSize, activeOpen, made, faults, sound, served>>

OpenSteps ==
  \/ TakeLock \/ LoadSegments \/ ReplayNothing \/ ReplayAppends
  \/ ReplayAppendFails \/ ReplayApplies \/ ReplayRejected

CommitSteps ==
  \/ CommitAppends \/ CommitAppendFails \/ ClearWAL

Next ==
  \/ OpenSteps
  \/ \E size \in Sizes : WriteWAL(size)
  \/ WriteWALFails
  \/ CommitSteps
  \/ Close \/ Crash \/ ReadFails \/ Unlock

Spec == Init /\ [][Next]_vars

(* A process that has started runs on, and a stopped database is unlocked    *)
(* and started again. Nobody is obliged to commit, to close or to crash.     *)
FairSpec ==
  Spec /\ WF_vars(OpenSteps) /\ WF_vars(CommitSteps) /\ WF_vars(Unlock)
-------------------------------------------------------------------------------
(* Properties *)

(* Every variable has its type. *)
TypeOK ==
  /\ segs \in Seq(Seq(Cell))
  /\ wal \in Block \cup {NoBlock} /\ lock \in BOOLEAN
  /\ pc \in {"down", "locked", "loaded", "replayed", "ready", "logged", "applied"}
  /\ blocks \in Seq(Block) /\ pending \in Block \cup {NoBlock}
  /\ activeSize \in Nat /\ activeOpen \in BOOLEAN
  /\ made \in 0..MaxBlocks /\ faults \in 0..MaxFaults /\ sound \in BOOLEAN
  /\ served \in Seq(Block)

(* The served blocks that recovery would find at their heights *)
Found ==
  LET index == Index(RecoverSegments(segs))
  IN  {h \in DOMAIN served : h \in DOMAIN index /\ index[h] = served[h]}

(* Until the first harmful fault (an append that left part of a record in a  *)
(* process that runs on, a crash right behind a frame header, a read error   *)
(* during recovery), recoverSegments finds every block that was ever served  *)
(* whenever the process dies: no other crash, failed append, rotation, retry *)
(* or recovery buries, replaces or truncates one.                            *)
ServedDurable == sound => Found = DOMAIN served

(* "WAL durability", whatever the fault: every block that was ever served is *)
(* found in the segments or is still in the log.                             *)
Durability == \A h \in DOMAIN served : h \in Found \/ wal = served[h]

(* The log never disagrees with the chain, whatever fault has happened: it   *)
(* is the last served block or the continuation of the served chain, so that *)
(* replaying it can only extend the chain.                                   *)
LogAnchored ==
  wal # NoBlock =>
    \/ wal = LastBlock(served)
    \/ wal.height = Len(served) + 1 /\ wal.prev = LastBlock(served).id

L == INSTANCE Ledger WITH chain <- served

(* Storage implements Ledger until the first harmful fault: up to then the   *)
(* served chain grows one linked block at a time, also across crashes and    *)
(* reopenings.                                                               *)
ImplementsLedger == L!Init /\ [][sound' => L!Next]_served

(* A database that is down comes up again, or meets a harmful fault: no      *)
(* lock, damaged segment or log makes Open fail forever, unless the logged   *)
(* block fits into no segment.                                               *)
Recovers == pc = "down" /\ sound /\ ~TooBig(wal) ~> pc = "ready" \/ ~sound
===============================================================================
