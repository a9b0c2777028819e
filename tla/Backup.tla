-------------------------------- MODULE Backup --------------------------------
(*****************************************************************************)
(* Backup, RestoreBackup and BootstrapReplica (enterprise.go) beside a       *)
(* running database: Backup takes no lock and walks the directory in the     *)
(* order of its names, data before wal, copying one file after the other;    *)
(* the source goes on committing, crashes and reopens meanwhile. Restore     *)
(* unpacks aside, renames, and opens and verifies the result.                *)
(*                                                                           *)
(* Abstractions.                                                             *)
(*  - disk is the index that recovery finds in the segments: of two records  *)
(*    of a height the later one counts. A record cut in half is cut off by   *)
(*    recovery. The one cut for which that fails, and reads that fail while  *)
(*    recovery goes on, are the subject of Storage; here reads do not fail.  *)
(*  - What is written behind a torn record is found if it lies in a later    *)
(*    segment, and not otherwise: both may happen.                           *)
(*  - Copying data is one step: it takes what is there, since a segment only *)
(*    grows at its end and later segments are not in the listing.            *)
(*  - The archive is what it holds; compression and encryption are left out. *)
(*  - The other files of the directory do not bear on opening it.            *)
(*****************************************************************************)
EXTENDS Naturals, SequencesExt

CONSTANTS
  NoBlock,    \* "there is no log"
  Rejected,   \* "Open returned an error"
  MaxBlocks,  \* bound: blocks logged by the source
  MaxFaults   \* bound: crashes and I/O errors of the source

ASSUME MaxBlocksAssumption == MaxBlocks \in Nat /\ MaxFaults \in Nat

Block == [id : 1..MaxBlocks, height : 1..MaxBlocks, prev : 0..MaxBlocks]
IsIndex(index) ==
  DOMAIN index \subseteq 1..MaxBlocks /\ \A h \in DOMAIN index : index[h] \in Block

ASSUME NoBlockAssumption == NoBlock \notin Block
ASSUME RejectedAssumption == Rejected \notin Seq(Block)

VARIABLES
  disk,    \* the blocks recovery finds in the source's segments, by height
  torn,    \* is a record cut in half before the end of the segment?
  wal,     \* the source's log, or NoBlock
  mem,     \* the chain the source has in memory
  pc,      \* where the source is
  made,    \* blocks logged by the source so far
  faults,  \* crashes and I/O errors of the source so far
  bpc,     \* where the backup is
  copy,    \* what the archive holds: data and wal
  listed,  \* did the walk find commit.wal?
  replica, \* the chain the restored directory opens with, Rejected or NoBlock
  since,   \* history: the heights there were when the backup began
  still,   \* history: was no log written between the copies of data and wal?
  forked,  \* history: has the source given up a block it had logged?
  spoiled  \* history: did an append that failed leave something in a segment?

sourceVars == <<disk, torn, wal, mem, pc, made, faults, forked, spoiled>>
backupVars == <<bpc, copy, listed, replica, since, still>>
vars == <<sourceVars, backupVars>>

LastId(chain) == IF chain = <<>> THEN 0 ELSE chain[Len(chain)].id
Fits(chain, b) == b.height = Len(chain) + 1 /\ b.prev = LastId(chain)
Repeats(chain, b) == chain # <<>> /\ b = chain[Len(chain)]

(* applyLoaded accepts the blocks: no height is missing and every block      *)
(* names the one before it                                                   *)
Linked(index) ==
  \A h \in DOMAIN index :
    IF h = 1 THEN index[h].prev = 0
             ELSE h - 1 \in DOMAIN index /\ index[h].prev = index[h - 1].id

Add(index, b) ==
  [h \in DOMAIN index \cup {b.height} |-> IF h = b.height THEN b ELSE index[h]]

Fault ==
  /\ faults < MaxFaults
  /\ faults' = faults + 1
-------------------------------------------------------------------------------
(* The source *)

(* Mutant: heights are counted from 0 *)
NewBlockFromZero == [id |-> made + 1, height |-> Len(mem), prev |-> LastId(mem)]

NewBlock == [id |-> made + 1, height |-> Len(mem) + 1, prev |-> LastId(mem)]

WriteLog ==
  /\ pc = "ready" /\ made < MaxBlocks
  /\ wal' = NewBlock
  /\ made' = made + 1 /\ pc' = "logged"
  /\ still' = (still /\ bpc \notin {"copied", "listed"})
  /\ UNCHANGED <<disk, torn, mem, faults, forked, spoiled, bpc, copy, listed, replica, since>>

AppendBlock ==
  /\ pc = "logged"
  /\ disk' = Add(disk, wal) \/ (torn /\ UNCHANGED disk)
  /\ mem' = Append(mem, wal) /\ pc' = "appended"
  /\ UNCHANGED <<torn, wal, made, faults, forked, spoiled, backupVars>>

(* Commit returns the error and leaves the log, and in the segment nothing,  *)
(* the whole record or a part of it; the next Commit will make another block *)
(* of that height.                                                           *)
AppendFails ==
  /\ pc = "logged"
  /\ Fault
  /\ \/ UNCHANGED <<disk, torn, spoiled>>
     \/ disk' = Add(disk, wal) /\ spoiled' = TRUE /\ UNCHANGED torn
     \/ torn' = TRUE /\ spoiled' = TRUE /\ UNCHANGED disk
  /\ pc' = "ready" /\ forked' = TRUE
  /\ UNCHANGED <<wal, mem, made, backupVars>>

(* The log is removed, or that fails and it stays *)
ClearWAL == (wal' = NoBlock /\ UNCHANGED faults) \/ (Fault /\ UNCHANGED wal)

ClearLog ==
  /\ pc = "appended"
  /\ ClearWAL
  /\ pc' = "ready"
  /\ UNCHANGED <<disk, torn, mem, made, forked, spoiled, backupVars>>

Crash ==
  /\ pc # "down"
  /\ Fault
  /\ pc' = "down"
  /\ UNCHANGED <<disk, torn, wal, mem, made, forked, spoiled, backupVars>>

(* Open finds no log or one that holds the last block *)
Reopen ==
  /\ pc = "down" /\ Linked(disk)
  /\ wal = NoBlock \/ Repeats(disk, wal)
  /\ mem' = disk /\ torn' = FALSE
  /\ ClearWAL
  /\ pc' = "ready"
  /\ UNCHANGED <<disk, made, forked, spoiled, backupVars>>

(* Open appends the log's block, and the block continues the chain *)
Replay ==
  /\ pc = "down" /\ Linked(disk)
  /\ wal # NoBlock /\ ~Repeats(disk, wal) /\ Fits(disk, wal)
  /\ disk' = Add(disk, wal) /\ mem' = Append(disk, wal) /\ torn' = FALSE
  /\ ClearWAL
  /\ pc' = "ready"
  /\ UNCHANGED <<made, forked, spoiled, backupVars>>

(* Open returns an error: the blocks do not link; the log's block, appended  *)
(* before it is checked, does not continue them; or the append fails         *)
ReopenFails ==
  /\ pc = "down"
  /\ \/ ~Linked(disk) /\ UNCHANGED <<disk, faults>>
     \/ /\ Linked(disk) /\ wal # NoBlock /\ ~Repeats(disk, wal)
        /\ \/ ~Fits(disk, wal) /\ disk' = Add(disk, wal) /\ UNCHANGED faults
           \/ Fault /\ disk' \in {disk, Add(disk, wal)}
  /\ torn' = FALSE
  /\ UNCHANGED <<wal, mem, pc, made, forked, spoiled, backupVars>>
-------------------------------------------------------------------------------
(* Backup *)

StartBackup ==
  /\ bpc \in {"idle", "restored", "failed"}
  /\ bpc' = "walking" /\ since' = DOMAIN disk
  /\ copy' = [data |-> <<>>, wal |-> NoBlock] /\ replica' = NoBlock
  /\ UNCHANGED <<sourceVars, listed, still>>

(* Mutant: the last record is left to the next backup *)
CopyDataButLast ==
  /\ bpc = "walking"
  /\ copy' = [copy EXCEPT !.data = IF disk = <<>> \/ ~Linked(disk) THEN disk ELSE Front(disk)]
  /\ bpc' = "copied" /\ still' = TRUE
  /\ UNCHANGED <<sourceVars, listed, replica, since>>

(* The record of an append under way may be in the file already *)
CopyData ==
  /\ bpc = "walking"
  /\ \E index \in {disk} \cup (IF pc = "logged" THEN {Add(disk, wal)} ELSE {}) :
       copy' = [copy EXCEPT !.data = index]
  /\ bpc' = "copied" /\ still' = TRUE
  /\ UNCHANGED <<sourceVars, listed, replica, since>>

ListWal ==
  /\ bpc = "copied"
  /\ bpc' = "listed" /\ listed' = (wal # NoBlock)
  /\ UNCHANGED <<sourceVars, copy, replica, since, still>>

(* The log is read under its name: it may be another one by now *)
CopyWal ==
  /\ bpc = "listed" /\ (listed => wal # NoBlock)
  /\ copy' = [copy EXCEPT !.wal = IF listed THEN wal ELSE NoBlock]
  /\ bpc' = "archived"
  /\ UNCHANGED <<sourceVars, listed, replica, since, still>>

(* A file that was listed is gone when it is opened, or an I/O error: no     *)
(* archive is written                                                        *)
BackupFails ==
  /\ bpc \in {"walking", "copied", "listed"}
  /\ bpc' = "failed"
  /\ UNCHANGED <<sourceVars, copy, listed, replica, since, still>>

(* Mutant: the replayed block is not checked against the chain *)
OpenedUnchecked(a) ==
  IF ~Linked(a.data) THEN Rejected
  ELSE IF a.wal = NoBlock \/ Repeats(a.data, a.wal) THEN a.data ELSE Append(a.data, a.wal)

(* What Open makes of the restored directory *)
Opened(a) ==
  IF ~Linked(a.data) THEN Rejected
  ELSE IF a.wal = NoBlock \/ Repeats(a.data, a.wal) THEN a.data
  ELSE IF Fits(a.data, a.wal) THEN Append(a.data, a.wal) ELSE Rejected

(* Restore into a directory that does not exist, Open and Verify. An error   *)
(* of Open leaves the directory.                                             *)
Restore ==
  /\ bpc = "archived"
  /\ replica' = Opened(copy)
  /\ bpc' = "restored"
  /\ UNCHANGED <<sourceVars, copy, listed, since, still>>

(* The target has files in it; or it is an empty directory, onto which       *)
(* os.Rename moves nothing                                                   *)
RestoreRefused ==
  /\ bpc = "archived"
  /\ bpc' = "failed"
  /\ UNCHANGED <<sourceVars, copy, listed, replica, since, still>>

Init ==
  /\ disk = <<>> /\ torn = FALSE /\ wal = NoBlock /\ mem = <<>> /\ pc = "ready"
  /\ made = 0 /\ faults = 0 /\ forked = FALSE /\ spoiled = FALSE
  /\ bpc = "idle" /\ copy = [data |-> <<>>, wal |-> NoBlock] /\ listed = FALSE
  /\ replica = NoBlock /\ since = {} /\ still = TRUE

Next ==
  \/ WriteLog \/ AppendBlock \/ AppendFails \/ ClearLog \/ Crash
  \/ Reopen \/ Replay \/ ReopenFails
  \/ StartBackup \/ CopyData \/ ListWal \/ CopyWal \/ BackupFails
  \/ Restore \/ RestoreRefused

Spec == Init /\ [][Next]_vars
-------------------------------------------------------------------------------
(* Properties *)

(* Every variable has its type. *)
TypeOK ==
  /\ IsIndex(disk) /\ wal \in Block \cup {NoBlock} /\ mem \in Seq(Block)
  /\ pc \in {"down", "ready", "logged", "appended"}
  /\ made \in 0..MaxBlocks /\ faults \in 0..MaxFaults
  /\ bpc \in {"idle", "walking", "copied", "listed", "archived", "restored", "failed"}
  /\ IsIndex(copy.data) /\ copy.wal \in Block \cup {NoBlock}
  /\ replica \in Seq(Block) \cup {Rejected, NoBlock}
  /\ since \subseteq 1..MaxBlocks
  /\ {torn, listed, still, forked, spoiled} \subseteq BOOLEAN

Restored == bpc = "restored" /\ replica # Rejected

(* The blocks the source has or is about to have *)
History == IF wal # NoBlock /\ Fits(disk, wal) THEN Append(disk, wal) ELSE disk

(* A restored database that opens is the source as it was at one moment: a   *)
(* prefix of the source's chain, with every block that was there when the    *)
(* backup began, as long as no append of the source has failed.              *)
ReplicaOfSource ==
  Restored /\ ~forked => IsPrefix(replica, History) /\ since \subseteq DOMAIN replica

(* A restored database opens if no commit was begun between the copies of    *)
(* data and of the log, and no append that failed has left its record or a   *)
(* part of it in the segment, however the source crashed, failed or          *)
(* reopened. A record left by a failed append and the log of the next one    *)
(* are two blocks of one height, and Open refuses the second.                *)
RestoreOpens == bpc = "restored" /\ still /\ ~spoiled => replica # Rejected
===============================================================================
