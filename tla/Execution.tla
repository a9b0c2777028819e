------------------------------ MODULE Execution -------------------------------
(*****************************************************************************)
(* The callers of Commit in engine.go that build its transaction lists:      *)
(* CommitExecution, which turns the maps of an execution bundle into one     *)
(* sorted list; the Put helpers of the namespaces; and CommitOperations,     *)
(* which commits a long list batch by batch and stops at the first error.    *)
(*                                                                           *)
(* Abstractions.                                                             *)
(*  - A bundle is the set of the entries of its maps. Which key a section    *)
(*    and a name are put together to, and what the name is in lower case,    *)
(*    are constants.                                                         *)
(*  - Go visits a map in random order and sort.Slice may swap equal keys:    *)
(*    the list is any arrangement of the entries with ascending keys.        *)
(*  - A Commit that fails may leave its log, which the next Open replays,    *)
(*    and bytes of its record in the segment. A log that repeats the last    *)
(*    block does nothing and counts as none. What Open finds once something  *)
(*    has been written behind such bytes, after a read error, or behind a    *)
(*    record cut off after its header is the subject of Storage: here Open   *)
(*    reads every block that was committed, or fails.                        *)
(*****************************************************************************)
EXTENDS Engine, Integers

CONSTANTS
  Lower,      \* Lower[n]: strings.ToLower of the name n
  KeyIn,      \* KeyIn[s][n]: the key of the name n in section s
  Rank,       \* Rank[k]: the place of key k in the order of strings
  Bundles,    \* the bundles handed to CommitExecution, as sets of entries
  Helpers,    \* the calls of Put helpers, as sequences of entries
  Imports,    \* the lists handed to CommitOperations
  BatchSize,  \* the batchSize handed to CommitOperations
  MaxOthers   \* bound: no bundle or helper is called beyond this height

ASSUME RankAssumption ==
  /\ Rank \in [Key \cup {NoKey} -> Nat]
  /\ \A j, k \in Key \cup {NoKey} : Rank[j] = Rank[k] => j = k
ASSUME ImportsAssumption ==
  Imports \subseteq Seq(Operation) /\ BatchSize \in Int

VARIABLES
  status,   \* of the import: "none", "running", "failed" or "done"
  todo,     \* the list it commits
  next,     \* where its next batch starts
  base,     \* history: the state the import runs on
  reached,  \* history: how many operations of it were ever committed
  log,      \* the list in wal/commit.wal, and the batch of the import it is
  rest,     \* what failed appends have left behind the last block
  opening   \* is Open still to replay the log?

importVars == <<status, todo, next, base, reached>>
diskVars == <<log, rest, opening>>
execVars == <<vars, importVars, diskVars>>

NoLog == [list |-> <<>>, at |-> -1]

JsonSections == {"accounts", "receipts", "logs"}
ValidJson(x) == x.section \in JsonSections => x.json
-------------------------------------------------------------------------------
(* Commit and what it leaves on disk *)

(* The log is removed, or repeats the last block *)
Commits(list) ==
  /\ ~opening
  /\ Commit(list)
  /\ log' = NoLog
  /\ rest' = IF rest = "none" THEN "none" ELSE "buried"
  /\ UNCHANGED opening

Refused(list) == ~opening /\ CommitRefused(list) /\ UNCHANGED diskVars

(* An I/O error: WriteWAL leaves the log there was, AppendBlock this one and *)
(* nothing, a part or all of the record. What follows a part goes with it    *)
(* when Open truncates; another log than that of a whole record never fits.  *)
CommitFails(list, at) ==
  /\ up /\ ~opening /\ Len(blocks) < MaxHeight
  /\ WellFormed(list) /\ DOMAIN Filtered(state, list) # {}
  /\ \/ UNCHANGED <<log, rest>>
     \/ /\ log' = [list |-> list, at |-> at]
        /\ rest' \in CASE rest = "none" -> {"none", "torn", "whole"}
                        [] rest = "torn" -> {"torn"}
                        [] OTHER -> {"buried"}
  /\ UNCHANGED <<vars, opening>>

(* By another caller than an import *)
CommitCalled(list) == Commits(list) \/ Refused(list) \/ CommitFails(list, -1)
-------------------------------------------------------------------------------
(* Execution bundles and Put helpers *)

(* CommitExecution folds the addresses of accounts and of contract code *)
EntryKey(x) ==
  KeyIn[x.section][IF x.section \in {"accounts", "contract_code"} THEN Lower[x.name] ELSE x.name]

(* Of the helpers only PutAccount folds *)
HelperKey(x) ==
  KeyIn[x.section][IF x.section = "accounts" THEN Lower[x.name] ELSE x.name]

PutOp(k, x) == [tx |-> 1, key |-> k, value |-> x.value, delete |-> FALSE]

ASSUME BundlesAssumption ==
  \A bundle \in Bundles :
    IsFiniteSet(bundle) /\ \A x \in bundle : PutOp(EntryKey(x), x) \in Operation
ASSUME HelpersAssumption ==
  \A call \in Helpers :
    /\ call \in Seq({call[i] : i \in DOMAIN call})
    /\ \A i \in DOMAIN call : PutOp(HelperKey(call[i]), call[i]) \in Operation

Arranged(bundle) ==
  {list \in [1..Cardinality(bundle) -> bundle] :
     \A i, j \in DOMAIN list : list[i] = list[j] => i = j}

(* Mutant: the list is left in the order in which the maps were visited *)
ListsUnsorted(bundle) ==
  {[i \in DOMAIN list |-> PutOp(EntryKey(list[i]), list[i])] : list \in Arranged(bundle)}

Lists(bundle) ==
  {[i \in DOMAIN list |-> PutOp(EntryKey(list[i]), list[i])] :
     list \in {l \in Arranged(bundle) :
                 \A i, j \in DOMAIN l : i < j => Rank[EntryKey(l[i])] <= Rank[EntryKey(l[j])]}}

NoImport ==
  /\ status' = "none" /\ todo' = <<>> /\ next' = 0
  /\ base' = EmptyState /\ reached' = 0

(* Another caller: an import that ended is of no interest any more *)
Elsewhere == status # "running" /\ Len(blocks) <= MaxOthers /\ NoImport

CommitExecution(bundle) ==
  /\ \A x \in bundle : ValidJson(x)
  /\ \E list \in Lists(bundle) : CommitCalled(list)
  /\ Elsewhere

(* One transaction: a single put, or code and ABI of a contract *)
PutHelper(call) ==
  LET list == [i \in DOMAIN call |-> PutOp(HelperKey(call[i]), call[i])]
  IN
  /\ \A i \in DOMAIN call : ValidJson(call[i])
  /\ CommitCalled(list)
  /\ Elsewhere

(* An error before Commit is called *)
JsonRefused(entries) ==
  /\ up /\ ~opening
  /\ \E x \in entries : ~ValidJson(x)
  /\ Elsewhere
  /\ UNCHANGED <<vars, diskVars>>
-------------------------------------------------------------------------------
(* CommitOperations *)

Step == IF BatchSize <= 0 THEN 1000 ELSE BatchSize

(* Mutant: a batch ends one operation short of the next one *)
BatchEndShort(start) ==
  IF start + Step > Len(todo) THEN Len(todo) ELSE start + Step - 1

BatchEnd(start) == IF start + Step > Len(todo) THEN Len(todo) ELSE start + Step

(* ops[start:end], every operation in a transaction of its own *)
Slice == [i \in 1..BatchEnd(next) - next |-> [todo[next + i] EXCEPT !.tx = i]]

Reaches(n) == reached' = IF n > reached THEN n ELSE reached

StartImport(list) ==
  /\ up /\ ~opening /\ status = "none"
  /\ status' = "running" /\ todo' = list /\ next' = 0
  /\ base' = state /\ reached' = 0
  /\ log' = [log EXCEPT !.at = -1]
  /\ UNCHANGED <<vars, rest, opening>>

(* Mutant: a batch that changes nothing ends the import *)
ImportBatchOrStop ==
  /\ status = "running" /\ next < Len(todo)
  /\ \/ Commits(Slice) /\ next' = next + Step
     \/ WellFormed(Slice) /\ Refused(Slice) /\ next' = Len(todo)
  /\ Reaches(BatchEnd(next))
  /\ UNCHANGED <<status, todo, base>>

(* A batch that changes nothing is passed over *)
ImportBatch ==
  /\ status = "running" /\ next < Len(todo)
  /\ Commits(Slice) \/ (WellFormed(Slice) /\ Refused(Slice))
  /\ next' = next + Step
  /\ Reaches(BatchEnd(next))
  /\ UNCHANGED <<status, todo, base>>

(* An error ends the import: the batch is refused for an empty key, an I/O   *)
(* error stopped its Commit, or the block was committed and its log not      *)
(* removed. The process may also have died there, see ExecClose.             *)
ImportFails ==
  /\ status = "running" /\ next < Len(todo)
  /\ \/ Commits(Slice) /\ Reaches(BatchEnd(next))
     \/ ~WellFormed(Slice) /\ Refused(Slice) /\ UNCHANGED reached
     \/ CommitFails(Slice, next) /\ UNCHANGED reached
  /\ status' = "failed"
  /\ UNCHANGED <<todo, next, base>>

ImportEnds ==
  /\ status = "running" /\ next >= Len(todo)
  /\ status' = "done"
  /\ UNCHANGED <<vars, todo, next, base, reached, diskVars>>

(* The caller starts again from the beginning of the list *)
RetryImport ==
  /\ up /\ ~opening /\ status = "failed"
  /\ status' = "running" /\ next' = 0
  /\ UNCHANGED <<vars, todo, base, reached, diskVars>>
-------------------------------------------------------------------------------
(* Restarts *)

(* The process may end in the middle of an import, or in Open before the log *)
(* is replayed                                                               *)
ExecClose ==
  /\ Close
  /\ status' = IF status = "running" THEN "failed" ELSE status
  /\ opening' = FALSE
  /\ UNCHANGED <<todo, next, base, reached, log, rest>>

(* A torn record is truncated; a whole one is the block of the log, and to   *)
(* find it comes to the same as to replay it                                 *)
ExecOpen ==
  /\ Open
  /\ rest # "buried" /\ rest' = "none"
  /\ opening' = (log # NoLog)
  /\ UNCHANGED <<importVars, log>>

(* Open returns an error *)
OpenFails == ~up /\ UNCHANGED execVars

(* Open appends and applies the block of the log. If it is a batch of the    *)
(* import that failed, the import has got further; if it is of a commit that *)
(* failed before the import, the import is started again on another state.   *)
Replay ==
  /\ opening /\ opening' = FALSE
  /\ Commit(log.list)
  /\ log' = NoLog
  /\ \/ /\ status = "failed" /\ log.at >= 0
        /\ Reaches(BatchEnd(log.at))
        /\ UNCHANGED <<status, todo, next, base>>
     \/ /\ status = "failed" /\ log.at < 0
        /\ base' = state' /\ reached' = 0
        /\ UNCHANGED <<status, todo, next>>
     \/ status # "failed" /\ NoImport
  /\ UNCHANGED rest

ExecInit ==
  /\ Init
  /\ status = "none" /\ todo = <<>> /\ next = 0 /\ base = EmptyState
  /\ reached = 0
  /\ log = NoLog /\ rest = "none" /\ opening = FALSE

ExecNext ==
  \/ ExecOpen \/ OpenFails \/ Replay \/ ExecClose
  \/ \E bundle \in Bundles : CommitExecution(bundle) \/ JsonRefused(bundle)
  \/ \E call \in Helpers : PutHelper(call) \/ JsonRefused({call[i] : i \in DOMAIN call})
  \/ \E list \in Imports : StartImport(list)
  \/ ImportBatch \/ ImportFails \/ ImportEnds \/ RetryImport

ExecSpec == ExecInit /\ [][ExecNext]_execVars
-------------------------------------------------------------------------------
(* Properties *)

(* No two entries of the bundle are for the same key, and none is for the    *)
(* empty one                                                                 *)
Unambiguous(bundle) ==
  \A x, y \in bundle : EntryKey(x) # NoKey /\ (EntryKey(x) = EntryKey(y) => x = y)

(* A bundle with one entry for a key decides the block: whatever order the   *)
(* maps are visited in, CommitExecution commits the same operations, and     *)
(* executing the bundle once more changes nothing.                           *)
BundleDecides ==
  up /\ status = "none" => \A bundle \in Bundles : Unambiguous(bundle) =>
          \A l, m \in Lists(bundle) :
            /\ Filtered(state, l) = Filtered(state, m)
            /\ DOMAIN Filtered(Apply(state, l), m) = {}

(* An import that has not ended shows no half of a batch: every key holds    *)
(* what some number of whole batches makes of it, whichever batch failed,    *)
(* however Commit failed, however often the import was started again and     *)
(* whichever of its batches Open replayed meanwhile. A commit that failed    *)
(* before the import and that Open replays shows, but whole too, and with no *)
(* batch beside it.                                                          *)
WholeBatches ==
  up /\ status \in {"running", "failed"} =>
    \A k \in Key : \E n \in 0..reached :
      /\ n % Step = 0 \/ n = Len(todo)
      /\ state[k] = Apply(base, SubSeq(todo, 1, n))[k]

(* CommitOperations can be run again after an error: an import that ends     *)
(* leaves what committing its list at once would have left, on the state it  *)
(* was first started on or, if Open has replayed a commit that failed before *)
(* the import, on what that made of it. So it stays until another commit,    *)
(* such a replay included.                                                   *)
RetryConverges == up /\ status = "done" => state = Apply(base, todo)
===============================================================================
