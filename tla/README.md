# AGIDB On-Chain: TLA+ specification, model checking and proofs

AGIDB On-Chain is an append-only, authenticated key-value database written in
Go. This directory specifies its core in TLA+, model-checks it with TLC and
proves theorems about it with TLAPS. `PROJECT.json` maps every definition to the
source lines it models.

## 1. The system

| Component | Source (`src/engine/internal/`) | State | Operations |
|---|---|---|---|
| Engine | `engine/engine.go` | `blocks`, `state`, `versions`, `txCount`, `opCount`, one RWMutex | `Open`, `Commit`, `Get`, `GetAt`, `Block`, `Status`, `Verify`, `Snapshot`, `StateProof`, `Close`; wrappers `PutContract`, `PutAccount`, ..., `CommitOperations`, `CommitExecution` |
| Storage | `storage/files.go` | segment files, `wal/commit.wal`, `meta/LOCK`, the active file and its size, the index | `Open` (lock, `recoverSegments`, `openActive`), `AppendBlock`, `rotate`, `WriteWAL`, `ReadWAL`, `ClearWAL`, `ReadAll`, `Close`, snapshots |
| Merkle | `merkle/merkle.go` | none | `Root`, `PrefixRoot`, `StateProof`, `VerifyProof` |
| Enterprise | `enterprise/enterprise.go` | the directory as a whole | `Compact`, `Backup`, `RestoreBackup`, `BootstrapReplica`, `PruneFiles`, `InitCluster`, `ElectLeader`, `Unlock` |
| Server | `server/server.go` | none of its own | `/v1/tx`, `/v1/state`, `/v1/block`, `/v1/status`, `/v1/verify` |
| CLI, SDK | `cli/cli.go`, `npm/src/index.ts` | none | shell and TypeScript access to the above |

Interaction. A commit filters its operations against the state map, builds a
block with nine roots and a record hash, writes the block to the log (temporary
file, sync, rename), appends it to the active segment (rotating first when it
does not fit), applies it to memory and removes the log. `Open` takes the LOCK
file, truncates each segment at the first frame it cannot read, indexes the
records by height, replays the chain with all checks, and then replays the log
if it is not the last block. All requests of a process go through the engine's
mutex; processes exclude each other by LOCK, which only a graceful `Close` or
`agidb unlock` removes.

What is hard here: a crash or an I/O error between any two of those steps and
in the middle of an append; failed commits whose log and bytes stay on disk; the same
bookkeeping done twice, in `Commit` and in `applyLoaded`; roots computed over
the whole list but checked against the surviving operations; reads in the past;
whole-directory operations that work beside the lock. The list, line by line,
is under `hazards` in `PROJECT.json`.

What makes the parts correct:

* Engine: the chain verifies and ends in the served state; `GetAt` is exact and
  history never changes; no operation of a block was a no-op; a restart changes
  no answer, and what was committed can be opened again.
* Storage: no served block is lost, replaced or reordered by a crash, an I/O
  error or a recovery; the served history only grows; a stopped database comes
  up again. Three kinds of fault break this, and section 3 names them.
* Merkle: proofs of present keys verify, nothing else does; a root determines
  what it was computed from. The last two hold for entries that are hashed
  unambiguously.
* Compaction: LOCK excludes; no rename, rollback, crash or replayed log loses an
  acknowledged block; what is left in `data` verifies. The last two need a
  compaction beside which nothing else works on the directory.
* Backup: what can be restored is the source as it was at one moment.
* Server: what a client was told stays true; a repeated request makes no second
  block of its own.
* Execution: a bundle determines its block; a failed import can be run again.
* Cluster and Retention: files appear whole under their names; no term has two
  leaders; prune keeps the newest files.

## 2. Modules

| Module | Models | Extends / uses |
|---|---|---|
| `Engine` | chain, state, versions, counters; `Commit`, `Open`, `Close`, reads; `Commit`'s loop written out as a reference | |
| `MCEngine` | instances of `Engine` | `Engine` |
| `EngineProofs` | theorems about `Engine` | `Engine` |
| `Execution` | the callers that build `Commit`'s lists: bundles, Put helpers, imports | `Engine` |
| `Server` | HTTP handlers, clients, late and repeated requests, restarts | `Engine` |
| `CallersProofs` | theorems about `Server` and `Execution` | both, and `EngineProofs` |
| `Ledger` | abstract promise: one chain that grows by one linked block | |
| `Storage` | log, segments, lock, crash, errors of writes and reads, recovery | instantiates `Ledger` |
| `StorageProofs` | theorems about `Storage`, the refinement of `Ledger` included | `Storage` |
| `Merkle` | trees, proofs, verification | |
| `MerkleProofs` | theorems about `Merkle` | `Merkle` |
| `Compaction` | several processes, LOCK, log, rotation, `Compact`, `Unlock` | |
| `CompactionProofs` | theorems about `Compaction` | `Compaction` |
| `Backup` | the copy of a live directory, restore, replicas | |
| `Cluster` | the cluster file, `atomicWrite` by several processes | |
| `Retention` | snapshot and backup files, `PruneFiles` | |
| `BackupProofs`, `ClusterProofs`, `RetentionProofs` | theorems | the module of that name |
| `MCExecution`, `MCServer`, `MCStorage`, `MCMerkle`, `MCCompaction`, `MCCluster`, `MCRetention` | instances | the module of that name |

Definitions named `...Stale`, `...Late`, `...FromZero` and the like, each marked
"Mutant", are faulty variants of the definition after them. No specification
uses them; they show that the properties notice the fault.

### Engine

`Commit` runs under the write lock, so it is one step here; its disk steps are
the subject of `Storage`. `stored` is what the segments hold, as gob decodes it;
`blocks`, `state`, `versions`, `txCount` and `opCount` are the fields of
`Engine`. A batch is the concatenation of its transactions' operations, each
tagged with its transaction (0: no ID). Three points deserve a word.

* *Roots and hashes are values.* `StateRoot(s)` is the map itself,
  `HashBlock(b)` the block without its hash. Equality of roots is then equality
  of what is hashed. `RootsStandForMaps` in `MerkleProofs` proves that the trees
  justify this, over any set of keys, given a hash without collisions: equal maps
  always have equal roots, and unequal ones unequal roots if their entries are
  plain (see Merkle). Engine's properties lean on the first half only, but for
  the refusal of a chain whose roots do not fit.
* *nil and empty slices differ* where the code tells them apart: in the JSON
  that is hashed, not in the state map, and not after gob (`GobDecoded`).
* *Suppression has a closed form.* What an operation finds is what the last
  earlier operation on its key left (`Current`); dropped operations leave gaps
  in the position set (`Filtered`). `LoopStates` is the loop as written.
  `SuppressionMatchesLoop` compares the two on every list in every state the run
  reaches; `LoopIsModelled` proves that they agree on every list.

`Legacy` holds chains of schemas 2 and 3, which have fewer roots; `Open` accepts
them and new blocks continue them.

### Storage and Ledger

A segment is a sequence of cells. A cell is a whole record, a lone 16-byte
header, or a record torn anywhere else; the distinction is the one `readFrame`
makes (an end of file right behind the header is reported as `io.EOF`, which
recovery takes for the end of the segment). `CrashLeft` says what a crash in the
middle of an append may leave, `FailLeft` what an append that returned an error
may leave while the process runs on: "rec" is a complete record whose `Sync`
failed.

`pc` follows the process: `down`, `locked`, `loaded`, `replayed`, `ready`,
`logged`, `applied`. Each step of `Open` and `Commit` is an action; `Crash` is
possible at every point. Errors that change what is on disk or in memory are
actions or disjuncts of their own: of the log (`WriteWALFails`), of rotation, write
and sync (`RotateFails`, `WriteFails`, `ReplayAppendFails`), of the removal of the log,
and of a read of recovery. That last one, `ReadFails`, is no refusal: `readFrame`
passes the error on, `recoverSegments` truncates the file at that frame as if it
were damaged, and `Open` continues without the blocks behind it. The other errors
of `Open` (a file that cannot be opened, a read of `ReadAll` or `ReadWAL`) return with
LOCK in place and no memory, which is what `Crash` leaves as well. `LoadSegments` is
one action although it truncates file by file, since truncation is idempotent
and a crash within it is a crash before it for the files not yet reached.

Three faults are *harmful*: recovery cannot cope with them, whatever it does.
They are an append that left part of its record in a process that runs on, a
crash right behind a frame header, and a read error during recovery. The history
variable `sound` says that none has happened yet. `ServedDurable`, `ImplementsLedger`
and `Recovers` speak of the time until then; `LogAnchored` of all times. `Durability`
is the promise without the condition, and each of the three faults alone
violates it (section 3).

`served` is a history variable: the chain as last held by a process that
answers requests. It includes every acknowledged block, and the one whose
`ClearWAL` failed. `Ledger` says that it only grows, by one linked block at a
time; the refinement mapping is `chain <- served`. When a failed commit's record
is found by a later `Open`, the block is served then: a `Ledger` step, not a
violation. Reported errors are not promises that a block is absent.

### Merkle

SHA-256 is a free constructor over byte strings: `Hash`, one for leaves and nodes.
What is hashed for an entry is the string key, NUL, value, for a node its two
hashes, 64 bytes. `EntryBytes` gives an entry's string with its length; the
assumption on it says what concatenation gives, that keys *without* a NUL can be
read off the string. So two entries may have one leaf (`"a"`: `"b\0c"` and
`"a\0b"`: `"c"`), and an entry of 64 bytes may be hashed like a node; `Commit`
refuses neither (engine.go:111 refuses the empty key only), and `MCMerkle` has one
of each. *Plain* entries are the others. `ProofsVerify` holds for all entries;
`ProofsBind` and `RootDeterminesState` are stated for maps of plain entries and
false without that condition. `VerifyProof` does not look at the length of the
path's hashes; the model takes them for 32 bytes each, as `StateProof` makes them.

A key is a number, its place in the order of
strings. The three loops of the source are recursive functions of the number of
rounds: `Levels` (the hashes of a round, an odd last one paired with itself),
`Positions` (`pos` in `StateProof`) and `HashUp` (`cur` in `VerifyProof`). `Height`
is the round in which `len(level) > 1` fails; beyond it `Levels` is of no
interest. `SortedKeys` says what `sort.Strings` leaves, the key at position `i`
having `i - 1` before it, and `Before` what `sort.SearchStrings` returns; whether
the search has found the key is decided as in the code, by looking at that
position. A namespace is a range of keys, as the strings with one prefix are.

### Execution

A bundle is the set of the entries of its maps. Go visits a map in random order
and `sort.Slice` is not stable, so `Lists(bundle)` is every arrangement of the
entries with ascending keys, and `CommitExecution` commits any one of them.
`CommitExecution` folds the addresses of accounts and contract code to lower
case, of the helpers only `PutAccount` does (`EntryKey`, `HelperKey`): code that
`PutContract` stores under a mixed-case address is not the code a bundle of that
address replaces. Two entries that fold to one key are applied in either order;
`BundleDecides` therefore speaks of bundles without them. It leaves out bundles
with an entry for the empty key, which `Commit` refuses.

`CommitOperations` commits batch by batch, skips a batch that changes nothing,
and returns at the first error. A caller starts again from the beginning of the
list.

A `Commit` under any of these callers may fail, and has three outcomes then
(`CommitFails`, `Commits`): nothing happened; the block is committed and only the log
could not be removed; or the append failed and the log stays, with nothing, a part
or all of the record in the segment (`rest`). In the last case the next `Open`
applies the block after all (`Replay`): a batch of the import itself, which has then
got further than it was told, or a commit from before the import, which is then
what the import is continued on (`base` follows). `log.at` says which of the two a log
is. When another commit is written behind leftover bytes (`rest` is "buried"),
what `Open` will find is the subject of `Storage`, and the process stays down here.

### Server

Handlers run concurrently and meet at the engine's mutex, so a handler is the
one step its engine call takes. A client posts a list, waits, gives up, posts it
again; the request it gave up on stays under way and is carried out late, or
lost. `answers` records what clients were told (a 400 whose text is
ErrNoStateChange is an answer too: what you want is there), `author` which
request made which block (the blocks of a legacy chain stem from no request).
`StatusNamesBlock` compares all roots with the last block if that is of schema
4; older blocks have only some of them. The SDK posts `{operations}` and the
server reads `ops` (`Decoded`): what `AgidbClient.commit` sends is an empty list
and always answered with "state unchanged".

A commit that fails with its log left is answered with 400 (`TxRefused`); that the
next start may make a block of it is modelled in `Storage` and `Execution`, not here.

A late copy of an earlier request can undo the same client's newer write, since
nonces are not compared. `DuplicateSuppressed` names that case as the only one
in which a request makes a second block (lists that write one key twice apart).

### Compaction

Each command of the CLI opens the engine, works and closes it; `Compact` also
goes on without LOCK after its `Close`. A directory is the index its segments
give, or absent. `wal` is the log: `WriteWAL` and `Commit` are two steps, a crash in
between leaves the log, and the next `Open` appends its block to whatever `data` then
holds before it checks it (`ReplayApplies`, `ReplayRejected`). A process keeps appending
to the segment file it has opened, wherever its directory is renamed to (`home`), but
any append may be the one that rotates, and `rotate` opens the next file by path, in
the directory that is called `data` by then (`Places`); if there is none the file
stays closed. `LockRefused` matters: `storage.Open` creates `data` before it looks at
LOCK, and Go's `os.Rename` moves no directory onto an existing one, so that even a
refused start can make the second rename and its rollback fail.

Three history variables say what happened: `calm` that no process was started
after a compaction's `Close`, none died between its renames, and no rollback
failed; `single` that no two compactions were past their `Close` at a time; `clear`
that every first rename found neither LOCK nor a log.

* Without `calm`, acknowledged blocks are lost (`compaction_swap`).
* Without `single`, one compaction may append to the scratch directory of the
  other after it was checked, and a mixture of two chains is moved in.
* Without `clear`, one compaction is enough: a log that continues
  the old directory is replayed onto the new one, or a process that was open during
  the swap rotates into it, and the chain has a gap.

### Backup

`filepath.Walk` visits `data` before `wal`, and the copies are separate steps
(`CopyData`, `ListWal`, `CopyWal`). The source is `disk`, the index recovery would find,
`mem` and the log; an append that fails leaves nothing, its whole record or a part of
it (`torn`), and what is written behind a part may be lost to recovery. Four things
can go wrong, and each is named in a property's condition: a commit that begins
between the copies makes an archive whose log does not continue its segments, and
Open rejects it (`still`); a record that a failed append has left, with the log of
the next commit beside it, are two blocks of one height, and Open rejects the
second (`spoiled`); a log that was listed may be gone, and the backup fails; the log
of an append that failed is replayed by the replica while the source makes another
block of that height (`forked`). A restore into an existing empty directory fails
although the message says "must be empty or absent".

### Cluster and Retention

Both follow `atomicWrite` step by step: create or truncate `path.tmp`, write, sync
and close, rename. In `Cluster` several processes use one temporary name; an open
file follows its inode, so a process may write into the file another one has
just renamed. Processes that overlap (`apart` is false) can give one term two
leaders, or leave a blank or mixed file. `InitCluster` may be called again and
resets the term, hence the number of the call in a configuration.

`Retention` has any number of writers of both directories beside `PruneFiles`. No
writer takes a lock: two backups of one second or one `--out`, two snapshots of one
height, use one temporary file. As in `Cluster` an open file follows its inode, so one
writer may empty what the other has written, rename it before it is filled, or write
into the renamed file. `shared` holds the names for which two writers were at work at
a time; of those `FinalWhole` says nothing, and without the exception it is false.

`PruneFiles` lists, calls `Info` on every entry (an entry that is gone makes it panic),
sorts, checks the limit only then, and removes by name, ignoring errors. Temporary
files left by a writer that died count as files: with a limit of 1 prune may keep one
of those and remove the only usable backup. `RetainsNewest` counts as prune does.

## 3. Runs

| Run | Shows |
|---|---|
| `engine_chain` | `TypeOK`, `ChainVerifies`, `TimeTravel`, `NoOpFree`, `RestartTransparent`, `Reopenable`, `SuppressionMatchesLoop`, `HistoryImmutable` hold |
| `engine_empty` | `Reopenable` is violated once a client stores an empty value (finding) |
| `execution_bundles` | `BundleDecides`, `WholeBatches`, `RetryConverges` hold |
| `storage_faults` | `TypeOK`, `ServedDurable`, `LogAnchored`, `ImplementsLedger` hold under four faults of any kind (while `sound`, but for the log), and `Recovers` under fairness |
| `storage_header` | `Durability` is violated when a crash may leave a lone header (finding) |
| `merkle_proofs` | `ProofsVerify` holds; `ProofsBind`, `RootDeterminesState` hold for plain entries |
| `compaction_shared` | `TypeOK`, `Exclusive`, `AlwaysVerifies` (while `single` and `clear`), `HistoryInPlace` (while `calm`) hold |
| `compaction_swap` | `HistoryOnDisk` is violated by a process that commits before the swap (finding) |
| `backup_live` | `TypeOK`, `ReplicaOfSource` (unless `forked`), `RestoreOpens` (if `still` and not `spoiled`) hold |
| `server_clients` | `AnswerStands`, `DuplicateSuppressed`, `StatusNamesBlock` hold |
| `cluster_files` | `TypeOK`, `ConfigReadable`, `ElectionsHold` hold while `apart` |
| `retention_prune` | `FinalWhole` (names that are not `shared`), `RetainsNewest` hold |

`storage_faults` answers "under which faults is the protocol right?". All faults
happen in it: appends that fail cleanly, completely or half way, crashes that leave
nothing, a complete record, a lone header or a tear anywhere else, read errors.
What breaks the protocol:

* a crash right behind the header (`storage_header`): recovery takes it for a clean
  end, and a later one truncates what was written behind it;
* a failed write that leaves part of a record: the process runs on, the next block
  is committed behind the rest, and the next recovery truncates both;
* a read error during recovery: an intact block is truncated;
* a block too big for a segment: it is refused after it was logged, and every
  later Open fails on that log. `Recovers` excludes such a log; without the
  exclusion TLC finds the database that never comes up again.

With `CrashLeft` without "hdr", and "torn" in `FailLeft` for the second or `ReadErrors`
for the third, `Storage_header.cfg` shows `Durability` violated in the same way.

The properties with a condition were also checked without it; each is violated
then, in the way section 2 describes.

### Bounds

* `engine_chain`: two keys in different namespaces, lists of up to two
  operations in one or two transactions, three blocks, after an empty or a
  legacy chain. Interactions of operations are per key, and two on one key, or
  one on each of two keys, show all of them; three blocks separate first, middle
  and last. The comparison with the loop takes the lists that are submitted.
* `execution_bundles`: bundles for three different keys, for two addresses that fold
  to one, for one key and for the empty one; imports of three operations in batches of
  two, so that a batch is full and one is short; before them helpers and bundles, which
  commit or fail with their log left (`MaxOthers`); three blocks, so that one from
  before and both batches fit, replayed or not.
* `storage_faults`: frames of 2 and 3 in segments of 4, so that one or two
  blocks fill a segment and rotation is frequent; a frame of 5 fits nowhere.
  Three blocks cross two or three segments. Four faults allow a failed append, a
  crash of its successor, a failure during the replay and one more. The
  violation needs two.
* `merkle_proofs`: five keys give trees of 0 to 5 leaves, with odd lengths at the
  first, the second and both levels; two values tell forged entries from true
  ones; one pair of entries shares its string, one entry has the string of a node.
* `compaction_shared`: three blocks are the fewest with which two compactions can
  mix two chains (`CheckFails`), and enough for one that is there before the swap and one
  that is logged, replayed or rotated around it; one fault, since the theorems of
  section 4 have no bound.
  `compaction_swap` needs one process and one compaction.
* `backup_live`: five blocks and three faults of the source, any number of
  backups.
* `server_clients`: two writers and a client of the SDK, three requests, two
  attempts at each, three blocks: a request, another one in between, and the
  late copy of the first.
* `cluster_files`: two processes, two nodes, two initialisations, terms up to 3,
  two faults. The run may end because the terms are used up.
* `retention_prune`: two writers, two names in each directory, four writing steps,
  limits -1 and 1: a file that stays, one that goes, a temporary one, and a name that
  both writers use.

### Fairness

`FairSpec` of `Storage` has weak fairness of the steps of `Open` and `Commit` (a
running process is scheduled; no call in them blocks forever) and of `Unlock` (the
operator follows the message of the lock error). Committing, closing and
crashing are never forced, and faults are bounded by `MaxFaults`: the claim is
that the database comes up once the faults stop. The other specifications state
no fairness and have safety properties only.

## 4. Proofs

No theorem bounds the number of keys, blocks, processes, requests or faults: the
bounds in the guards are constants that may be any number. The inductive
invariants below were checked with TLC too, on the instances of the components'
runs.

| Component | Properties proved | Hypotheses beside the named assumptions |
|---|---|---|
| Engine | all of `engine_chain`'s | `Reopenable` only: no empty value, accepted legacy chains |
| Storage | `TypeOK`, `ServedDurable`, `LogAnchored`, `ImplementsLedger` | none |
| Compaction | `TypeOK`, `Exclusive`, `AlwaysVerifies`, `HistoryInPlace` | none |
| Merkle | `ProofsVerify`, `ProofsBind`, `RootDeterminesState` | none |
| Execution | `BundleDecides`, `WholeBatches`, `RetryConverges` | none |
| Server | `AnswerStands`, `DuplicateSuppressed`, `StatusNamesBlock`; implements `Engine` | none |
| Backup | `TypeOK`, `ReplicaOfSource`, `RestoreOpens` | none |
| Cluster | `TypeOK`, `ConfigReadable`, `ElectionsHold` | none |
| Retention | `FinalWhole`, `RetainsNewest` | none |

The history conditions (`sound`, `single`, `clear`, `calm`, `forked`, `still`, `spoiled`,
`apart`, `shared`) and the restriction to plain entries are part of the properties, as
in the runs.

### Engine

`EngineProofs`, for every set of keys and values, all batches, all legacy
chains and every `MaxHeight`, from the assumptions named in `Engine` (the
special values are distinct, the namespaces are sets of keys, batches are lists
of operations, legacy chains are well-typed and of a schema below 4).

* `ReplayOfSurvivors`: `Apply(s, Filtered(s, ops)) = Apply(s, ops)`. The header's
  roots are computed from the right-hand side, `e.state` and every reload from
  the left. The lemma `SuppressionPrefix` generalises it to every prefix of the
  list; its proof takes the least prefix at which the two sides differ: the
  operation there is kept, and both sides are its effect, or it was dropped
  because its effect is what both sides had before.
* `ChainInvariant`: `ChainInv`, the conjunction of the type invariant, of
  `Accepts(blocks)` and of `state` being the last state root, is inductive.
  Without the types the step would fail, since a root is only known to be the
  state it was computed from when that state is a map on the keys. `CommitBlock`
  collects what a commit does; `AppendAccepts` shows that a verifying chain
  still verifies with the new block.
* `TypeCorrect` and `ChainAlwaysVerifies` follow.
* `GetAtIsExact` (`TimeTravel`) and `PastIsImmutable` (`HistoryImmutable`) rest on
  `AnswerExact`, a fact about every accepted chain, whoever wrote it: the newest
  version of a key at height `h` is the value under that key in the state root of
  block `h`. Its proof takes the least height at which the two differ.
  `ExactAnywhere` adds the heights beyond the end.
* `BookInvariant`: relative to `ChainInv`, `BookInv` is inductive. It says that the
  version lists and counters are those of `blocks`, that neither `blocks` nor
  `stored` holds a no-op, and that a running engine's two chains are the `Same`:
  equal but for the nil that gob puts in the place of an empty value. `Same` is
  needed because the segments hold decoded blocks and memory the ones that were
  encoded. The step for `stored` is what makes `NoOpFree` survive `Open`.
* `NoOpsSuppressed` (`NoOpFree`) and `RestartsAreTransparent`
  (`RestartTransparent`) follow.
* `StoredReopens` (`Reopenable`) has two more hypotheses: no operation carries an
  empty non-nil value, and the legacy chains are accepted. Then decoding gives
  back the very block that was sealed (`DecodedIdentical`), and `stored = blocks`
  while the engine runs. The run `engine_empty` shows the first cannot be dropped.
* `LoopIsModelled`: the states of Commit's loop, defined by recursion over the
  positions, are the ones `Outcome` and `Suppressed` describe. `TurnDescribed` is
  one turn of the loop; the description thus solves the loop's equation, and
  `LoopDescribed` shows at the least position where they might differ that there
  is no other solution. `SuppressionIsTheLoops` (`SuppressionMatchesLoop`) follows
  from it and `TypeOK`.

`AnySpec` is the engine with any caller: `AnyChain` and `AnyBook` prove the
invariants for it, and `Spec`, whose lists are those of `Batch`, implements it.

Least elements and maxima come from the well-foundedness of `<` on the naturals
(`LeastNat`, `GreatestNat`). They also replace induction over lists, here and
below.

### Storage

`StorageProofs`, for every segment size, all frame sizes, all residues of appends and
any number of blocks, crashes and I/O errors, harmful ones included.

`IInv == Base /\ (sound => Good)`: a harmful fault ends the second half for good, and
`Base` goes on.

`Base` has four parts.

* `Typed`.
* `Identified`: an id names one block, in the segments, the log, the memory and the
  pending commit. It tells a record that was written twice from one that was
  replaced.
* `LogAnchored`: a replay can only extend the chain. It survives a read error too:
  what is served afterwards is shorter, and a log that does not continue it is not
  applied.
* `Held`: what the process holds, by where it is.

`Good` has three.

* `Recoverable`: a torn record is the last of its segment, and there is none once
  `Open` has recovered the segments. So recovery cuts off no whole record.
* `OnDisk`: of each height of the served chain the last record is the served
  block, and every other record is of such a height or continues the chain. A
  failed commit leaves records of the second kind, and several of them may have
  one height.
* `Loaded`: what `Open` has loaded is the served chain or one block more.

`ServedIsDurable`, `LogStaysAnchored` and `StorageTypeCorrect` follow (the size of
the active segment needs a step of its own). `StorageImplementsLedger` shows that
the initial states map to initial states and every step that leaves `sound` true to a
step of `Ledger` or a stutter: the chain changes where a commit is applied, and where
an `Open` finds the record of a commit that was reported as failed.

### Compaction

`CompactionProofs`, for every set of processes and compactions and all bounds,
from `NoDirIsNoIndex` and `RolesAreApart`. `IInv` is inductive and has four parts.

* `Base`: the types, with no directory, log or memory holding a block higher than the
  number of blocks built (so `CompactionTypeCorrect`); an open segment file is in a
  directory that is there (`Attached`); and whoever is between `TakeLock` and `Close`
  finds LOCK in place and is alone, and a log that it has written continues its chain
  (`Guarded`). `Exclusive` by itself is not inductive: a `Close` removes LOCK whoever
  wrote it, and only `Guarded` says that nobody else is inside then. `Exclusion`
  follows.
* `Steady`, while `calm` or `single` and `clear`: `data` and `data.precompact` are linked
  chains; the log is the top of the chain in `data` or may become it (`Fits`); and an
  open process works on `data` and holds its chain, but for one block that a failed
  append may have left on top (`InStep`). This is why a commit, a rotation or a replay
  extends the chain it lands in. `DataVerifies` (`AlwaysVerifies`) follows.
* `Unmixed`, while `single` and `clear`: at most one compaction is past its `Close`, what
  it has checked stays linked until it is moved in, and between the renames there is
  no log that could be replayed onto an empty directory.
* `Undisturbed`, while `calm`: nobody is inside when a compaction is past its `Close`,
  and what it has copied and rebuilt is what is in place; every served block is in
  `data`, or in `data.precompact` between the renames; and the log holds no other block
  of a height that was served. `HistoryKept` (`HistoryInPlace`) follows.

### Merkle

`MerkleProofs`, for any finite set of keys, so for trees of any size, and any
values. The properties speak of what is computed from the state; the only
invariant they need is its type.

* A recursive function is the solution of its equation only if there is one.
  `LevelsAre`, `PositionsAre` and `HashUpIs` show that there is, for each of the
  three loops: a solution up to one round extends to the next, so no round is the
  least without one. `LevelsShrink` shows that a level of more than one hash gets
  shorter, hence `HeightIs`: the loop ends within as many rounds as there are leaves.
* `LeavesAre`: no two keys have equally many before them, and there are as many
  positions as keys, so every position has one key (`BeforeIs`). `StateProofIs`
  concludes that the search finds a key exactly when it is in the map.
* `ProofsAlwaysVerify`: `SiblingClimbs` shows for each case of `pos` (even with a
  neighbour, even and last, odd) that hashing with the sibling gives the hash at
  `pos \div 2` one level up; `PathVerifies` follows the path to the root.
* `VerifiedEntriesAreHeld`: from the root down, every hash on a path that verifies
  is in the tree, at the same distance from the root (`RootBindsLeaves`). Path and
  tree end together because the string of a plain entry is not a node's, which is
  where that condition is needed; that the string names its entry is the other
  place. Nothing else is assumed of the path, so this is stronger than `ProofsAlwaysBind`, where it comes from some map's proof.
* `RootsDetermineState`, for plain entries: the leaves are distinct, since their keys are, and so are
  the hashes of every level (`LevelsDistinct`). A level of distinct hashes can be
  read off the next one (`NextLevelInjective`): the only doubt is whether the last
  pair is an odd one out, and then its halves are equal. Two trees with one root are
  therefore equal level by level, and end together. Distinctness is needed: a list
  of leaves that repeats its odd last one has the same root.
* `RootsStandForMaps` adds the converse, which needs no condition, over any set of keys.

### Execution

`CallersProofs`, for all bundles, helper calls and imports of operations, every
batch size and any order of strings (`Rank`).

* `CallersImplementEngine`: whatever the callers do, the engine does a step of
  `AnySpec`. So the engine's invariants hold under them.
* `BundlesDecide`: an arrangement of a finite bundle holds every entry
  (`ArrangedAll`); at the least position where two sorted ones differ, each has
  the other's entry further on, so that the two keys are equal, and so are the
  entries (`OneArrangement`). A list of operations for different keys, run twice,
  is suppressed the second time (`RunsOnce`).
* `ImportInvariant`: `WholeBatches` is not inductive, since a crash empties the
  memory it speaks of and since a retry runs early batches over a state that later
  ones have been at already. `ImportInv` speaks of the state in the segments, and
  says of every key that it holds the outcome of a whole number of batches,
  between the one this attempt has come to and the furthest any attempt came to.
  `LogInv` says what a log that is left would do: it is a batch of this import, at a
  place it had come to when nothing further was committed, so that replaying it is
  the batch (`ReplayStep`); or it is from before the import, and then the import has
  committed nothing, so that the replay moves `base`. `SliceOutcome` and `Untouched` say
  what a batch does to a key it touches and to one it does not. At the end of the
  list the two numbers meet: `RetriesConverge`. `BatchesAreWhole` follows at once.

### Server

`CallersProofs`, for any clients, requests, attempts and restarts.

* `ServerImplementsEngine`: every step of a handler is a step of `Engine` or leaves
  its variables alone, so that all of Engine's theorems hold of the server.
  `StatusConsistent` rests on `ChainInv` alone.
* `ServerInvariant`: `NetInv`, inductive relative to Engine's invariants. A number
  names one request of its client (`Numbered`); the block of a request left what
  the request asks for (`Carried`), and so did the block an answer names (`Told`);
  no two blocks of one request stand in the segments or in memory without a write
  to one of its keys in between (`DupFree`). The segments are covered as well as
  the memory because a restart may come before the repetition.
* `AnswersStand` and `DuplicatesSuppressed` follow, the first with `GetAt`'s
  exactness.

### Backup, Cluster, Retention

* `BackupInvariant`: `SourceInv` says, unless a failed append has left something, that
  the source's segments hold what it has in memory and how its log joins its chain at
  each step of a commit; `ArchiveInv`, by how far the backup has come, that the log the
  source has now still joins the copied chain (if none was written since, and nothing
  was left behind) and that the copy is part of the source's history (unless an
  append failed). `ReplicaIsOfSource`, `RestoresOpen` and `BackupTypeCorrect` follow; the
  types need a bound on heights that holds of spoiled segments too (`Shelf`).
* `ClusterInvariant`: while `apart`, one process is at work, the file it has open is
  the temporary one, what it renames is what it meant to write, and that begins a
  new initialisation or is of the next term. `ConfigStaysReadable` and
  `ElectionsStand` follow; `ClusterTypeCorrect` holds for overlapping processes
  too.
* `RetentionInvariant`: a directory is a finite set of files with a name and an inode
  each (`Filed`); a writer that has its name to itself has the temporary file open, and
  what it renames is what it has written (`AtWork`, `Sole`); and since a prune was
  started beside which nothing is written, every file that is gone or doomed has at
  least as many newer files beside it as the limit says (`Expendable`).
  `FinalFilesWhole` and `NewestRetained` follow.

### Only model-checked

* `Recovers`, the liveness of `Storage`: the prover has no rules for fairness.
* The three violations of section 3, which are counterexamples.

## 5. Not modelled, and plan

* Policy and migration report: files that are written with `atomicWrite` and that
  no operation reads; no limit of the policy is enforced in the code.
* `SimulateQuorum` (a comparison of two arguments), `QueryLogs`, `VerifySnapshot`,
  `VerifyBackup`, `ValidateFieldValue`, metrics: they change no state and read
  nothing that another step may be changing.
* Encryption of backups, compression and CRC: an archive or a frame is readable
  exactly when it is complete.
* Argument parsing, wording and layout, timestamps and random IDs.
* A power failure that takes back a rename or a removal whose directory was not
  synced: which entries return depends on the file system.

Every safety property of the passing runs is proved. What could be added: the
file system that forgets a rename, as a fault of `Storage`.
