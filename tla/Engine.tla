-------------------------------- MODULE Engine --------------------------------
(*****************************************************************************)
(* The in-memory engine of engine/internal/engine/engine.go: the chain of    *)
(* blocks, the current state, the version lists behind GetAt and the         *)
(* counters; Commit with its no-op suppression; and Open, which rebuilds     *)
(* all of it from the blocks the segments hold.                              *)
(*                                                                           *)
(* Abstractions.                                                             *)
(*  - A Merkle root or a hash is the value it is computed from: two roots    *)
(*    are equal exactly when the hashed values are (no collisions).          *)
(*  - The list of transactions handed to Commit is the list of their         *)
(*    operations in order, each tagged with the number of its transaction    *)
(*    (0: a transaction without an ID).                                      *)
(*  - A list from which the code drops elements keeps their positions: it    *)
(*    is a function from the set of surviving positions, read in order.      *)
(*  - The engine's RWMutex makes Commit one step for every reader; the disk  *)
(*    steps inside Commit and their failures are the subject of Storage.     *)
(*  - Timestamps, random IDs, senders, nonces and payloads are left out.     *)
(*****************************************************************************)
EXTENDS Naturals, Sequences, FiniteSetsExt

CONSTANTS
  Key,          \* the keys clients use
  NoKey,        \* the empty key, which Commit refuses
  Bytes,        \* the non-empty byte strings clients store
  Nil, Empty,   \* the two Go slices of length 0: nil, and non-nil
  Absent,       \* "no such key in the state map"
  NoHash,       \* the empty hash string
  Prefix,       \* Prefix[p]: the keys with namespace prefix p
  Batch,        \* the transaction lists that may be handed to Commit
  Legacy,       \* chains an earlier release may have left in the segments
  MaxHeight     \* bound: no Commit beyond this height

Namespace == {"contract/", "contract/code/", "contract-storage/", "account/",
              "log/", "zk/", "receipt/"}

(* model.Operation, with the number of the transaction it belongs to *)
Operation == [tx : Nat, key : Key \cup {NoKey},
              value : Bytes \cup {Nil, Empty}, delete : BOOLEAN]

ASSUME ConstantsAreDistinct ==
  /\ NoKey \notin Key
  /\ Absent \notin Bytes \cup {Nil, Empty}
  /\ Nil \notin Bytes /\ Empty \notin Bytes /\ Nil # Empty
ASSUME PrefixType == Prefix \in [Namespace -> SUBSET Key]
ASSUME BatchType == Batch \subseteq Seq(Operation)
ASSUME MaxHeightType == MaxHeight \in Nat

VARIABLES
  stored,    \* the blocks the segments hold, as gob decodes them
  up,        \* is a process running on the directory?
  blocks,    \* e.blocks
  state,     \* e.state
  versions,  \* e.versions
  txCount,   \* e.txCount
  opCount    \* e.opCount

vars == <<stored, up, blocks, state, versions, txCount, opCount>>
-------------------------------------------------------------------------------
(* Operations on the state map *)

(* Mutant: the slice of the operation is stored without being copied *)
ContentAliased(v) == v

(* The bytes of a slice: the state map and the version lists hold copies     *)
(* made with append([]byte{}, v...), and bytes.Equal does not tell nil from  *)
(* empty either.                                                             *)
Content(v) == IF v = Nil THEN Empty ELSE v

(* What the operation leaves under its key *)
Effect(op) == IF op.delete THEN Absent ELSE Content(op.value)

On(ops, k) == {i \in DOMAIN ops : ops[i].key = k}

(* What key k holds after the operations at the positions I have run on s *)
Outcome(s, ops, I, k) ==
  LET touching == On(ops, k) \cap I
  IN  IF touching = {} THEN s[k] ELSE Effect(ops[Max(touching)])

Apply(s, ops) == [k \in Key |-> Outcome(s, ops, DOMAIN ops, k)]

(* Mutant: operations are compared with the state before the batch *)
CurrentStale(s, ops, i) == s[ops[i].key]

(* The value operation i finds under its key, in the loop of Commit *)
Current(s, ops, i) == Outcome(s, ops, {j \in DOMAIN ops : j < i}, ops[i].key)

(* Mutant: a delete is never suppressed *)
SuppressedPut(s, ops, i) == ~ops[i].delete /\ Effect(ops[i]) = Current(s, ops, i)

(* No-op suppression: a delete of an absent key and a put of the value that  *)
(* is there already are dropped.                                             *)
Suppressed(s, ops, i) == Effect(ops[i]) = Current(s, ops, i)

(* Mutant: a list is kept whole if one of its operations changes something *)
FilteredWhole(s, ops) ==
  IF \A i \in DOMAIN ops : Suppressed(s, ops, i) THEN <<>> ELSE ops

Filtered(s, ops) == [i \in {j \in DOMAIN ops : ~Suppressed(s, ops, j)} |-> ops[i]]

(* The loop of Commit as it is written, to compare these definitions with:   *)
(* the state map nextState and the surviving positions after each operation  *)
LoopStates(s, ops) ==
  LET after[n \in 0..Len(ops)] ==
        IF n = 0 THEN [next |-> s, kept |-> {}]
        ELSE LET r  == after[n - 1]
                 op == ops[n]
             IN  IF op.delete
                 THEN IF r.next[op.key] = Absent THEN r
                      ELSE [next |-> [r.next EXCEPT ![op.key] = Absent], kept |-> r.kept \cup {n}]
                 ELSE IF r.next[op.key] = Content(op.value) THEN r
                      ELSE [next |-> [r.next EXCEPT ![op.key] = Content(op.value)],
                            kept |-> r.kept \cup {n}]
  IN  after

(* Apply and Filtered, which describe the loop by what the last operation on *)
(* each key leaves, give what the loop gives, and so does the replay of the  *)
(* surviving operations.                                                     *)
LoopAgrees(s, ops) ==
  LET r == LoopStates(s, ops)[Len(ops)]
  IN  /\ Apply(s, ops) = r.next
      /\ DOMAIN Filtered(s, ops) = r.kept
      /\ Apply(s, Filtered(s, ops)) = r.next

EmptyState == [k \in Key |-> Absent]
-------------------------------------------------------------------------------
(* Blocks *)

PrefixRoot(s, keys) == [k \in keys |-> s[k]]
StateRoot(s) == PrefixRoot(s, Key)
ContractAggregateRoot(s) ==
  PrefixRoot(s, Prefix["contract/"] \cup Prefix["contract-storage/"]
                  \cup Prefix["account/"])

(* The record hash covers everything but itself, JSON-encoded: there a nil   *)
(* value (null) differs from an empty one ("").                              *)
HashBlock(b) == [b EXCEPT !.hash = NoHash]

Sealed(b) == [b EXCEPT !.hash = HashBlock(b)]

(* gob omits a byte slice of length 0, so that it comes back as nil *)
GobDecoded(b) ==
  [b EXCEPT !.ops = [i \in DOMAIN b.ops |->
      [b.ops[i] EXCEPT !.value = IF @ = Empty THEN Nil ELSE @]]]

StateType == [Key -> Bytes \cup {Empty, Absent}]

(* The operations of a block, however many were dropped, have a last one. *)
BlockType(b) ==
  /\ b.stateRoot \in StateType
  /\ DOMAIN b.ops \subseteq Nat
  /\ \A i \in DOMAIN b.ops : b.ops[i] \in Operation
  /\ DOMAIN b.ops # {} =>
       \E last \in DOMAIN b.ops : \A i \in DOMAIN b.ops : i <= last

ChainType(chain) ==
  /\ chain \in Seq({chain[h] : h \in DOMAIN chain})
  /\ \A h \in DOMAIN chain : BlockType(chain[h])

(* Earlier releases wrote schemas below 4 *)
ASSUME LegacyType ==
  \A chain \in Legacy :
    ChainType(chain) /\ \A h \in DOMAIN chain : chain[h].schema \in 0..3

LastHash(chain) == IF chain = <<>> THEN NoHash ELSE chain[Len(chain)].hash

(* The block Commit builds from the surviving operations ops and the state s *)
(* it computed on the side                                                   *)
NewBlock(chain, ops, s) ==
  Sealed([height |-> Len(chain) + 1, prev |-> LastHash(chain), ops |-> ops,
          stateRoot |-> StateRoot(s),
          contractRoot |-> ContractAggregateRoot(s),
          accountRoot |-> PrefixRoot(s, Prefix["account/"]),
          codeRoot |-> PrefixRoot(s, Prefix["contract/code/"]),
          storageRoot |-> PrefixRoot(s, Prefix["contract-storage/"]),
          logRoot |-> PrefixRoot(s, Prefix["log/"]),
          zkRoot |-> PrefixRoot(s, Prefix["zk/"]),
          receiptRoot |-> PrefixRoot(s, Prefix["receipt/"]),
          schema |-> 4, hash |-> NoHash])

(* Mutant: the aggregate root of schema 4 is expected of older blocks too *)
RootsMatchNoSchema(b, s) ==
  /\ b.stateRoot = StateRoot(s)
  /\ b.schema >= 3 => b.contractRoot = ContractAggregateRoot(s)

(* The root checks of applyLoaded; blocks of schema 3 have fewer roots and   *)
(* an aggregate root over "contract/" alone, older ones only the state root. *)
RootsMatch(b, s) ==
  /\ b.stateRoot = StateRoot(s)
  /\ b.schema >= 3 =>
       /\ b.contractRoot = IF b.schema >= 4 THEN ContractAggregateRoot(s)
                                            ELSE PrefixRoot(s, Prefix["contract/"])
       /\ b.zkRoot = PrefixRoot(s, Prefix["zk/"])
       /\ b.receiptRoot = PrefixRoot(s, Prefix["receipt/"])
  /\ b.schema >= 4 =>
       /\ b.accountRoot = PrefixRoot(s, Prefix["account/"])
       /\ b.codeRoot = PrefixRoot(s, Prefix["contract/code/"])
       /\ b.storageRoot = PrefixRoot(s, Prefix["contract-storage/"])
       /\ b.logRoot = PrefixRoot(s, Prefix["log/"])

(* The state before block h is replayed; equal to the root of block h-1,     *)
(* since that block was accepted.                                            *)
StateBefore(chain, h) == IF h = 1 THEN EmptyState ELSE chain[h - 1].stateRoot

(* applyLoaded accepts block h of the chain after having accepted those      *)
(* before it.                                                                *)
ApplyLoaded(chain, h) ==
  /\ chain[h].height = h
  /\ chain[h].prev = IF h = 1 THEN NoHash ELSE chain[h - 1].hash
  /\ HashBlock(chain[h]) = chain[h].hash
  /\ RootsMatch(chain[h], Apply(StateBefore(chain, h), chain[h].ops))

Accepts(chain) == \A h \in DOMAIN chain : ApplyLoaded(chain, h)
-------------------------------------------------------------------------------
(* Version lists and counters *)

(* The operations of a chain, by block and by position in the block *)
Position(chain) == UNION {{h} \X DOMAIN chain[h].ops : h \in DOMAIN chain}
OpAt(chain, p) == chain[p[1]].ops[p[2]]

(* The version-list entries a chain gives each key: the list is in the order *)
(* of the positions, which are its indices.                                  *)
VersionsOf(chain) ==
  [k \in Key |-> [p \in {q \in Position(chain) : OpAt(chain, q).key = k} |->
                    [height |-> p[1], effect |-> Effect(OpAt(chain, p))]]]

(* Mutant: the transactions of a block are counted once *)
TxsOfBlocks(chain) == {p[1] : p \in Position(chain)}

TxsOf(chain) == {<<p[1], OpAt(chain, p).tx>> : p \in Position(chain)}

Before(p, q) == p[1] < q[1] \/ (p[1] = q[1] /\ p[2] < q[2])
Newest(positions) ==
  CHOOSE p \in positions : \A q \in positions : q = p \/ Before(q, p)

Get(k) == state[k]

(* Mutant: the block at the height asked for is not visible yet *)
GetAtExclusive(k, h) ==
  LET visible == {p \in DOMAIN versions[k] : versions[k][p].height < h}
  IN  IF visible = {} THEN Absent ELSE versions[k][Newest(visible)].effect

(* GetAt walks the list of key k from its end to the first entry that is not *)
(* newer than height h.                                                      *)
GetAt(k, h) ==
  LET visible == {p \in DOMAIN versions[k] : versions[k][p].height <= h}
  IN  IF visible = {} THEN Absent ELSE versions[k][Newest(visible)].effect
-------------------------------------------------------------------------------
(* Memory after Open has replayed a chain it accepts *)
Loaded(chain) ==
  /\ blocks' = chain
  /\ state' = StateBefore(chain, Len(chain) + 1)
  /\ versions' = VersionsOf(chain)
  /\ txCount' = Cardinality(TxsOf(chain))
  /\ opCount' = Cardinality(Position(chain))

EmptyMemory ==
  /\ blocks = <<>>
  /\ state = EmptyState
  /\ versions = VersionsOf(<<>>)
  /\ txCount = 0
  /\ opCount = 0

Init ==
  /\ stored \in {<<>>} \cup Legacy
  /\ up = FALSE
  /\ EmptyMemory

Open ==
  /\ ~up
  /\ Accepts(stored)
  /\ up' = TRUE
  /\ Loaded(stored)
  /\ UNCHANGED stored

WellFormed(batch) ==
  /\ batch # <<>>
  /\ \A i \in DOMAIN batch : batch[i].tx # 0 /\ batch[i].key # NoKey

(* Mutant: the new versions carry the height of the last block *)
WithVersionsLate(height, ops) ==
  [k \in Key |->
     [p \in DOMAIN versions[k] \cup ({height} \X On(ops, k)) |->
        IF p[1] = height THEN [height |-> height - 1, effect |-> Effect(ops[p[2]])]
                         ELSE versions[k][p]]]

(* The version lists after a block of the given height and operations *)
WithVersions(height, ops) ==
  [k \in Key |->
     [p \in DOMAIN versions[k] \cup ({height} \X On(ops, k)) |->
        IF p[1] = height THEN [height |-> height, effect |-> Effect(ops[p[2]])]
                         ELSE versions[k][p]]]

(* Commit computes nextState over the whole batch for the header's roots,    *)
(* then replays the surviving operations on e.state and the version lists.   *)
Commit(batch) ==
  LET ops    == Filtered(state, batch)
      height == Len(blocks) + 1
      block  == NewBlock(blocks, ops, Apply(state, batch))
  IN
  /\ up
  /\ height <= MaxHeight
  /\ WellFormed(batch)
  /\ DOMAIN ops # {}
  /\ stored' = Append(stored, GobDecoded(block))
  /\ blocks' = Append(blocks, block)
  /\ state' = Apply(state, ops)
  /\ versions' = WithVersions(height, ops)
  /\ txCount' = txCount + Cardinality({ops[i].tx : i \in DOMAIN ops})
  /\ opCount' = opCount + Cardinality(DOMAIN ops)
  /\ UNCHANGED up

(* An empty list, a missing ID, an empty key or a list that changes nothing: *)
(* an error is returned and nothing happens.                                 *)
CommitRefused(batch) ==
  /\ up
  /\ WellFormed(batch) => DOMAIN Filtered(state, batch) = {}
  /\ UNCHANGED vars

(* Close, or the end of the process: the memory is gone *)
Close ==
  /\ up
  /\ up' = FALSE
  /\ blocks' = <<>>
  /\ state' = EmptyState
  /\ versions' = VersionsOf(<<>>)
  /\ txCount' = 0
  /\ opCount' = 0
  /\ UNCHANGED stored

Next ==
  \/ Open
  \/ \E batch \in Batch : Commit(batch) \/ CommitRefused(batch)
  \/ Close

Spec == Init /\ [][Next]_vars
-------------------------------------------------------------------------------
(* Properties *)

(* Every variable has its type; no state, in memory or behind a root, holds  *)
(* a nil value.                                                              *)
TypeOK ==
  /\ up \in BOOLEAN
  /\ ChainType(stored) /\ ChainType(blocks)
  /\ state \in StateType
  /\ DOMAIN versions = Key
  /\ txCount \in Nat /\ opCount \in Nat

(* Verify() of a running engine succeeds and ends in the state it serves:    *)
(* the roots computed before suppression agree with a replay of what         *)
(* survived it.                                                              *)
ChainVerifies ==
  up => Accepts(blocks) /\ state = StateBefore(blocks, Len(blocks) + 1)

(* GetAt(k, h) is the value key k had when block h was the last one, for     *)
(* every height: 0, inside the chain and beyond its end.                     *)
TimeTravel ==
  up => \A k \in Key, h \in 0..MaxHeight + 1 :
          GetAt(k, h) =
            StateBefore(blocks, (IF h < Len(blocks) THEN h ELSE Len(blocks)) + 1)[k]

(* Every operation of every block changed what it found: replaying a block   *)
(* on the state before it suppresses nothing. Older schemas are exempt.      *)
NoOpFree ==
  \A h \in DOMAIN blocks : blocks[h].schema \notin 0..3 =>
     /\ DOMAIN blocks[h].ops # {}
     /\ \A i \in DOMAIN blocks[h].ops :
          ~Suppressed(StateBefore(blocks, h), blocks[h].ops, i)

(* The bookkeeping done block by block is what Open would rebuild from the   *)
(* segments: a restart changes no answer of Get, GetAt or Status.            *)
RestartTransparent ==
  up => /\ state = StateBefore(stored, Len(stored) + 1)
        /\ versions = VersionsOf(stored)
        /\ txCount = Cardinality(TxsOf(stored))
        /\ opCount = Cardinality(Position(stored))

(* Commit is modelled by what the last operation on each key leaves; its     *)
(* loop, taken as it is written, drops the same operations and leaves the    *)
(* same state, whatever list is submitted in whatever state (of a chain that *)
(* the bound lets grow).                                                     *)
SuppressionMatchesLoop ==
  up /\ Len(blocks) < MaxHeight =>
    \A ops \in Batch : WellFormed(ops) => LoopAgrees(state, ops)

(* What Commit stored, Open accepts. *)
Reopenable == Accepts(stored)

(* The past is never rewritten: no step of a running engine changes a block  *)
(* or what a read at an existing height returns.                             *)
HistoryImmutable ==
  [][up /\ up' => /\ \A h \in DOMAIN blocks : blocks'[h] = blocks[h]
                  /\ \A k \in Key, h \in 0..Len(blocks) : GetAt(k, h)' = GetAt(k, h)]_vars
===============================================================================
