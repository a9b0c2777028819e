-------------------------------- MODULE Merkle --------------------------------
(*****************************************************************************)
(* The Merkle trees of engine/internal/merkle/merkle.go over the state map:  *)
(* roots, inclusion proofs and their verification.                           *)
(*                                                                           *)
(* SHA-256 is modelled as a free constructor over byte strings: two strings  *)
(* have the same hash only when they are the same. A byte string is a pair,  *)
(* its length and its text. What is hashed for an entry of the map is the    *)
(* string key+"\x00"+value, for an inner node the two hashes below it: one   *)
(* hash function for both, so an entry whose string has 64 bytes can be      *)
(* hashed like a node, and two entries whose keys hold a NUL can be hashed   *)
(* alike. Commit refuses neither; PlainEntry names the others.               *)
(*****************************************************************************)
EXTENDS Naturals, Sequences, FiniteSets

CONSTANTS
  Key,        \* the keys, as numbers in the order sort.Strings puts them
  Value,      \* the values
  Absent,     \* "no such key"
  NulKey,     \* the keys with a NUL byte in them
  EntryBytes  \* the string key+"\x00"+value of an entry, as <<length, text>>

ASSUME KeyAssumption == Key \subseteq Nat /\ IsFiniteSet(Key)
ASSUME AbsentAssumption == Absent \notin Value

(* The separator counts, so no entry is empty, and where keys hold no NUL    *)
(* the first one of the string ends the key.                                 *)
ASSUME EntryAssumption ==
  /\ NulKey \subseteq Key
  /\ \A k \in Key, v \in Value : EntryBytes[<<k, v>>][1] \in Nat \ {0}
  /\ \A k, k2 \in Key \ NulKey, v, v2 \in Value :
       EntryBytes[<<k, v>>] = EntryBytes[<<k2, v2>>] => k = k2 /\ v = v2

States == [Key -> Value \cup {Absent}]

VARIABLE state   \* e.state
-------------------------------------------------------------------------------
(* sha256.Sum256 *)
Hash(bytes) == <<"sha256", bytes>>

(* Mutant: the key is not part of the leaf *)
LeafHashOfValue(k, v) == Hash(<<EntryBytes[<<k, v>>][1], v>>)

LeafHash(k, v) == Hash(EntryBytes[<<k, v>>])

(* Two hashes of 32 bytes each *)
NodeBytes(l, r) == <<64, <<l, r>>>>
NodeHash(l, r) == Hash(NodeBytes(l, r))

(* Hash(nil) *)
EmptyHash == Hash(<<0, <<>>>>)

(* Mutant: an odd one out is dropped *)
NextLevelPairs(level) ==
  [i \in 1..(Len(level) \div 2) |-> NodeHash(level[2*i - 1], level[2*i])]

(* One level up: neighbours are paired, an odd one out is paired with itself *)
NextLevel(level) ==
  [i \in 1..((Len(level) + 1) \div 2) |->
     NodeHash(level[2*i - 1],
              IF 2*i <= Len(level) THEN level[2*i] ELSE level[2*i - 1])]

(* The levels, from the leaves up. Root and StateProof compute them until    *)
(* one has a single hash, after Height rounds.                               *)
Levels(leaves) ==
  LET level[n \in 0..Len(leaves)] == IF n = 0 THEN leaves ELSE NextLevel(level[n - 1])
  IN  level

Height(leaves) ==
  CHOOSE n \in 0..Len(leaves) :
    Len(Levels(leaves)[n]) = 1 /\ \A m \in 0..(n - 1) : Len(Levels(leaves)[m]) > 1

Root(leaves) == IF leaves = <<>> THEN EmptyHash ELSE Levels(leaves)[Height(leaves)][1]

(* The keys among these that are in the map, and how many sort before key *)
Present(s, keys) == {k \in keys : s[k] # Absent}
Before(here, key) == Cardinality({k \in here : k < key})

(* sort.Strings: the key at position i has i - 1 before it *)
SortedKeys(s, keys) ==
  LET here == Present(s, keys)
  IN  [i \in 1..Cardinality(here) |-> CHOOSE k \in here : Before(here, k) = i - 1]

Leaves(s, keys) ==
  LET ks == SortedKeys(s, keys)
  IN  [i \in DOMAIN ks |-> LeafHash(ks[i], s[ks[i]])]

PrefixRoot(s, keys) == Root(Leaves(s, keys))
StateRoot(s) == PrefixRoot(s, Key)

(* Mutant: an odd one out takes its left neighbour for its sibling *)
SiblingWrapped(level, pos) ==
  LET other == IF pos % 2 = 0 THEN pos + 1 ELSE pos - 1
  IN  IF other >= Len(level) THEN pos - 1 ELSE other

(* The siblings on the way up from position pos, counted from 0 *)
Sibling(level, pos) ==
  LET other == IF pos % 2 = 0 THEN pos + 1 ELSE pos - 1
  IN  IF other >= Len(level) THEN pos ELSE other

(* pos of every round *)
Positions(leaves, idx) ==
  LET pos[n \in 0..Len(leaves)] == IF n = 0 THEN idx ELSE pos[n - 1] \div 2
  IN  pos

Path(leaves, idx) ==
  [n \in 1..Height(leaves) |->
     LET level == Levels(leaves)[n - 1]
         pos == Positions(leaves, idx)[n - 1]
         sib == Sibling(level, pos)
     IN  [hash |-> level[sib + 1], left |-> sib < pos]]

(* sort.SearchStrings gives the number of keys in the map that sort before *)
StateProof(s, key) ==
  LET ks == SortedKeys(s, Key)
      leaves == Leaves(s, Key)
      idx == Before(Present(s, Key), key)
      exists == idx < Len(ks) /\ ks[idx + 1] = key
  IN  [key |-> key, exists |-> exists, root |-> StateRoot(s), index |-> idx, total |-> Len(ks),
       value |-> IF exists THEN s[key] ELSE Absent,
       leafHash |-> IF exists THEN leaves[idx + 1] ELSE <<>>,
       path |-> IF exists THEN Path(leaves, idx) ELSE <<>>]

(* cur before and after every step of the path, whose hashes are 32 bytes    *)
(* long, as StateProof makes them                                            *)
HashUp(leaf, path) ==
  LET cur[n \in 0..Len(path)] ==
        IF n = 0 THEN leaf
        ELSE IF path[n].left THEN NodeHash(path[n].hash, cur[n - 1])
        ELSE NodeHash(cur[n - 1], path[n].hash)
  IN  cur

VerifyProof(p) ==
  LET leaf == LeafHash(p.key, p.value)
  IN  /\ p.exists
      /\ leaf = p.leafHash
      /\ HashUp(leaf, p.path)[Len(p.path)] = p.root
-------------------------------------------------------------------------------
(* The state map as Commit updates it *)
Init == state = [k \in Key |-> Absent]

Put(k, v) == state' = [state EXCEPT ![k] = v]
Delete(k) == state' = [state EXCEPT ![k] = Absent]

Next == \E k \in Key : Delete(k) \/ \E v \in Value : Put(k, v)

Spec == Init /\ [][Next]_state
-------------------------------------------------------------------------------
(* StateProof of every key in the map verifies against the state root, with  *)
(* the value and the position of the key: levels of odd length, whose last   *)
(* hash is its own sibling, included. Of an absent key it does not.          *)
ProofsVerify ==
  \A k \in Key :
    LET p == StateProof(state, k)
    IN  /\ VerifyProof(p) <=> state[k] # Absent
        /\ p.root = StateRoot(state)
        /\ p.exists => SortedKeys(state, Key)[p.index + 1] = k

(* The inclusion proofs of every map *)
GivenOut == {p \in {StateProof(s, k) : s \in States, k \in Key} : p.exists}

(* Entries that are hashed apart from all others: no NUL in the key and not  *)
(* as many bytes as two hashes                                               *)
PlainEntry(k, v) == k \notin NulKey /\ EntryBytes[<<k, v>>][1] # 64
PlainState(s) == \A k \in Key : s[k] # Absent => PlainEntry(k, s[k])

(* In a map of plain entries no other claim about a plain entry verifies     *)
(* against the state root: neither a proof given out for another state (an   *)
(* earlier one, or one with entries that are not plain) nor one whose key or *)
(* value was replaced, unless the claimed entry is in the map.               *)
ProofsBind ==
  PlainState(state) =>
    LET root == StateRoot(state)
    IN  \A p \in GivenOut, claimed \in Key, v \in Value :
          /\ PlainEntry(claimed, v)
          /\ VerifyProof([p EXCEPT !.key = claimed, !.value = v, !.root = root,
                                   !.leafHash = LeafHash(claimed, v)])
          => state[claimed] = v

(* The keys of a namespace are neighbours in the order of the keys *)
Namespace(first, last) == {k \in Key : first <= k /\ k <= last}

PlainStates == {s \in States : PlainState(s)}

(* Two maps of plain entries with the same root, over all keys or over those *)
(* of a namespace, hold the same entries: a root stands for what it was      *)
(* computed from.                                                            *)
RootDeterminesState ==
  PlainState(state) =>
    /\ LET root == StateRoot(state)
       IN  \A other \in PlainStates : StateRoot(other) = root => other = state
    /\ \A first, last \in Key :
         LET keys == Namespace(first, last)
             root == PrefixRoot(state, keys)
         IN  \A other \in PlainStates :
               PrefixRoot(other, keys) = root => \A k \in keys : other[k] = state[k]
===============================================================================
