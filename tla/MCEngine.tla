------------------------------ MODULE MCEngine ------------------------------
(* Small instances of Engine *)
EXTENDS Engine, TLC

CONSTANTS MaxOps,   \* the longest transaction list submitted
          Raw       \* the values operations carry

MCKey == {"account/a", "contract/code/c"}
MCPrefix ==
  [p \in Namespace |->
     CASE p = "account/" -> {"account/a"} \cap Key
       [] p \in {"contract/", "contract/code/"} -> {"contract/code/c"} \cap Key
       [] OTHER -> {}]

Put(t, k, v) == [tx |-> t, key |-> k, value |-> v, delete |-> FALSE]
Del(t, k) == [tx |-> t, key |-> k, value |-> Nil, delete |-> TRUE]

OpsOf(t) == {Put(t, k, v) : k \in Key, v \in Raw} \cup {Del(t, k) : k \in Key}

(* Lists of at most max operations; the transaction number starts at 1    *)
(* and grows by 0 or 1 from one operation to the next.                       *)
Numbered(b) ==
  \A i \in DOMAIN b : b[i].tx \in IF i = 1 THEN {1} ELSE {b[i-1].tx, b[i-1].tx + 1}
ListsUpTo(max) ==
  {b \in UNION {[1..n -> UNION {OpsOf(t) : t \in 1..n}] : n \in 1..max} : Numbered(b)}
MCBatch ==
  ListsUpTo(MaxOps)
    \cup {<<>>, <<Put(0, CHOOSE k \in Key : TRUE, Nil)>>, <<Put(1, NoKey, Nil)>>}

(* One-block chains of the two earlier schemas: roots they do not have are   *)
(* the empty string of the header's zero value.                              *)
LegacyBlock(schema, ops) ==
  LET s == Apply(EmptyState, ops)
  IN  Sealed([NewBlock(<<>>, ops, s) EXCEPT
                !.schema = schema, !.hash = NoHash,
                !.contractRoot = IF schema = 3 THEN PrefixRoot(s, Prefix["contract/"]) ELSE NoHash,
                !.accountRoot = NoHash, !.codeRoot = NoHash,
                !.storageRoot = NoHash, !.logRoot = NoHash,
                !.zkRoot = IF schema = 3 THEN @ ELSE NoHash,
                !.receiptRoot = IF schema = 3 THEN @ ELSE NoHash])
MCLegacy ==
  {<<LegacyBlock(schema, [i \in 1..Cardinality(Key) |->
       Put(i, IF i = 1 THEN "account/a" ELSE "contract/code/c", CHOOSE v \in Bytes : TRUE)])>>
     : schema \in {2, 3}}
MCNoLegacy == {}
=============================================================================
