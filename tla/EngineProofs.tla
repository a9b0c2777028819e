----------------------------- MODULE EngineProofs -----------------------------
(*****************************************************************************)
(* Theorems about Engine, for every set of keys, values and batches.         *)
(*****************************************************************************)
EXTENDS Engine, FiniteSetTheorems, WellFoundedInduction, TLAPS
-------------------------------------------------------------------------------
(* Induction over data: a non-empty set of naturals has a least element, and *)
(* a bounded one a greatest.                                                 *)

(* Every non-empty set of natural numbers has a least element. *)
LEMMA LeastNat ==
  ASSUME NEW T, T \subseteq Nat, T # {}
  PROVE  \E x \in T : \A y \in T : x <= y
<1> DEFINE Less == OpToRel(<, Nat)
<1>1. IsWellFoundedOn(Less, Nat)
  BY NatLessThanWellFounded
<1>2. \A x, y \in Nat : y < x => <<y, x>> \in Less
  BY DEF OpToRel
<1> HIDE DEF Less
<1>3. PICK x \in T : \A y \in T : ~(<<y, x>> \in Less)
  BY <1>1, WFMin
<1>4. ASSUME NEW y \in T PROVE x <= y
  <2>1. x \in Nat /\ y \in Nat
    OBVIOUS
  <2>2. ~(y < x)
    BY <1>2, <1>3, <2>1
  <2> QED
    BY <2>1, <2>2
<1> QED
  BY <1>4

(* A non-empty set of naturals bounded by m has Max as its greatest element. *)
LEMMA GreatestNat ==
  ASSUME NEW T, T \subseteq Nat, T # {}, NEW m \in Nat, \A x \in T : x <= m
  PROVE  Max(T) \in T /\ \A y \in T : y <= Max(T)
<1> DEFINE U == {m - x : x \in T}
<1>1. U \subseteq Nat /\ U # {}
  <2>1. \A x \in T : x \in Nat /\ x <= m
    OBVIOUS
  <2>2. \A x \in T : m - x \in Nat
    BY <2>1
  <2> QED
    BY <2>2
<1>2. PICK u \in U : \A y \in U : u <= y
  BY <1>1, LeastNat
<1>3. PICK x \in T : u = m - x
  OBVIOUS
<1>4. \A y \in T : x >= y
  <2> TAKE y \in T
  <2>1. m - x <= m - y
    BY <1>2, <1>3
  <2> QED
    BY <2>1, x \in Nat, y \in Nat
<1>5. Max(T) \in T /\ \A y \in T : Max(T) >= y
  BY <1>4 DEF Max
<1> QED
  BY <1>5

(* The greatest element is what Max returns. *)
LEMMA MaxIs ==
  ASSUME NEW T, T \subseteq Nat, NEW m \in T, \A y \in T : y <= m
  PROVE  Max(T) = m
<1>1. m \in Nat /\ \A y \in T : m >= y
  OBVIOUS
<1>2. Max(T) \in T /\ \A y \in T : Max(T) >= y
  BY <1>1 DEF Max
<1>3. Max(T) \in Nat /\ Max(T) >= m /\ m >= Max(T)
  BY <1>1, <1>2
<1> QED
  BY <1>1, <1>3
-------------------------------------------------------------------------------
(* No-op suppression *)

(* Up to every position n, the operations that survive suppression leave     *)
(* under every key what the whole list leaves.                               *)
LEMMA SuppressionPrefix ==
  ASSUME NEW s, NEW ops \in Seq(Operation), NEW k \in Key, NEW n \in Nat
  PROVE  Outcome(s, Filtered(s, ops), {j \in DOMAIN ops : j <= n}, k)
           = Outcome(s, ops, {j \in DOMAIN ops : j <= n}, k)
<1> DEFINE F == Filtered(s, ops)
           I(m) == {j \in DOMAIN ops : j <= m}
           Bad == {m \in Nat : Outcome(s, F, I(m), k) # Outcome(s, ops, I(m), k)}
<1>0. DOMAIN ops \subseteq Nat \ {0}
  OBVIOUS
<1>1. /\ DOMAIN F = {j \in DOMAIN ops : ~Suppressed(s, ops, j)}
      /\ \A i \in DOMAIN F : F[i] = ops[i]
      /\ On(F, k) = On(ops, k) \cap DOMAIN F
      /\ On(ops, k) \subseteq DOMAIN ops
  BY DEF Filtered, On
<1> HIDE DEF F
<1>2. SUFFICES ASSUME Bad # {} PROVE FALSE
  BY DEF F
<1>3. PICK m \in Bad : \A y \in Bad : m <= y
  BY <1>2, LeastNat
<1>4. m # 0
  <2>1. I(0) = {}
    BY <1>0
  <2>2. Outcome(s, F, {}, k) = s[k] /\ Outcome(s, ops, {}, k) = s[k]
    BY DEF Outcome
  <2> QED
    BY <2>1, <2>2
<1>5. m - 1 \in Nat /\ m \in Nat
  BY <1>4
<1>6. Outcome(s, F, I(m - 1), k) = Outcome(s, ops, I(m - 1), k)
  BY <1>3, <1>5
<1>7. I(m) = I(m - 1) \cup ({m} \cap DOMAIN ops)
  BY <1>0, <1>5
<1>8. CASE m \notin On(ops, k)
  <2>1. On(ops, k) \cap I(m) = On(ops, k) \cap I(m - 1)
    BY <1>7, <1>8
  <2>2. On(F, k) \cap I(m) = On(F, k) \cap I(m - 1)
    BY <2>1, <1>1
  <2>3. Outcome(s, ops, I(m), k) = Outcome(s, ops, I(m - 1), k)
    BY <2>1 DEF Outcome
  <2>4. Outcome(s, F, I(m), k) = Outcome(s, F, I(m - 1), k)
    BY <2>2 DEF Outcome
  <2> QED
    BY <2>3, <2>4, <1>6
<1>9. CASE m \in On(ops, k)
  <2>1. m \in DOMAIN ops /\ ops[m].key = k
    BY <1>9 DEF On
  <2>2. Max(On(ops, k) \cap I(m)) = m
    <3>1. m \in On(ops, k) \cap I(m)
      BY <2>1, <1>9, <1>5
    <3>2. /\ On(ops, k) \cap I(m) \subseteq Nat
          /\ \A y \in On(ops, k) \cap I(m) : y <= m
      BY <1>0
    <3> QED
      BY <3>1, <3>2, MaxIs
  <2>3. Outcome(s, ops, I(m), k) = Effect(ops[m])
    BY <2>1, <2>2, <1>9 DEF Outcome
  <2>4. CASE m \in DOMAIN F
    <3>1. Max(On(F, k) \cap I(m)) = m
      <4>1. m \in On(F, k) \cap I(m)
        BY <2>1, <2>4, <1>9, <1>1, <1>5
      <4>2. /\ On(F, k) \cap I(m) \subseteq Nat
            /\ \A y \in On(F, k) \cap I(m) : y <= m
        BY <1>0
      <4> QED
        BY <4>1, <4>2, MaxIs
    <3>2. Outcome(s, F, I(m), k) = Effect(F[m])
      BY <2>1, <2>4, <1>1, <1>9, <3>1 DEF Outcome
    <3> QED
      BY <3>2, <2>3, <2>4, <1>1
  <2>5. CASE m \notin DOMAIN F
    <3>1. Suppressed(s, ops, m)
      BY <2>5, <2>1, <1>1
    <3>2. {j \in DOMAIN ops : j < m} = I(m - 1)
      BY <1>0, <1>5
    <3>3. Effect(ops[m]) = Outcome(s, ops, I(m - 1), k)
      BY <3>1, <3>2, <2>1 DEF Suppressed, Current
    <3>4. On(F, k) \cap I(m) = On(F, k) \cap I(m - 1)
      BY <2>5, <1>1, <1>7
    <3>5. Outcome(s, F, I(m), k) = Outcome(s, F, I(m - 1), k)
      BY <3>4 DEF Outcome
    <3> QED
      BY <3>3, <3>5, <2>3, <1>6
  <2> QED
    BY <2>4, <2>5
<1> QED
  BY <1>8, <1>9

(* Replaying the surviving operations, as Commit does on e.state and Open    *)
(* does after a restart, gives the state the header's roots were computed    *)
(* from.                                                                     *)
THEOREM ReplayOfSurvivors ==
  ASSUME NEW s, NEW ops \in Seq(Operation)
  PROVE  Apply(s, Filtered(s, ops)) = Apply(s, ops)
<1> DEFINE F == Filtered(s, ops)
<1>1. DOMAIN F \subseteq DOMAIN ops /\ DOMAIN ops = 1..Len(ops) /\ Len(ops) \in Nat
  BY DEF Filtered
<1>2. {j \in DOMAIN ops : j <= Len(ops)} = DOMAIN ops
  BY <1>1
<1>3. ASSUME NEW k \in Key
      PROVE  Outcome(s, F, DOMAIN F, k) = Outcome(s, ops, DOMAIN ops, k)
  <2>1. Outcome(s, F, DOMAIN ops, k) = Outcome(s, ops, DOMAIN ops, k)
    BY SuppressionPrefix, <1>1, <1>2
  <2>2. On(F, k) \cap DOMAIN ops = On(F, k) \cap DOMAIN F
    BY <1>1 DEF On
  <2>3. Outcome(s, F, DOMAIN F, k) = Outcome(s, F, DOMAIN ops, k)
    BY <2>2 DEF Outcome
  <2> QED
    BY <2>1, <2>3
<1> QED
  BY <1>3 DEF Apply
-------------------------------------------------------------------------------
(* Chains *)

(* Operations leave a well-typed state behind. *)
LEMMA ApplyType ==
  ASSUME NEW s \in StateType, NEW ops, DOMAIN ops \subseteq Nat,
         \A i \in DOMAIN ops : ops[i] \in Operation,
         NEW m \in Nat, \A i \in DOMAIN ops : i <= m
  PROVE  Apply(s, ops) \in StateType /\ StateRoot(Apply(s, ops)) = Apply(s, ops)
<1>1. ASSUME NEW k \in Key
      PROVE  Outcome(s, ops, DOMAIN ops, k) \in Bytes \cup {Empty, Absent}
  <2> DEFINE T == On(ops, k) \cap DOMAIN ops
  <2>1. CASE T = {}
    BY <2>1 DEF Outcome, StateType
  <2>2. CASE T # {}
    <3>1. T \subseteq Nat /\ \A x \in T : x <= m
      OBVIOUS
    <3>2. Max(T) \in T
      BY <3>1, <2>2, GreatestNat
    <3>3. ops[Max(T)] \in Operation
      BY <3>2
    <3>4. Effect(ops[Max(T)]) \in Bytes \cup {Empty, Absent}
      BY <3>3 DEF Effect, Content, Operation
    <3> QED
      BY <3>4, <2>2 DEF Outcome
  <2> QED
    BY <2>1, <2>2
<1> QED
  BY <1>1 DEF Apply, StateType, StateRoot, PrefixRoot

(* A suppressed list is a well-formed list of operations. *)
LEMMA FilteredType ==
  ASSUME NEW s, NEW ops \in Seq(Operation)
  PROVE  /\ DOMAIN Filtered(s, ops) \subseteq DOMAIN ops
         /\ DOMAIN ops \subseteq Nat
         /\ \A i \in DOMAIN ops : ops[i] \in Operation /\ i <= Len(ops)
         /\ \A i \in DOMAIN Filtered(s, ops) :
              Filtered(s, ops)[i] = ops[i] /\ Filtered(s, ops)[i] \in Operation
         /\ Len(ops) \in Nat
BY DEF Filtered

(* The fields of the block Commit builds, and its hash *)
LEMMA NewBlockFields ==
  ASSUME NEW chain, NEW ops, NEW s
  PROVE  LET b == NewBlock(chain, ops, s) IN
         /\ b.height = Len(chain) + 1
         /\ b.prev = LastHash(chain)
         /\ b.ops = ops
         /\ b.stateRoot = StateRoot(s)
         /\ b.schema = 4
         /\ HashBlock(b) = b.hash
         /\ RootsMatch(b, s)
<1> DEFINE R(h) ==
      [height |-> Len(chain) + 1, prev |-> LastHash(chain), ops |-> ops,
       stateRoot |-> StateRoot(s),
       contractRoot |-> ContractAggregateRoot(s),
       accountRoot |-> PrefixRoot(s, Prefix["account/"]),
       codeRoot |-> PrefixRoot(s, Prefix["contract/code/"]),
       storageRoot |-> PrefixRoot(s, Prefix["contract-storage/"]),
       logRoot |-> PrefixRoot(s, Prefix["log/"]),
       zkRoot |-> PrefixRoot(s, Prefix["zk/"]),
       receiptRoot |-> PrefixRoot(s, Prefix["receipt/"]),
       schema |-> 4, hash |-> h]
<1>1. \A h : HashBlock(R(h)) = R(NoHash)
  BY DEF HashBlock
<1>2. NewBlock(chain, ops, s) = R(HashBlock(R(NoHash)))
  BY DEF NewBlock, Sealed
<1>3. \A h : RootsMatch(R(h), s)
  BY DEF RootsMatch
<1> QED
  BY <1>1, <1>2, <1>3

(* What appending a block does to a chain *)
LEMMA AppendBlock ==
  ASSUME NEW chain, chain \in Seq({chain[h] : h \in DOMAIN chain}), NEW b
  PROVE  LET c == Append(chain, b) IN
         /\ Len(chain) \in Nat /\ DOMAIN chain = 1..Len(chain)
         /\ Len(c) = Len(chain) + 1
         /\ DOMAIN c = 1..(Len(chain) + 1)
         /\ \A h \in DOMAIN chain : c[h] = chain[h]
         /\ c[Len(chain) + 1] = b
         /\ c \in Seq({c[h] : h \in DOMAIN c})
<1> DEFINE S == {chain[h] : h \in DOMAIN chain}
           c == Append(chain, b)
           R == {c[h] : h \in DOMAIN c}
<1>1. Len(chain) \in Nat /\ DOMAIN chain = 1..Len(chain)
  BY chain \in Seq(S)
<1>2. /\ Len(c) = Len(chain) + 1
      /\ DOMAIN c = 1..(Len(chain) + 1)
      /\ \A h \in DOMAIN chain : c[h] = chain[h]
      /\ c[Len(chain) + 1] = b
      /\ c \in Seq(S \cup {b})
  <2>1. chain \in Seq(S \cup {b}) /\ b \in S \cup {b}
    BY chain \in Seq(S), <1>1
  <2> HIDE DEF S
  <2> QED
    BY <2>1, <1>1
<1>3. R = S \cup {b}
  <2>1. \A h \in DOMAIN c : h \in DOMAIN chain \/ h = Len(chain) + 1
    BY <1>1, <1>2
  <2>2. DOMAIN chain \subseteq DOMAIN c /\ Len(chain) + 1 \in DOMAIN c
    BY <1>1, <1>2
  <2> QED
    BY <1>2, <2>1, <2>2
<1> QED
  BY <1>1, <1>2, <1>3

(* A chain is well-typed after a well-typed block is appended. *)
LEMMA AppendChainType ==
  ASSUME NEW chain, ChainType(chain), NEW b, BlockType(b)
  PROVE  ChainType(Append(chain, b))
<1> DEFINE c == Append(chain, b)
<1>1. chain \in Seq({chain[h] : h \in DOMAIN chain})
  BY DEF ChainType
<1>2. /\ Len(chain) \in Nat /\ DOMAIN chain = 1..Len(chain)
      /\ DOMAIN c = 1..(Len(chain) + 1)
      /\ \A h \in DOMAIN chain : c[h] = chain[h]
      /\ c[Len(chain) + 1] = b
      /\ c \in Seq({c[h] : h \in DOMAIN c})
  BY <1>1, AppendBlock
<1> HIDE DEF c
<1>3. \A h \in DOMAIN c : h \in DOMAIN chain \/ h = Len(chain) + 1
  BY <1>2
<1>4. \A h \in DOMAIN chain : BlockType(chain[h])
  BY DEF ChainType
<1>5. \A h \in DOMAIN c : BlockType(c[h])
  BY <1>2, <1>3, <1>4
<1>6. ChainType(c)
  BY <1>2, <1>5 DEF ChainType
<1> QED
  BY <1>6 DEF c

(* The state a chain ends in has its type. *)
LEMMA StateBeforeType ==
  ASSUME NEW chain, ChainType(chain)
  PROVE  /\ Len(chain) \in Nat /\ DOMAIN chain = 1..Len(chain)
         /\ StateBefore(chain, Len(chain) + 1) \in StateType
<1>1. Len(chain) \in Nat /\ DOMAIN chain = 1..Len(chain)
  BY DEF ChainType
<1>2. CASE Len(chain) = 0
  BY <1>2 DEF StateBefore, EmptyState, StateType
<1>3. CASE Len(chain) # 0
  <2>1. Len(chain) \in DOMAIN chain /\ Len(chain) + 1 # 1 /\ Len(chain) + 1 - 1 = Len(chain)
    BY <1>1, <1>3
  <2> QED
    BY <1>1, <2>1 DEF StateBefore, ChainType, BlockType
<1> QED
  BY <1>1, <1>2, <1>3

(* A chain that verifies still does after the block Commit builds on it, as  *)
(* long as the header's roots are those of the replayed operations.          *)
LEMMA AppendAccepts ==
  ASSUME NEW chain, ChainType(chain), Accepts(chain), NEW ops, NEW s,
         s = Apply(StateBefore(chain, Len(chain) + 1), ops), StateRoot(s) = s
  PROVE  LET c == Append(chain, NewBlock(chain, ops, s)) IN
         Accepts(c) /\ StateBefore(c, Len(c) + 1) = s
<1> DEFINE b == NewBlock(chain, ops, s)
           c == Append(chain, b)
           n == Len(chain)
<1>1. /\ n \in Nat /\ DOMAIN chain = 1..n
      /\ Len(c) = n + 1 /\ DOMAIN c = 1..(n + 1)
      /\ \A h \in DOMAIN chain : c[h] = chain[h]
      /\ c[n + 1] = b
  BY AppendBlock DEF ChainType
<1>2. /\ b.height = n + 1 /\ b.prev = LastHash(chain) /\ b.ops = ops
      /\ b.stateRoot = s /\ HashBlock(b) = b.hash /\ RootsMatch(b, s)
  BY NewBlockFields
<1>3. LastHash(chain) = IF n + 1 = 1 THEN NoHash ELSE chain[n].hash
  <2>1. chain = <<>> <=> n = 0
    BY DEF ChainType
  <2> QED
    BY <2>1, <1>1 DEF LastHash
<1> HIDE DEF b, c
<1>4. \A h \in 1..(n + 1) : h # 1 => h - 1 \in DOMAIN chain
  BY <1>1
<1>5. \A h \in 1..(n + 1) : StateBefore(c, h) = StateBefore(chain, h)
  BY <1>1, <1>4 DEF StateBefore
<1>6. ASSUME NEW h \in DOMAIN c PROVE ApplyLoaded(c, h)
  <2>1. CASE h \in DOMAIN chain
    <3>1. c[h] = chain[h] /\ StateBefore(c, h) = StateBefore(chain, h)
      BY <1>1, <1>5, <2>1
    <3>2. h # 1 => c[h - 1] = chain[h - 1]
      BY <1>1, <1>4
    <3>3. ApplyLoaded(chain, h)
      BY <2>1 DEF Accepts
    <3> QED
      BY <3>1, <3>2, <3>3 DEF ApplyLoaded
  <2>2. CASE h = n + 1
    <3>1. n + 1 \in 1..(n + 1) /\ n + 1 - 1 = n
      BY <1>1
    <3>2. c[h] = b /\ StateBefore(c, h) = StateBefore(chain, n + 1)
      BY <1>1, <1>5, <2>2, <3>1
    <3>3. n + 1 # 1 => c[h - 1] = chain[n]
      BY <1>1, <1>4, <2>2, <3>1
    <3>4. Apply(StateBefore(c, h), c[h].ops) = s
      BY <3>2, <1>2
    <3> QED
      BY <3>2, <3>3, <3>4, <2>2, <1>2, <1>3 DEF ApplyLoaded
  <2> QED
    BY <1>1, <2>1, <2>2
<1>7. StateBefore(c, Len(c) + 1) = s
  <2>1. Len(c) + 1 # 1 /\ Len(c) + 1 - 1 = n + 1
    BY <1>1
  <2> QED
    BY <2>1, <1>1, <1>2 DEF StateBefore
<1>8. Accepts(c)
  BY <1>6 DEF Accepts
<1> QED
  BY <1>7, <1>8 DEF b, c

(* The image of a finite set under a function is finite. *)
LEMMA FiniteImage ==
  ASSUME NEW f, IsFiniteSet(DOMAIN f)
  PROVE  IsFiniteSet({f[x] : x \in DOMAIN f})
<1> DEFINE T == {f[x] : x \in DOMAIN f}
           g == [x \in DOMAIN f |-> f[x]]
<1>1. g \in Surjection(DOMAIN f, T)
  BY DEF Surjection
<1> QED
  BY <1>1, FS_Surjection

(* A block has finitely many operations and transactions. *)
LEMMA FiniteBlock ==
  ASSUME NEW b, BlockType(b)
  PROVE  /\ IsFiniteSet(DOMAIN b.ops)
         /\ IsFiniteSet({b.ops[i].tx : i \in DOMAIN b.ops})
<1>1. IsFiniteSet(DOMAIN b.ops)
  <2>1. CASE DOMAIN b.ops = {}
    BY <2>1, FS_EmptySet
  <2>2. CASE DOMAIN b.ops # {}
    <3>1. PICK last \in DOMAIN b.ops : \A i \in DOMAIN b.ops : i <= last
      BY <2>2 DEF BlockType
    <3>2. DOMAIN b.ops \in SUBSET Nat /\ last \in Nat
      BY DEF BlockType
    <3> QED
      BY <3>1, <3>2, FS_BoundedSetOfNaturals
  <2> QED
    BY <2>1, <2>2
<1> DEFINE f == [i \in DOMAIN b.ops |-> b.ops[i].tx]
<1>2. {f[i] : i \in DOMAIN f} = {b.ops[i].tx : i \in DOMAIN b.ops} /\ DOMAIN f = DOMAIN b.ops
  OBVIOUS
<1> HIDE DEF f
<1>3. IsFiniteSet({f[i] : i \in DOMAIN f})
  BY <1>1, <1>2, FiniteImage
<1> QED
  BY <1>1, <1>2, <1>3

(* A chain has finitely many operations and transactions. *)
LEMMA FiniteChain ==
  ASSUME NEW chain, ChainType(chain)
  PROVE  IsFiniteSet(Position(chain)) /\ IsFiniteSet(TxsOf(chain))
<1>1. IsFiniteSet(DOMAIN chain)
  BY StateBeforeType, FS_Interval
<1> DEFINE f == [h \in DOMAIN chain |-> {h} \X DOMAIN chain[h].ops]
           g == [p \in Position(chain) |-> <<p[1], OpAt(chain, p).tx>>]
<1>2. \A h \in DOMAIN f : IsFiniteSet(f[h])
  <2> TAKE h \in DOMAIN f
  <2>1. BlockType(chain[h])
    BY DEF ChainType
  <2>2. IsFiniteSet(DOMAIN chain[h].ops) /\ IsFiniteSet({h})
    BY <2>1, FiniteBlock, FS_Singleton
  <2>3. IsFiniteSet({h} \X DOMAIN chain[h].ops)
    BY <2>2, FS_Product
  <2> QED
    BY <2>3
<1>3. Position(chain) = UNION {f[h] : h \in DOMAIN f} /\ DOMAIN f = DOMAIN chain
  BY DEF Position
<1> HIDE DEF f
<1>4. IsFiniteSet(Position(chain))
  <2>1. IsFiniteSet({f[h] : h \in DOMAIN f})
    BY <1>1, <1>3, FiniteImage
  <2>2. IsFiniteSet(UNION {f[h] : h \in DOMAIN f})
    BY <2>1, <1>2, FS_UNION
  <2> QED
    BY <2>2, <1>3
<1>5. TxsOf(chain) = {g[p] : p \in DOMAIN g} /\ DOMAIN g = Position(chain)
  BY DEF TxsOf
<1> HIDE DEF g
<1> QED
  BY <1>4, <1>5, FiniteImage
-------------------------------------------------------------------------------
(* The inductive invariant *)

(* ChainVerifies is not inductive without the types: the replay of a block   *)
(* is only known to have roots of its own when the state it starts from is a *)
(* well-typed map.                                                           *)
ChainInv ==
  /\ TypeOK
  /\ Accepts(blocks)
  /\ state = StateBefore(blocks, Len(blocks) + 1)

(* The empty chain is a chain, and verifies. *)
LEMMA EmptyChain ==
  /\ ChainType(<<>>) /\ Accepts(<<>>)
  /\ StateBefore(<<>>, Len(<<>>) + 1) = EmptyState /\ EmptyState \in StateType
  /\ DOMAIN VersionsOf(<<>>) = Key
<1>1. DOMAIN <<>> = {} /\ Len(<<>>) = 0
  OBVIOUS
<1>2. ChainType(<<>>)
  BY <1>1 DEF ChainType
<1> QED
  BY <1>1, <1>2 DEF Accepts, StateBefore, EmptyState, StateType, VersionsOf

(* What a list that Commit accepts turns into *)
LEMMA CommitBlock ==
  ASSUME ChainInv, NEW batch \in Seq(Operation)
  PROVE  LET ops   == Filtered(state, batch)
             block == NewBlock(blocks, ops, Apply(state, batch))
         IN  /\ Apply(state, ops) = Apply(state, batch)
             /\ Apply(state, batch) \in StateType
             /\ BlockType(block) /\ BlockType(GobDecoded(block))
             /\ Accepts(Append(blocks, block))
             /\ StateBefore(Append(blocks, block), Len(Append(blocks, block)) + 1)
                  = Apply(state, batch)
             /\ block.ops = ops
<1> DEFINE ops == Filtered(state, batch)
           s == Apply(state, batch)
           block == NewBlock(blocks, ops, s)
<1>1. /\ DOMAIN ops \subseteq DOMAIN batch /\ DOMAIN batch \subseteq Nat
      /\ \A i \in DOMAIN batch : batch[i] \in Operation /\ i <= Len(batch)
      /\ \A i \in DOMAIN ops : ops[i] = batch[i] /\ ops[i] \in Operation
      /\ Len(batch) \in Nat
  BY FilteredType
<1>2. state \in StateType
  BY DEF ChainInv, TypeOK
<1>3. s \in StateType /\ StateRoot(s) = s
  BY <1>1, <1>2, ApplyType
<1>4. Apply(state, ops) = s
  BY ReplayOfSurvivors
<1>5. block.ops = ops /\ block.stateRoot = s
  BY <1>3, NewBlockFields
<1>6. BlockType(block)
  <2>1. DOMAIN ops # {} => Max(DOMAIN ops) \in DOMAIN ops
                             /\ \A i \in DOMAIN ops : i <= Max(DOMAIN ops)
    <3>1. DOMAIN ops \subseteq Nat /\ \A i \in DOMAIN ops : i <= Len(batch)
      BY <1>1
    <3> HIDE DEF ops
    <3> QED
      BY <3>1, <1>1, GreatestNat
  <2> HIDE DEF ops, s, block
  <2> QED
    BY <1>1, <1>3, <1>5, <2>1 DEF BlockType
<1>7. BlockType(GobDecoded(block))
  <2> DEFINE d == GobDecoded(block)
  <2> HIDE DEF block
  <2>1. /\ d.stateRoot = block.stateRoot
        /\ DOMAIN d.ops = DOMAIN block.ops
        /\ \A i \in DOMAIN block.ops : d.ops[i] =
             [block.ops[i] EXCEPT !.value = IF @ = Empty THEN Nil ELSE @]
    BY NewBlockFields DEF GobDecoded, block, NewBlock, Sealed
  <2>2. \A i \in DOMAIN block.ops : block.ops[i] \in Operation
    BY <1>6 DEF BlockType
  <2> HIDE DEF d
  <2>3. \A i \in DOMAIN d.ops : d.ops[i] \in Operation
    <3>1. \A op \in Operation, v \in Bytes \cup {Nil, Empty} :
            [op EXCEPT !.value = v] \in Operation
      BY DEF Operation
    <3>2. \A op \in Operation : op.value \in Bytes \cup {Nil, Empty}
      BY DEF Operation
    <3> TAKE i \in DOMAIN d.ops
    <3> DEFINE op == block.ops[i]
               v == IF op.value = Empty THEN Nil ELSE op.value
    <3>3. op \in Operation /\ d.ops[i] = [op EXCEPT !.value = v]
      BY <2>1, <2>2
    <3>4. v \in Bytes \cup {Nil, Empty}
      BY <3>2, <3>3
    <3> HIDE DEF op, v
    <3> QED
      BY <3>1, <3>3, <3>4
  <2>4. BlockType(d)
    BY <2>1, <2>3, <1>6 DEF BlockType
  <2> QED
    BY <2>4 DEF d
<1>8. /\ Accepts(Append(blocks, block))
      /\ StateBefore(Append(blocks, block), Len(Append(blocks, block)) + 1) = s
  BY <1>3, <1>4, AppendAccepts DEF ChainInv, TypeOK
<1> QED
  BY <1>3, <1>4, <1>5, <1>6, <1>7, <1>8

(* The engine whoever calls it: any list of operations may be committed *)
AnyNext ==
  \/ Open
  \/ \E batch \in Seq(Operation) : Commit(batch) \/ CommitRefused(batch)
  \/ Close

AnySpec == Init /\ [][AnyNext]_vars

(* The lists of Batch are some of them. *)
LEMMA SomeCallers == Spec => AnySpec
<1>1. [Next]_vars => [AnyNext]_vars
  BY BatchType DEF Next, AnyNext
<1> QED
  BY <1>1, PTL DEF Spec, AnySpec

(* ChainInv holds initially and is preserved by every step. *)
LEMMA AnyChain == AnySpec => []ChainInv
<1>1. Init => ChainInv
  <2> SUFFICES ASSUME Init PROVE ChainInv
    OBVIOUS
  <2>1. ChainType(stored)
    BY EmptyChain, LegacyType DEF Init
  <2> QED
    BY <2>1, EmptyChain DEF Init, EmptyMemory, ChainInv, TypeOK
<1>2. ChainInv /\ [AnyNext]_vars => ChainInv'
  <2> SUFFICES ASSUME ChainInv, [AnyNext]_vars PROVE ChainInv'
    OBVIOUS
  <2>1. CASE Open
    <3>1. ChainType(stored) /\ Accepts(stored)
      BY <2>1 DEF ChainInv, TypeOK, Open
    <3>2. StateBefore(stored, Len(stored) + 1) \in StateType
      BY <3>1, StateBeforeType
    <3>3. Cardinality(Position(stored)) \in Nat /\ Cardinality(TxsOf(stored)) \in Nat
      BY <3>1, FiniteChain, FS_CardinalityType
    <3> QED
      BY <2>1, <3>1, <3>2, <3>3 DEF Open, Loaded, ChainInv, TypeOK, VersionsOf
  <2>2. ASSUME NEW batch \in Seq(Operation), Commit(batch) PROVE ChainInv'
    <3> DEFINE ops == Filtered(state, batch)
               block == NewBlock(blocks, ops, Apply(state, batch))
    <3>1. /\ stored' = Append(stored, GobDecoded(block))
          /\ blocks' = Append(blocks, block)
          /\ state' = Apply(state, ops)
          /\ DOMAIN versions' = Key
          /\ txCount' = txCount + Cardinality({ops[i].tx : i \in DOMAIN ops})
          /\ opCount' = opCount + Cardinality(DOMAIN ops)
          /\ up' = up
      BY <2>2 DEF Commit, WithVersions
    <3>2. /\ Apply(state, ops) = Apply(state, batch)
          /\ Apply(state, batch) \in StateType
          /\ BlockType(block) /\ BlockType(GobDecoded(block))
          /\ Accepts(Append(blocks, block))
          /\ StateBefore(Append(blocks, block), Len(Append(blocks, block)) + 1)
               = Apply(state, batch)
          /\ block.ops = ops
      BY CommitBlock
    <3> HIDE DEF ops, block
    <3>3. ChainType(stored') /\ ChainType(blocks')
      BY <3>1, <3>2, AppendChainType DEF ChainInv, TypeOK
    <3>4. txCount' \in Nat /\ opCount' \in Nat
      <4>1. /\ Cardinality({ops[i].tx : i \in DOMAIN ops}) \in Nat
            /\ Cardinality(DOMAIN ops) \in Nat
        BY <3>2, FiniteBlock, FS_CardinalityType
      <4> QED
        BY <3>1, <4>1 DEF ChainInv, TypeOK
    <3> QED
      BY <3>1, <3>2, <3>3, <3>4 DEF ChainInv, TypeOK
  <2>3. ASSUME NEW batch \in Seq(Operation), CommitRefused(batch) PROVE ChainInv'
    BY <2>3 DEF CommitRefused, vars, ChainInv, TypeOK
  <2>4. CASE Close
    BY <2>4, EmptyChain DEF Close, ChainInv, TypeOK
  <2>5. CASE UNCHANGED vars
    BY <2>5 DEF vars, ChainInv, TypeOK
  <2> QED
    BY <2>1, <2>2, <2>3, <2>4, <2>5 DEF AnyNext
<1> QED
  BY <1>1, <1>2, PTL DEF AnySpec

(* ChainInv is an invariant of the engine. *)
THEOREM ChainInvariant == Spec => []ChainInv
BY SomeCallers, AnyChain, PTL

(* TypeOK: memory, header roots and segments stay well-typed. *)
THEOREM TypeCorrect == Spec => []TypeOK
<1>1. ChainInv => TypeOK
  BY DEF ChainInv
<1> QED
  BY <1>1, ChainInvariant, PTL

(* ChainVerifies: whatever is committed, Verify() of a running engine        *)
(* succeeds and ends in the state it serves.                                 *)
THEOREM ChainAlwaysVerifies == Spec => []ChainVerifies
<1>1. ChainInv => ChainVerifies
  BY DEF ChainInv, ChainVerifies
<1> QED
  BY <1>1, ChainInvariant, PTL
-------------------------------------------------------------------------------
(* Version lists and reads in the past *)

(* The positions and versions of a chain with one more block *)
LEMMA AppendVersions ==
  ASSUME NEW chain, ChainType(chain), NEW b
  PROVE  LET c == Append(chain, b)
             n == Len(chain) + 1
         IN  /\ Position(c) = Position(chain) \cup ({n} \X DOMAIN b.ops)
             /\ \A p \in Position(chain) : p[1] # n /\ OpAt(c, p) = OpAt(chain, p)
             /\ \A i \in DOMAIN b.ops : OpAt(c, <<n, i>>) = b.ops[i]
<1> DEFINE c == Append(chain, b)
           n == Len(chain) + 1
<1>1. /\ Len(chain) \in Nat /\ DOMAIN chain = 1..Len(chain)
      /\ DOMAIN c = 1..n
      /\ \A h \in DOMAIN chain : c[h] = chain[h]
      /\ c[n] = b
  BY AppendBlock DEF ChainType
<1> HIDE DEF c
<1>2. DOMAIN c = DOMAIN chain \cup {n} /\ n \notin DOMAIN chain
  BY <1>1
<1> HIDE DEF n
<1>3. Position(c) = Position(chain) \cup ({n} \X DOMAIN b.ops)
  <2>1. \A p : p \in Position(c) <=> \E h \in DOMAIN c : p \in {h} \X DOMAIN c[h].ops
    BY DEF Position
  <2>2. \A p : p \in Position(chain)
               <=> \E h \in DOMAIN chain : p \in {h} \X DOMAIN chain[h].ops
    BY DEF Position
  <2>3. \A p : p \in Position(c) <=> p \in Position(chain) \/ p \in {n} \X DOMAIN b.ops
    BY <1>1, <1>2, <2>1, <2>2
  <2> QED
    BY <2>3
<1>4. \A p \in Position(chain) : p[1] \in DOMAIN chain
  BY DEF Position
<1>5. \A p \in Position(chain) : p[1] # n /\ OpAt(c, p) = OpAt(chain, p)
  BY <1>1, <1>2, <1>4 DEF OpAt
<1>6. \A i \in DOMAIN b.ops : OpAt(c, <<n, i>>) = b.ops[i]
  BY <1>1 DEF OpAt
<1> QED
  BY <1>3, <1>5, <1>6 DEF c, n

(* What a chain answers for key k at height h, by its version list *)
Visible(chain, k, h) == {p \in Position(chain) : OpAt(chain, p).key = k /\ p[1] <= h}
Answer(chain, k, h) ==
  IF Visible(chain, k, h) = {} THEN Absent
  ELSE Effect(OpAt(chain, Newest(Visible(chain, k, h))))

(* For every chain that verifies, the version lists answer with the value    *)
(* the key had after the block asked for.                                    *)
LEMMA AnswerExact ==
  ASSUME NEW chain, ChainType(chain), Accepts(chain), NEW k \in Key,
         NEW h \in 0..Len(chain)
  PROVE  Answer(chain, k, h) = StateBefore(chain, h + 1)[k]
<1> DEFINE n == Len(chain)
           Bad == {m \in 0..n : Answer(chain, k, m) # StateBefore(chain, m + 1)[k]}
<1>1. n \in Nat /\ DOMAIN chain = 1..n
  BY StateBeforeType
<1> SUFFICES ASSUME Bad # {} PROVE FALSE
  OBVIOUS
<1>2. PICK m \in Bad : \A y \in Bad : m <= y
  <2>1. Bad \subseteq Nat
    BY <1>1
  <2> QED
    BY <2>1, LeastNat
<1>3. /\ m \in Nat /\ m <= n
      /\ Answer(chain, k, m) # StateBefore(chain, m + 1)[k]
  BY <1>1
<1>4. \A p : p \in Position(chain) <=>
        \E g \in DOMAIN chain : \E i \in DOMAIN chain[g].ops : p = <<g, i>>
  BY DEF Position
<1>5. m # 0
  <2>1. Visible(chain, k, 0) = {}
    BY <1>1, <1>4 DEF Visible
  <2>2. Answer(chain, k, 0) = Absent
    BY <2>1 DEF Answer
  <2>3. StateBefore(chain, 0 + 1)[k] = Absent
    BY DEF StateBefore, EmptyState
  <2> QED
    BY <1>3, <2>2, <2>3
<1>6. m - 1 \in 0..n /\ m \in DOMAIN chain /\ (m - 1) + 1 = m
  BY <1>1, <1>3, <1>5
<1>7. Answer(chain, k, m - 1) = StateBefore(chain, m)[k]
  BY <1>2, <1>3, <1>6
<1> DEFINE ops == chain[m].ops
           T == On(ops, k)
<1>8. StateBefore(chain, m + 1)[k] = Outcome(StateBefore(chain, m), ops, DOMAIN ops, k)
  <2>1. ApplyLoaded(chain, m)
    BY <1>6 DEF Accepts
  <2>2. chain[m].stateRoot = StateRoot(Apply(StateBefore(chain, m), ops))
    BY <2>1 DEF ApplyLoaded, RootsMatch
  <2>3. StateBefore(chain, m + 1) = chain[m].stateRoot
    BY <1>3, <1>5 DEF StateBefore
  <2> QED
    BY <2>2, <2>3 DEF StateRoot, PrefixRoot, Apply
<1>9. T \cap DOMAIN ops = T
  BY DEF On
<1>10. Visible(chain, k, m) = Visible(chain, k, m - 1) \cup ({m} \X T)
  <2>1. ASSUME NEW p \in Visible(chain, k, m)
        PROVE  p \in Visible(chain, k, m - 1) \cup ({m} \X T)
    <3>1. PICK g, i : g \in DOMAIN chain /\ i \in DOMAIN chain[g].ops /\ p = <<g, i>>
      BY <1>4 DEF Visible
    <3>2. p \in Position(chain) /\ chain[g].ops[i].key = k /\ g <= m
      BY <3>1 DEF Visible, OpAt
    <3>3. CASE g = m
      BY <3>1, <3>2, <3>3 DEF On
    <3>4. CASE g # m
      <4>1. g <= m - 1
        BY <3>1, <3>2, <3>4, <1>1, <1>3
      <4> QED
        BY <3>1, <3>2, <4>1 DEF Visible, OpAt
    <3> QED
      BY <3>3, <3>4
  <2>2. ASSUME NEW p \in Visible(chain, k, m - 1) PROVE p \in Visible(chain, k, m)
    <3>1. PICK g, i : g \in DOMAIN chain /\ i \in DOMAIN chain[g].ops /\ p = <<g, i>>
      BY <1>4 DEF Visible
    <3>2. p \in Position(chain) /\ OpAt(chain, p).key = k /\ g <= m - 1
      BY <3>1 DEF Visible
    <3>3. g <= m
      BY <3>1, <3>2, <1>1, <1>3
    <3> QED
      BY <3>1, <3>2, <3>3 DEF Visible
  <2>3. ASSUME NEW i \in T PROVE <<m, i>> \in Visible(chain, k, m)
    BY <1>3, <1>4, <1>6 DEF Visible, OpAt, On
  <2> QED
    BY <2>1, <2>2, <2>3
<1>11. CASE T = {}
  <2>1. Visible(chain, k, m) = Visible(chain, k, m - 1)
    BY <1>10, <1>11
  <2>2. Answer(chain, k, m) = Answer(chain, k, m - 1)
    BY <2>1 DEF Answer
  <2>3. Outcome(StateBefore(chain, m), ops, DOMAIN ops, k) = StateBefore(chain, m)[k]
    BY <1>9, <1>11 DEF Outcome
  <2> QED
    BY <2>2, <2>3, <1>3, <1>7, <1>8
<1>12. CASE T # {}
  <2> DEFINE last == Max(T)
  <2>1. last \in T /\ (\A i \in T : i <= last) /\ T \subseteq Nat
    <3>1. BlockType(chain[m])
      BY <1>6 DEF ChainType
    <3>2. T \subseteq DOMAIN ops
      BY DEF On
    <3>3. PICK l \in DOMAIN ops : \A i \in DOMAIN ops : i <= l
      BY <3>1, <3>2, <1>12 DEF BlockType
    <3>4. T \subseteq Nat /\ l \in Nat /\ \A i \in T : i <= l
      BY <3>1, <3>2, <3>3 DEF BlockType
    <3> HIDE DEF T
    <3> QED
      BY <3>4, <1>12, GreatestNat
  <2> HIDE DEF T, last
  <2>2. Newest(Visible(chain, k, m)) = <<m, last>>
    <3> DEFINE V == Visible(chain, k, m)
    <3>1. <<m, last>> \in V
      BY <1>10, <2>1
    <3>2. ASSUME NEW q \in V, q # <<m, last>> PROVE Before(q, <<m, last>>)
      <4>1. CASE q \in {m} \X T
        <5>1. PICK i \in T : q = <<m, i>>
          BY <4>1
        <5>2. i < last
          BY <2>1, <3>2, <5>1
        <5> QED
          BY <5>1, <5>2 DEF Before
      <4>2. CASE q \in Visible(chain, k, m - 1)
        <5>1. PICK g, i : g \in DOMAIN chain /\ i \in DOMAIN chain[g].ops /\ q = <<g, i>>
          BY <1>4, <4>2 DEF Visible
        <5>2. g <= m - 1
          BY <5>1, <4>2 DEF Visible
        <5>3. g < m
          BY <5>1, <5>2, <1>1, <1>3
        <5> QED
          BY <5>1, <5>3 DEF Before
      <4> QED
        BY <1>10, <4>1, <4>2
    <3>3. ASSUME NEW q \in V, \A r \in V : r = q \/ Before(r, q) PROVE q = <<m, last>>
      <4>1. SUFFICES ASSUME q # <<m, last>> PROVE FALSE
        OBVIOUS
      <4>2. Before(q, <<m, last>>) /\ Before(<<m, last>>, q)
        BY <3>1, <3>2, <3>3, <4>1
      <4>3. PICK g, i : g \in DOMAIN chain /\ i \in DOMAIN chain[g].ops /\ q = <<g, i>>
        BY <1>4 DEF Visible
      <4>4. g \in Nat /\ i \in Nat /\ last \in Nat
        BY <1>1, <2>1, <4>3 DEF ChainType, BlockType
      <4> QED
        BY <4>2, <4>3, <4>4, <1>3 DEF Before
    <3>4. \A q \in V : q = <<m, last>> \/ Before(q, <<m, last>>)
      BY <3>2
    <3> HIDE DEF V
    <3>5. Newest(V) = <<m, last>>
      BY <3>1, <3>3, <3>4 DEF Newest
    <3> QED
      BY <3>5 DEF V
  <2>3. Visible(chain, k, m) # {}
    <3>1. <<m, last>> \in {m} \X T
      BY <2>1
    <3> QED
      BY <1>10, <3>1
  <2>4. Answer(chain, k, m) = Effect(ops[last])
    BY <2>2, <2>3 DEF Answer, OpAt
  <2>5. Outcome(StateBefore(chain, m), ops, DOMAIN ops, k) = Effect(ops[last])
    BY <1>9, <1>12 DEF Outcome, T, last
  <2> QED
    BY <2>4, <2>5, <1>3, <1>8
<1> QED
  BY <1>11, <1>12
-------------------------------------------------------------------------------
(* Bookkeeping: what Commit maintains is what Open rebuilds *)

(* Two blocks that a replay does not tell apart: gob may have turned an      *)
(* empty value into nil.                                                     *)
Same(b, c) ==
  /\ b.stateRoot = c.stateRoot /\ b.schema = c.schema
  /\ DOMAIN b.ops = DOMAIN c.ops
  /\ \A i \in DOMAIN b.ops :
       /\ b.ops[i].key = c.ops[i].key /\ b.ops[i].tx = c.ops[i].tx
       /\ Effect(b.ops[i]) = Effect(c.ops[i])

SameChain(c, d) ==
  DOMAIN c = DOMAIN d /\ Len(c) = Len(d) /\ \A h \in DOMAIN c : Same(c[h], d[h])

NoOpBlock(s, b) ==
  b.schema \notin 0..3 =>
    DOMAIN b.ops # {} /\ \A i \in DOMAIN b.ops : ~Suppressed(s, b.ops, i)

NoOps(chain) == \A h \in DOMAIN chain : NoOpBlock(StateBefore(chain, h), chain[h])

(* Decoding what Commit encoded gives the same block. *)
LEMMA DecodedSame ==
  ASSUME NEW chain, NEW ops, NEW s, \A i \in DOMAIN ops : ops[i] \in Operation
  PROVE  LET b == NewBlock(chain, ops, s) IN Same(GobDecoded(b), b)
<1> DEFINE b == NewBlock(chain, ops, s)
           d == GobDecoded(b)
<1>1. b.ops = ops
  BY NewBlockFields
<1>2. /\ d.stateRoot = b.stateRoot /\ d.schema = b.schema
      /\ DOMAIN d.ops = DOMAIN ops
      /\ \A i \in DOMAIN ops : d.ops[i] =
           [ops[i] EXCEPT !.value = IF ops[i].value = Empty THEN Nil ELSE ops[i].value]
  BY NewBlockFields DEF GobDecoded, NewBlock, Sealed
<1>3. ASSUME NEW i \in DOMAIN ops
      PROVE  /\ d.ops[i].key = ops[i].key /\ d.ops[i].tx = ops[i].tx
             /\ Effect(d.ops[i]) = Effect(ops[i])
  <2> DEFINE op == ops[i]
             v == IF op.value = Empty THEN Nil ELSE op.value
  <2>1. \A o \in Operation : \A w : LET e == [o EXCEPT !.value = w] IN
          e.key = o.key /\ e.tx = o.tx /\ e.delete = o.delete /\ e.value = w
    BY DEF Operation
  <2>2. op \in Operation /\ d.ops[i] = [op EXCEPT !.value = v]
    BY <1>2
  <2>3. Content(v) = Content(op.value)
    BY ConstantsAreDistinct DEF Content
  <2> HIDE DEF op, v, d
  <2>4. /\ d.ops[i].key = op.key /\ d.ops[i].tx = op.tx
        /\ d.ops[i].delete = op.delete /\ d.ops[i].value = v
    BY <2>1, <2>2
  <2>5. Effect(d.ops[i]) = Effect(op)
    BY <2>3, <2>4 DEF Effect
  <2> QED
    BY <2>4, <2>5 DEF op
<1> HIDE DEF b, d
<1>4. Same(d, b)
  BY <1>1, <1>2, <1>3 DEF Same
<1> QED
  BY <1>4 DEF b, d

(* Blocks a replay does not tell apart have the same no-ops. *)
LEMMA SameNoOps ==
  ASSUME NEW b, NEW c, Same(b, c), DOMAIN b.ops \subseteq Nat, NEW s, NoOpBlock(s, c)
  PROVE  NoOpBlock(s, b)
<1>1. \A k : On(b.ops, k) = On(c.ops, k)
  BY DEF Same, On
<1>2. ASSUME NEW i \in DOMAIN b.ops
      PROVE  Suppressed(s, b.ops, i) <=> Suppressed(s, c.ops, i)
  <2> DEFINE I == {j \in DOMAIN b.ops : j < i}
             k == b.ops[i].key
             T == On(b.ops, k) \cap I
  <2>1. k = c.ops[i].key /\ I = {j \in DOMAIN c.ops : j < i}
    BY DEF Same
  <2>2. CASE T = {}
    BY <1>1, <2>1, <2>2 DEF Suppressed, Current, Outcome, Same
  <2>3. CASE T # {}
    <3>1. /\ Current(s, b.ops, i) = Effect(b.ops[Max(T)])
          /\ Current(s, c.ops, i) = Effect(c.ops[Max(T)])
      BY <1>1, <2>1, <2>3 DEF Current, Outcome
    <3>2. T \subseteq Nat /\ i \in Nat /\ \A x \in T : x <= i
      OBVIOUS
    <3>3. Max(T) \in T
      BY <2>3, <3>2, GreatestNat
    <3>4. Effect(b.ops[Max(T)]) = Effect(c.ops[Max(T)])
      BY <3>3 DEF Same
    <3> QED
      BY <3>1, <3>4 DEF Suppressed, Same
  <2> QED
    BY <2>2, <2>3
<1> QED
  BY <1>2 DEF NoOpBlock, Same

(* Chains a replay does not tell apart leave the same memory behind. *)
LEMMA SameMemory ==
  ASSUME NEW c, NEW d, ChainType(c), ChainType(d), SameChain(c, d)
  PROVE  /\ Position(c) = Position(d) /\ TxsOf(c) = TxsOf(d)
         /\ VersionsOf(c) = VersionsOf(d)
         /\ \A h \in 1..(Len(c) + 1) : StateBefore(c, h) = StateBefore(d, h)
<1>1. Len(c) \in Nat /\ DOMAIN c = 1..Len(c)
  BY StateBeforeType
<1>2. \A h \in DOMAIN c : DOMAIN c[h].ops = DOMAIN d[h].ops /\ DOMAIN c = DOMAIN d
  BY DEF SameChain, Same
<1>3. Position(c) = Position(d)
  <2>1. \A p : p \in Position(c) <=> \E h \in DOMAIN c : p \in {h} \X DOMAIN c[h].ops
    BY DEF Position
  <2>2. \A p : p \in Position(d) <=> \E h \in DOMAIN d : p \in {h} \X DOMAIN d[h].ops
    BY DEF Position
  <2>3. DOMAIN c = DOMAIN d
    BY DEF SameChain
  <2>4. \A p : p \in Position(c) <=> p \in Position(d)
    BY <1>2, <2>1, <2>2, <2>3
  <2> QED
    BY <2>4
<1>4. ASSUME NEW p \in Position(c)
      PROVE  /\ OpAt(c, p).key = OpAt(d, p).key /\ OpAt(c, p).tx = OpAt(d, p).tx
             /\ Effect(OpAt(c, p)) = Effect(OpAt(d, p))
  <2>1. PICK h \in DOMAIN c : p \in {h} \X DOMAIN c[h].ops
    BY DEF Position
  <2>2. p[1] = h /\ p[2] \in DOMAIN c[h].ops
    BY <2>1
  <2> QED
    BY <2>2 DEF OpAt, SameChain, Same
<1>5. TxsOf(c) = TxsOf(d)
  BY <1>3, <1>4 DEF TxsOf
<1>6. VersionsOf(c) = VersionsOf(d)
  <2>1. ASSUME NEW k \in Key
        PROVE  {q \in Position(c) : OpAt(c, q).key = k} = {q \in Position(d) : OpAt(d, q).key = k}
    BY <1>3, <1>4
  <2>2. ASSUME NEW k \in Key PROVE VersionsOf(c)[k] = VersionsOf(d)[k]
    BY <1>4, <2>1 DEF VersionsOf
  <2> QED
    BY <2>2 DEF VersionsOf
<1>7. ASSUME NEW h \in 1..(Len(c) + 1) PROVE StateBefore(c, h) = StateBefore(d, h)
  <2>1. h # 1 => h - 1 \in DOMAIN c
    BY <1>1
  <2> QED
    BY <2>1 DEF StateBefore, SameChain, Same
<1> QED
  BY <1>3, <1>5, <1>6, <1>7

(* Same chains stay the same when a block is appended to each. *)
LEMMA AppendSame ==
  ASSUME NEW c, NEW d, ChainType(c), ChainType(d), SameChain(c, d),
         NEW b, NEW e, Same(b, e)
  PROVE  SameChain(Append(c, b), Append(d, e))
<1> DEFINE n == Len(c)
           cb == Append(c, b)
           de == Append(d, e)
<1>1. /\ n \in Nat /\ DOMAIN c = 1..n /\ Len(cb) = n + 1 /\ DOMAIN cb = 1..(n + 1)
      /\ \A h \in DOMAIN c : cb[h] = c[h]
      /\ cb[n + 1] = b
  BY AppendBlock DEF ChainType
<1>2. /\ Len(d) = n /\ DOMAIN d = 1..n /\ Len(de) = n + 1 /\ DOMAIN de = 1..(n + 1)
      /\ \A h \in DOMAIN d : de[h] = d[h]
      /\ de[n + 1] = e
  BY AppendBlock DEF ChainType, SameChain
<1> HIDE DEF cb, de
<1>3. ASSUME NEW h \in DOMAIN cb PROVE Same(cb[h], de[h])
  <2>1. CASE h = n + 1
    BY <1>1, <1>2, <2>1
  <2>2. CASE h # n + 1
    <3>1. h \in DOMAIN c /\ h \in DOMAIN d
      BY <1>1, <1>2, <2>2
    <3> QED
      BY <1>1, <1>2, <3>1 DEF SameChain
  <2> QED
    BY <2>1, <2>2
<1> QED
  BY <1>1, <1>2, <1>3 DEF SameChain, cb, de

(* A chain without no-ops stays one when a block without no-ops is appended. *)
LEMMA AppendNoOps ==
  ASSUME NEW chain, ChainType(chain), NoOps(chain),
         NEW b, NoOpBlock(StateBefore(chain, Len(chain) + 1), b)
  PROVE  NoOps(Append(chain, b))
<1> DEFINE n == Len(chain)
           c == Append(chain, b)
<1>1. /\ n \in Nat /\ DOMAIN chain = 1..n /\ DOMAIN c = 1..(n + 1)
      /\ \A h \in DOMAIN chain : c[h] = chain[h]
      /\ c[n + 1] = b
  BY AppendBlock DEF ChainType
<1> HIDE DEF c
<1>2. ASSUME NEW h \in DOMAIN c PROVE NoOpBlock(StateBefore(c, h), c[h])
  <2>1. h # 1 => h - 1 \in DOMAIN chain
    BY <1>1
  <2>2. StateBefore(c, h) = StateBefore(chain, h)
    BY <1>1, <2>1 DEF StateBefore
  <2>3. CASE h = n + 1
    BY <1>1, <2>2, <2>3
  <2>4. CASE h # n + 1
    <3>1. h \in DOMAIN chain
      BY <1>1, <2>4
    <3> QED
      BY <1>1, <2>2, <3>1 DEF NoOps
  <2> QED
    BY <2>3, <2>4
<1> QED
  BY <1>2 DEF NoOps, c

(* What survives suppression is not suppressed when it is replayed alone. *)
LEMMA SurvivorsSurvive ==
  ASSUME NEW s, NEW ops \in Seq(Operation), \A i \in DOMAIN ops : ops[i].key \in Key,
         NEW i \in DOMAIN Filtered(s, ops)
  PROVE  ~Suppressed(s, Filtered(s, ops), i)
<1> DEFINE F == Filtered(s, ops)
           k == ops[i].key
<1>1. /\ i \in DOMAIN ops /\ ~Suppressed(s, ops, i) /\ F[i] = ops[i]
      /\ DOMAIN F \subseteq DOMAIN ops
  BY DEF Filtered
<1>2. DOMAIN ops = 1..Len(ops) /\ Len(ops) \in Nat
  OBVIOUS
<1>3. i \in Nat /\ i - 1 \in Nat /\ k \in Key
  BY <1>1, <1>2
<1> DEFINE I == {j \in DOMAIN ops : j <= i - 1}
<1>4. I = {j \in DOMAIN ops : j < i}
  BY <1>2, <1>3
<1>5. Outcome(s, F, I, k) = Outcome(s, ops, I, k)
  BY <1>3, SuppressionPrefix
<1>6. Current(s, ops, i) = Outcome(s, ops, I, k)
  BY <1>4 DEF Current
<1> HIDE DEF F
<1>7. On(F, k) \cap {j \in DOMAIN F : j < i} = On(F, k) \cap I
  BY <1>1, <1>4 DEF On
<1>8. Current(s, F, i) = Outcome(s, F, I, k)
  BY <1>1, <1>7 DEF Current, Outcome
<1>9. ~Suppressed(s, F, i)
  BY <1>1, <1>5, <1>6, <1>8 DEF Suppressed
<1> QED
  BY <1>9 DEF F

(* Commit extends the version lists to those of the longer chain. *)
LEMMA CommitVersions ==
  ASSUME NEW chain, ChainType(chain), NEW b, versions = VersionsOf(chain)
  PROVE  WithVersions(Len(chain) + 1, b.ops) = VersionsOf(Append(chain, b))
<1> DEFINE c == Append(chain, b)
           n == Len(chain) + 1
<1>1. /\ Position(c) = Position(chain) \cup ({n} \X DOMAIN b.ops)
      /\ \A p \in Position(chain) : p[1] # n /\ OpAt(c, p) = OpAt(chain, p)
      /\ \A i \in DOMAIN b.ops : OpAt(c, <<n, i>>) = b.ops[i]
  BY AppendVersions
<1> HIDE DEF c, n
<1>2. ASSUME NEW k \in Key
      PROVE  WithVersions(n, b.ops)[k] = VersionsOf(c)[k]
  <2> DEFINE P == {q \in Position(chain) : OpAt(chain, q).key = k}
             Q == {q \in Position(c) : OpAt(c, q).key = k}
             N == {n} \X On(b.ops, k)
  <2>1. versions[k] = [p \in P |-> [height |-> p[1], effect |-> Effect(OpAt(chain, p))]]
    BY DEF VersionsOf
  <2>2. Q = P \cup N
    <3>1. \A p \in {n} \X DOMAIN b.ops : p = <<n, p[2]>> /\ p[2] \in DOMAIN b.ops
      OBVIOUS
    <3>2. \A p \in {n} \X DOMAIN b.ops : OpAt(c, p) = b.ops[p[2]]
      BY <1>1, <3>1
    <3>3. \A p : p \in N <=> p \in {n} \X DOMAIN b.ops /\ b.ops[p[2]].key = k
      BY <3>1 DEF On
    <3>4. \A p : p \in Q <=> p \in P \/ p \in N
      BY <1>1, <3>2, <3>3
    <3> QED
      BY <3>4
  <2>3. \A p \in N : p[1] = n /\ OpAt(c, p) = b.ops[p[2]]
    <3>1. \A p \in N : p = <<n, p[2]>> /\ p[1] = n /\ p[2] \in DOMAIN b.ops
      BY DEF On
    <3> QED
      BY <1>1, <3>1
  <2>4. \A p \in P : p[1] # n /\ OpAt(c, p) = OpAt(chain, p)
    BY <1>1
  <2> DEFINE Entry(p) == [height |-> p[1], effect |-> Effect(OpAt(c, p))]
             New(p) == IF p[1] = n THEN [height |-> n, effect |-> Effect(b.ops[p[2]])]
                                   ELSE versions[k][p]
  <2>5. \A p \in P \cup N : New(p) = Entry(p)
    BY <2>1, <2>3, <2>4
  <2>6. WithVersions(n, b.ops)[k] = [p \in P \cup N |-> New(p)]
    BY <2>1 DEF WithVersions
  <2>7. VersionsOf(c)[k] = [p \in Q |-> Entry(p)]
    BY DEF VersionsOf
  <2> HIDE DEF P, Q, N, Entry, New
  <2> QED
    BY <2>2, <2>5, <2>6, <2>7
<1>3. WithVersions(n, b.ops) = VersionsOf(c)
  BY <1>2 DEF WithVersions, VersionsOf
<1> QED
  BY <1>3 DEF c, n

(* The counters after one more block *)
LEMMA CommitCounts ==
  ASSUME NEW chain, ChainType(chain), NEW b, BlockType(b)
  PROVE  LET c == Append(chain, b) IN
         /\ Cardinality(Position(c)) = Cardinality(Position(chain)) + Cardinality(DOMAIN b.ops)
         /\ Cardinality(TxsOf(c))
              = Cardinality(TxsOf(chain)) + Cardinality({b.ops[i].tx : i \in DOMAIN b.ops})
<1> DEFINE c == Append(chain, b)
           n == Len(chain) + 1
           D == DOMAIN b.ops
           T == {b.ops[i].tx : i \in D}
<1>1. /\ Position(c) = Position(chain) \cup ({n} \X D)
      /\ \A p \in Position(chain) : p[1] # n /\ OpAt(c, p) = OpAt(chain, p)
      /\ \A i \in D : OpAt(c, <<n, i>>) = b.ops[i]
  BY AppendVersions
<1>2. IsFiniteSet(D) /\ IsFiniteSet(T)
  BY FiniteBlock
<1>3. IsFiniteSet(Position(chain)) /\ IsFiniteSet(TxsOf(chain))
  BY FiniteChain
<1>4. IsFiniteSet({n}) /\ Cardinality({n}) = 1
  BY FS_Singleton
<1> HIDE DEF c, n, D
<1>5. ASSUME NEW A, IsFiniteSet(A), NEW B, IsFiniteSet(B), \A p \in A : p[1] # n
      PROVE  Cardinality(A \cup ({n} \X B)) = Cardinality(A) + Cardinality(B)
  <2>1. /\ IsFiniteSet({n} \X B)
        /\ Cardinality({n} \X B) = Cardinality({n}) * Cardinality(B)
    BY <1>4, <1>5, FS_Product
  <2>2. A \cap ({n} \X B) = {}
    BY <1>5
  <2>3. Cardinality(A \cup ({n} \X B))
          = Cardinality(A) + Cardinality({n} \X B) - Cardinality(A \cap ({n} \X B))
    BY <1>5, <2>1, FS_Union
  <2>4. Cardinality(A) \in Nat /\ Cardinality(B) \in Nat /\ Cardinality({}) = 0
    BY <1>5, FS_CardinalityType, FS_EmptySet
  <2>5. Cardinality({n} \X B) = Cardinality(B)
    <3>1. \A x \in Nat : 1 * x = x
      OBVIOUS
    <3> QED
      BY <1>4, <2>1, <2>4, <3>1
  <2>6. \A x, y \in Nat : x + y - 0 = x + y
    OBVIOUS
  <2> QED
    BY <2>2, <2>3, <2>4, <2>5, <2>6
<1>6. Cardinality(Position(c)) = Cardinality(Position(chain)) + Cardinality(D)
  BY <1>1, <1>2, <1>3, <1>5
<1>7. TxsOf(c) = TxsOf(chain) \cup ({n} \X T)
  <2>1. \A p \in {n} \X D : p = <<n, p[2]>> /\ p[1] = n /\ p[2] \in D /\ OpAt(c, p) = b.ops[p[2]]
    <3>1. \A p \in {n} \X D : p = <<n, p[2]>> /\ p[1] = n /\ p[2] \in D
      OBVIOUS
    <3> QED
      BY <1>1, <3>1
  <2>2. ASSUME NEW t \in TxsOf(c) PROVE t \in TxsOf(chain) \cup ({n} \X T)
    <3>1. PICK p \in Position(c) : t = <<p[1], OpAt(c, p).tx>>
      BY DEF TxsOf
    <3>2. CASE p \in Position(chain)
      BY <1>1, <3>1, <3>2 DEF TxsOf
    <3>3. CASE p \in {n} \X D
      BY <2>1, <3>1, <3>3
    <3> QED
      BY <1>1, <3>2, <3>3
  <2>3. ASSUME NEW t \in TxsOf(chain) PROVE t \in TxsOf(c)
    BY <1>1 DEF TxsOf
  <2>4. ASSUME NEW t \in {n} \X T PROVE t \in TxsOf(c)
    <3>1. PICK i \in D : t = <<n, b.ops[i].tx>>
      OBVIOUS
    <3>2. <<n, i>> \in Position(c)
      BY <1>1
    <3>3. t = <<<<n, i>>[1], OpAt(c, <<n, i>>).tx>>
      BY <1>1, <3>1
    <3> QED
      BY <3>2, <3>3 DEF TxsOf
  <2> QED
    BY <2>2, <2>3, <2>4
<1>8. \A t \in TxsOf(chain) : t[1] # n
  BY <1>1 DEF TxsOf
<1>9. Cardinality(TxsOf(c)) = Cardinality(TxsOf(chain)) + Cardinality(T)
  <2> HIDE DEF T
  <2> QED
    BY <1>2, <1>3, <1>5, <1>7, <1>8
<1> QED
  BY <1>6, <1>9 DEF c, D

(* The inductive invariant behind the other properties: the memory is that   *)
(* of the chain it holds, the segments hold the same chain, and neither has  *)
(* no-ops. The segments are covered while no engine runs, too, since the     *)
(* next one starts from them.                                                *)
BookInv ==
  /\ versions = VersionsOf(blocks)
  /\ txCount = Cardinality(TxsOf(blocks)) /\ opCount = Cardinality(Position(blocks))
  /\ NoOps(blocks) /\ NoOps(stored)
  /\ up => SameChain(stored, blocks)

(* BookInv holds in every reachable state. *)
LEMMA AnyBook == AnySpec => []BookInv
<1>1. Init => BookInv
  <2> SUFFICES ASSUME Init PROVE BookInv
    OBVIOUS
  <2>1. Position(<<>>) = {} /\ TxsOf(<<>>) = {} /\ NoOps(<<>>)
    BY DEF Position, TxsOf, NoOps
  <2>2. NoOps(stored)
    <3>1. CASE stored = <<>>
      BY <2>1, <3>1
    <3>2. CASE stored \in Legacy
      BY <3>2, LegacyType DEF NoOps, NoOpBlock
    <3> QED
      BY <3>1, <3>2 DEF Init
  <2>3. Cardinality({}) = 0
    BY FS_EmptySet
  <2> QED
    BY <2>1, <2>2, <2>3 DEF Init, EmptyMemory, BookInv
<1>2. ChainInv /\ BookInv /\ [AnyNext]_vars => BookInv'
  <2> SUFFICES ASSUME ChainInv, BookInv, [AnyNext]_vars PROVE BookInv'
    OBVIOUS
  <2>1. CASE Open
    <3>1. \A h \in DOMAIN stored : Same(stored[h], stored[h])
      BY DEF Same
    <3>2. SameChain(stored, stored)
      BY <3>1 DEF SameChain
    <3> QED
      BY <2>1, <3>2 DEF Open, Loaded, BookInv
  <2>2. ASSUME NEW batch \in Seq(Operation), Commit(batch) PROVE BookInv'
    <3> DEFINE ops == Filtered(state, batch)
               n == Len(blocks) + 1
               block == NewBlock(blocks, ops, Apply(state, batch))
               decoded == GobDecoded(block)
    <3>1. /\ stored' = Append(stored, decoded)
          /\ blocks' = Append(blocks, block)
          /\ versions' = WithVersions(n, ops)
          /\ txCount' = txCount + Cardinality({ops[i].tx : i \in DOMAIN ops})
          /\ opCount' = opCount + Cardinality(DOMAIN ops)
          /\ up /\ up' = up
          /\ DOMAIN ops # {} /\ WellFormed(batch)
      BY <2>2 DEF Commit
    <3>2. BlockType(block) /\ BlockType(decoded) /\ block.ops = ops
      BY CommitBlock
    <3>3. batch \in Seq(Operation)
      OBVIOUS
    <3>4. \A i \in DOMAIN ops : ops[i] \in Operation
      BY <3>3, FilteredType
    <3>5. Same(decoded, block)
      BY <3>4, DecodedSame
    <3>6. /\ ChainType(blocks) /\ ChainType(stored) /\ SameChain(stored, blocks)
          /\ state = StateBefore(blocks, n)
      BY <3>1 DEF ChainInv, TypeOK, BookInv
    <3>7. NoOpBlock(state, block)
      <4>1. \A i \in DOMAIN batch : batch[i].key \in Key
        <5>1. \A i \in DOMAIN batch : batch[i] \in Operation
          BY <3>3
        <5>2. \A op \in Operation : op.key \in Key \cup {NoKey}
          BY DEF Operation
        <5>3. \A i \in DOMAIN batch : batch[i].key # NoKey
          BY <3>1 DEF WellFormed
        <5> QED
          BY <5>1, <5>2, <5>3
      <4>2. \A i \in DOMAIN ops : ~Suppressed(state, ops, i)
        BY <3>3, <4>1, SurvivorsSurvive
      <4> HIDE DEF ops, block
      <4> QED
        BY <3>1, <3>2, <4>2 DEF NoOpBlock
    <3> HIDE DEF ops, block, decoded
    <3>8. NoOpBlock(state, decoded)
      BY <3>2, <3>5, <3>7, SameNoOps DEF BlockType
    <3>9. NoOps(blocks')
      BY <3>1, <3>6, <3>7, AppendNoOps DEF BookInv
    <3>10. NoOps(stored')
      <4>1. Len(stored) = Len(blocks) /\ Len(stored) \in Nat
        BY <3>6, StateBeforeType DEF SameChain
      <4>2. n \in 1..(Len(stored) + 1)
        BY <4>1
      <4>3. StateBefore(stored, Len(stored) + 1) = state
        BY <3>6, <4>1, <4>2, SameMemory
      <4> QED
        BY <3>1, <3>6, <3>8, <4>3, AppendNoOps DEF BookInv
    <3>11. SameChain(stored', blocks')
      BY <3>1, <3>5, <3>6, AppendSame
    <3>12. versions' = VersionsOf(blocks')
      BY <3>1, <3>2, <3>6, CommitVersions DEF BookInv
    <3>13. /\ txCount' = Cardinality(TxsOf(blocks'))
           /\ opCount' = Cardinality(Position(blocks'))
      BY <3>1, <3>2, <3>6, CommitCounts DEF BookInv
    <3> QED
      BY <3>9, <3>10, <3>11, <3>12, <3>13 DEF BookInv
  <2>3. ASSUME NEW batch \in Seq(Operation), CommitRefused(batch) PROVE BookInv'
    BY <2>3 DEF CommitRefused, vars, BookInv
  <2>4. CASE Close
    <3>1. Position(<<>>) = {} /\ TxsOf(<<>>) = {} /\ NoOps(<<>>)
      BY DEF Position, TxsOf, NoOps
    <3>2. Cardinality({}) = 0
      BY FS_EmptySet
    <3> QED
      BY <2>4, <3>1, <3>2 DEF Close, BookInv
  <2>5. CASE UNCHANGED vars
    BY <2>5 DEF vars, BookInv
  <2> QED
    BY <2>1, <2>2, <2>3, <2>4, <2>5 DEF AnyNext
<1> QED
  BY <1>1, <1>2, AnyChain, PTL DEF AnySpec

(* BookInv is an invariant of the engine. *)
THEOREM BookInvariant == Spec => []BookInv
BY SomeCallers, AnyBook, PTL

(* NoOpFree: no block holds an operation that changed nothing. *)
THEOREM NoOpsSuppressed == Spec => []NoOpFree
<1>1. BookInv => NoOpFree
  BY DEF BookInv, NoOps, NoOpBlock, NoOpFree
<1> QED
  BY <1>1, BookInvariant, PTL

(* The two invariants say what Open would rebuild. *)
LEMMA SameAfterRestart == ChainInv /\ BookInv => RestartTransparent
<1> SUFFICES ASSUME ChainInv, BookInv, up PROVE RestartTransparent
  BY DEF RestartTransparent
<1>1. ChainType(stored) /\ ChainType(blocks) /\ SameChain(stored, blocks)
  BY DEF ChainInv, TypeOK, BookInv
<1>2. Len(stored) = Len(blocks) /\ Len(stored) \in Nat
  BY <1>1, StateBeforeType DEF SameChain
<1>3. Len(stored) + 1 \in 1..(Len(stored) + 1)
  BY <1>2
<1>4. StateBefore(stored, Len(stored) + 1) = StateBefore(blocks, Len(blocks) + 1)
  BY <1>1, <1>2, <1>3, SameMemory
<1>5. /\ Position(stored) = Position(blocks) /\ TxsOf(stored) = TxsOf(blocks)
      /\ VersionsOf(stored) = VersionsOf(blocks)
  BY <1>1, SameMemory
<1> QED
  BY <1>4, <1>5 DEF ChainInv, BookInv, RestartTransparent

(* RestartTransparent: the memory of a running engine is what Open would     *)
(* rebuild from the segments.                                                *)
THEOREM RestartsAreTransparent == Spec => []RestartTransparent
BY SameAfterRestart, ChainInvariant, BookInvariant, PTL

(* A non-empty part of a version list has a newest entry. *)
LEMMA NewestExists ==
  ASSUME NEW chain, ChainType(chain), NEW V, V \subseteq Position(chain), V # {}
  PROVE  Newest(V) \in V
<1>1. Len(chain) \in Nat /\ DOMAIN chain = 1..Len(chain)
  BY StateBeforeType
<1>2. \A p \in V : p = <<p[1], p[2]>> /\ p[1] \in DOMAIN chain /\ p[2] \in DOMAIN chain[p[1]].ops
  BY DEF Position
<1> DEFINE G == {p[1] : p \in V}
           m == Max(G)
<1>3. m \in G /\ \A g \in G : g <= m
  <2>1. G \subseteq Nat /\ G # {} /\ \A g \in G : g <= Len(chain)
    BY <1>1, <1>2
  <2> HIDE DEF G
  <2> QED
    BY <1>1, <2>1, GreatestNat
<1> HIDE DEF m
<1> DEFINE T == {p[2] : p \in {q \in V : q[1] = m}}
           last == Max(T)
<1>4. last \in T /\ (\A i \in T : i <= last) /\ T \subseteq Nat /\ m \in Nat
  <2>1. m \in DOMAIN chain /\ m \in Nat
    BY <1>1, <1>2, <1>3
  <2>2. BlockType(chain[m])
    BY <2>1 DEF ChainType
  <2>3. T \subseteq DOMAIN chain[m].ops /\ T # {}
    BY <1>2, <1>3
  <2> HIDE DEF T
  <2>4. PICK l \in DOMAIN chain[m].ops : \A i \in DOMAIN chain[m].ops : i <= l
    BY <2>2, <2>3 DEF BlockType
  <2>5. T \subseteq Nat /\ l \in Nat /\ \A i \in T : i <= l
    BY <2>2, <2>3, <2>4 DEF BlockType
  <2> QED
    BY <2>1, <2>3, <2>5, GreatestNat
<1> HIDE DEF last
<1>5. <<m, last>> \in V
  BY <1>2, <1>4
<1>6. ASSUME NEW q \in V PROVE q = <<m, last>> \/ Before(q, <<m, last>>)
  <2>1. q = <<q[1], q[2]>> /\ q[1] \in Nat /\ q[1] <= m
    BY <1>1, <1>2, <1>3
  <2>2. q[1] = m => q[2] \in T /\ q[2] \in Nat /\ last \in Nat /\ q[2] <= last
    BY <1>4
  <2> QED
    BY <1>4, <2>1, <2>2 DEF Before
<1> QED
  BY <1>5, <1>6 DEF Newest

(* GetAt reads the version lists as Answer does. *)
LEMMA GetAtAnswers ==
  ChainInv /\ BookInv => \A k \in Key, h \in Nat : GetAt(k, h) = Answer(blocks, k, h)
<1> SUFFICES ASSUME ChainInv, BookInv, NEW k \in Key, NEW h \in Nat
             PROVE  GetAt(k, h) = Answer(blocks, k, h)
  OBVIOUS
<1> DEFINE P == {q \in Position(blocks) : OpAt(blocks, q).key = k}
           V == Visible(blocks, k, h)
<1>1. versions[k] = [p \in P |-> [height |-> p[1], effect |-> Effect(OpAt(blocks, p))]]
  BY DEF BookInv, VersionsOf
<1>2. V = {p \in DOMAIN versions[k] : versions[k][p].height <= h}
  BY <1>1 DEF Visible
<1>3. CASE V = {}
  BY <1>2, <1>3 DEF GetAt, Answer
<1>4. CASE V # {}
  <2>0. Newest(V) \in V
    <3>1. V \subseteq Position(blocks) /\ ChainType(blocks)
      BY DEF Visible, ChainInv, TypeOK
    <3> HIDE DEF V
    <3> QED
      BY <1>4, <3>1, NewestExists
  <2>1. versions[k][Newest(V)].effect = Effect(OpAt(blocks, Newest(V)))
    BY <1>1, <1>2, <2>0
  <2> HIDE DEF V
  <2>2. GetAt(k, h) = versions[k][Newest(V)].effect
    BY <1>2, <1>4 DEF GetAt
  <2> QED
    BY <1>4, <2>1, <2>2 DEF Answer, V
<1> QED
  BY <1>3, <1>4

(* TimeTravel without its bound on the heights *)
ExactReads ==
  \A k \in Key, h \in Nat :
    GetAt(k, h) =
      StateBefore(blocks, (IF h < Len(blocks) THEN h ELSE Len(blocks)) + 1)[k]

(* Heights beyond the end of the chain see what its end sees. *)
LEMMA ExactAnywhere == ChainInv /\ BookInv => ExactReads
<1> SUFFICES ASSUME ChainInv, BookInv, NEW k \in Key, NEW h \in Nat
             PROVE  GetAt(k, h) =
                      StateBefore(blocks, (IF h < Len(blocks) THEN h ELSE Len(blocks)) + 1)[k]
  BY DEF ExactReads
<1> DEFINE n == Len(blocks)
           m == IF h < n THEN h ELSE n
<1>1. ChainType(blocks) /\ Accepts(blocks)
  BY DEF ChainInv, TypeOK
<1>2. n \in Nat /\ DOMAIN blocks = 1..n
  BY <1>1, StateBeforeType
<1>3. m \in 0..n /\ m \in Nat /\ \A g \in 1..n : g <= h <=> g <= m
  BY <1>2
<1> HIDE DEF m, n
<1>4. \A p \in Position(blocks) : p[1] \in 1..n
  BY <1>2 DEF Position
<1>5. Visible(blocks, k, h) = Visible(blocks, k, m)
  BY <1>3, <1>4 DEF Visible
<1>6. Answer(blocks, k, h) = Answer(blocks, k, m)
  BY <1>5 DEF Answer
<1>7. Answer(blocks, k, m) = StateBefore(blocks, m + 1)[k]
  BY <1>1, <1>3, AnswerExact DEF n
<1>8. GetAt(k, h) = Answer(blocks, k, h)
  BY GetAtAnswers
<1>9. GetAt(k, h) = StateBefore(blocks, m + 1)[k]
  BY <1>6, <1>7, <1>8
<1> QED
  BY <1>9 DEF m, n

(* TimeTravel: GetAt returns, for every key and height, the value the key    *)
(* had when the block of that height was the last one.                       *)
THEOREM GetAtIsExact == Spec => []TimeTravel
<1>1. ChainInv /\ BookInv => TimeTravel
  <2> SUFFICES ASSUME ChainInv, BookInv, NEW k \in Key, NEW h \in 0..MaxHeight + 1
               PROVE  GetAt(k, h) =
                        StateBefore(blocks, (IF h < Len(blocks) THEN h ELSE Len(blocks)) + 1)[k]
    BY DEF TimeTravel
  <2>1. h \in Nat
    BY MaxHeightType
  <2> QED
    BY <2>1, ExactAnywhere DEF ExactReads
<1> QED
  BY <1>1, ChainInvariant, BookInvariant, PTL

(* HistoryImmutable: a step of a running engine changes neither a block nor  *)
(* an answer of GetAt at a height the chain already had.                     *)
THEOREM PastIsImmutable == Spec => HistoryImmutable
<1> DEFINE Kept == up /\ up' =>
                     /\ \A h \in DOMAIN blocks : blocks'[h] = blocks[h]
                     /\ \A k \in Key, h \in 0..Len(blocks) : GetAt(k, h)' = GetAt(k, h)
<1>1. ExactReads /\ ExactReads' /\ ChainInv /\ [Next]_vars => [Kept]_vars
  <2> SUFFICES ASSUME ExactReads, ExactReads', ChainInv, Next, up, up' PROVE Kept
    BY DEF vars
  <2>1. ChainType(blocks)
    BY DEF ChainInv, TypeOK
  <2>2. Len(blocks) \in Nat /\ DOMAIN blocks = 1..Len(blocks)
    BY <2>1, StateBeforeType
  <2> DEFINE Extended == /\ Len(blocks') \in Nat /\ Len(blocks) <= Len(blocks')
                         /\ \A h \in DOMAIN blocks : blocks'[h] = blocks[h]
  <2>3. Extended
    <3>1. ASSUME NEW batch \in Batch, Commit(batch) PROVE Extended
      <4>1. PICK block : blocks' = Append(blocks, block)
        BY <3>1 DEF Commit
      <4> QED
        BY <2>1, <2>2, <4>1, AppendBlock DEF ChainType
    <3>2. ASSUME NEW batch \in Batch, CommitRefused(batch) PROVE Extended
      BY <2>2, <3>2 DEF CommitRefused, vars
    <3> QED
      BY <3>1, <3>2 DEF Next, Open, Close
  <2>4. ASSUME NEW k \in Key, NEW h \in 0..Len(blocks)
        PROVE  GetAt(k, h)' = GetAt(k, h)
    <3>1. h \in Nat /\ h <= Len(blocks) /\ h <= Len(blocks')
      BY <2>2, <2>3
    <3>2. GetAt(k, h) = StateBefore(blocks, h + 1)[k]
      BY <2>2, <3>1 DEF ExactReads
    <3>3. GetAt(k, h)' = StateBefore(blocks', h + 1)[k]
      BY <2>3, <3>1 DEF ExactReads
    <3>4. StateBefore(blocks', h + 1) = StateBefore(blocks, h + 1)
      BY <2>2, <2>3 DEF StateBefore
    <3> QED
      BY <3>2, <3>3, <3>4
  <2> QED
    BY <2>3, <2>4
<1>2. ChainInv /\ BookInv => ExactReads
  BY ExactAnywhere
<1> QED
  BY <1>1, <1>2, ChainInvariant, BookInvariant, PTL DEF Spec, HistoryImmutable

(* Without empty non-nil values gob gives back the very block Commit sealed. *)
LEMMA DecodedIdentical ==
  ASSUME NEW chain, NEW batch \in Batch, NEW s, NEW t,
         \A i \in DOMAIN batch : batch[i].value # Empty
  PROVE  LET b == NewBlock(chain, Filtered(s, batch), t) IN GobDecoded(b) = b
<1> DEFINE ops == Filtered(s, batch)
           b == NewBlock(chain, ops, t)
           decoded == [i \in DOMAIN ops |->
                        [ops[i] EXCEPT !.value = IF @ = Empty THEN Nil ELSE @]]
<1>1. \A i \in DOMAIN ops : ops[i] \in Operation /\ ops[i].value # Empty
  BY BatchType, FilteredType
<1>2. \A op \in Operation : [op EXCEPT !.value = op.value] = op
  BY DEF Operation
<1>3. ops = [i \in DOMAIN ops |-> ops[i]]
  BY DEF Filtered
<1>4. \A i \in DOMAIN ops : decoded[i] = ops[i]
  BY <1>1, <1>2
<1> HIDE DEF ops
<1>5. decoded = ops
  BY <1>3, <1>4
<1>6. b.ops = ops
  BY NewBlockFields
<1>7. GobDecoded(b) = [b EXCEPT !.ops = decoded]
  BY <1>6 DEF GobDecoded
<1>8. [b EXCEPT !.ops = ops] = b
  <2> DEFINE R(h) ==
        [height |-> Len(chain) + 1, prev |-> LastHash(chain), ops |-> ops,
         stateRoot |-> StateRoot(t),
         contractRoot |-> ContractAggregateRoot(t),
         accountRoot |-> PrefixRoot(t, Prefix["account/"]),
         codeRoot |-> PrefixRoot(t, Prefix["contract/code/"]),
         storageRoot |-> PrefixRoot(t, Prefix["contract-storage/"]),
         logRoot |-> PrefixRoot(t, Prefix["log/"]),
         zkRoot |-> PrefixRoot(t, Prefix["zk/"]),
         receiptRoot |-> PrefixRoot(t, Prefix["receipt/"]),
         schema |-> 4, hash |-> h]
  <2>1. b = R(HashBlock(R(NoHash)))
    BY DEF NewBlock, Sealed
  <2>2. \A h : [R(h) EXCEPT !.ops = ops] = R(h)
    OBVIOUS
  <2> HIDE DEF R, b
  <2> QED
    BY <2>1, <2>2
<1> QED
  BY <1>5, <1>7, <1>8 DEF ops

(* Reopenable: what Commit stored Open accepts, provided no operation        *)
(* carries an empty non-nil value and the legacy chains are accepted.        *)
(* Without the first proviso it is refuted: the nil that gob returns for     *)
(* such a value does not have the hash the block was sealed with.            *)
THEOREM StoredReopens ==
  ASSUME \A batch \in Batch : \A i \in DOMAIN batch : batch[i].value # Empty,
         \A chain \in Legacy : Accepts(chain)
  PROVE  Spec => []Reopenable
<1> DEFINE Identical == up => stored = blocks
<1>1. Init => Reopenable /\ Identical
  <2>1. Accepts(<<>>)
    BY DEF Accepts
  <2> QED
    BY <2>1 DEF Init, Reopenable
<1>2. ChainInv /\ ChainInv' /\ Reopenable /\ Identical /\ [Next]_vars
        => Reopenable' /\ Identical'
  <2> SUFFICES ASSUME ChainInv, ChainInv', Reopenable, Identical, [Next]_vars
               PROVE  Reopenable' /\ Identical'
    OBVIOUS
  <2>1. CASE Open
    BY <2>1 DEF Open, Loaded, Reopenable
  <2>2. ASSUME NEW batch \in Batch, Commit(batch) PROVE Reopenable' /\ Identical'
    <3> DEFINE block == NewBlock(blocks, Filtered(state, batch), Apply(state, batch))
    <3>1. /\ up /\ stored' = Append(stored, GobDecoded(block))
          /\ blocks' = Append(blocks, block)
      BY <2>2 DEF Commit
    <3>2. GobDecoded(block) = block
      BY DecodedIdentical
    <3> HIDE DEF block
    <3>3. stored' = blocks'
      BY <3>1, <3>2
    <3> QED
      BY <3>3 DEF ChainInv, Reopenable
  <2>3. ASSUME NEW batch \in Batch, CommitRefused(batch) PROVE Reopenable' /\ Identical'
    BY <2>3 DEF CommitRefused, vars, Reopenable
  <2>4. CASE Close
    BY <2>4 DEF Close, Reopenable
  <2>5. CASE UNCHANGED vars
    BY <2>5 DEF vars, Reopenable
  <2> QED
    BY <2>1, <2>2, <2>3, <2>4, <2>5 DEF Next
<1> QED
  BY <1>1, <1>2, ChainInvariant, PTL DEF Spec
-------------------------------------------------------------------------------
(* The loop of Commit *)

(* One turn of the loop *)
Turn(r, op, n) ==
  IF op.delete
  THEN IF r.next[op.key] = Absent THEN r
       ELSE [next |-> [r.next EXCEPT ![op.key] = Absent], kept |-> r.kept \cup {n}]
  ELSE IF r.next[op.key] = Content(op.value) THEN r
       ELSE [next |-> [r.next EXCEPT ![op.key] = Content(op.value)],
             kept |-> r.kept \cup {n}]

(* The states of the loop as Apply and Filtered describe them *)
Described(s, ops) ==
  [n \in 0..Len(ops) |->
     [next |-> [k \in Key |-> Outcome(s, ops, 1..n, k)],
      kept |-> {j \in 1..n : ~Suppressed(s, ops, j)}]]

(* A turn of the loop is what Suppressed and Outcome say of its operation. *)
LEMMA TurnDescribed ==
  ASSUME NEW s, NEW ops \in Seq(Operation), \A i \in DOMAIN ops : ops[i].key \in Key,
         NEW n \in DOMAIN ops
  PROVE  Described(s, ops)[n] = Turn(Described(s, ops)[n - 1], ops[n], n)
<1> DEFINE op == ops[n]
           N(m) == [k \in Key |-> Outcome(s, ops, 1..m, k)]
           K(m) == {j \in 1..m : ~Suppressed(s, ops, j)}
           r == [next |-> N(n - 1), kept |-> K(n - 1)]
<1>1. /\ Len(ops) \in Nat /\ DOMAIN ops = 1..Len(ops) /\ n \in Nat
      /\ n \in 0..Len(ops) /\ n - 1 \in 0..Len(ops) /\ n \in 1..n
  OBVIOUS
<1>2. op \in Operation /\ op.key \in Key
  OBVIOUS
<1>3. /\ Described(s, ops)[n] = [next |-> N(n), kept |-> K(n)]
      /\ Described(s, ops)[n - 1] = r
  BY <1>1 DEF Described
<1>4. Turn(r, op, n) = IF N(n - 1)[op.key] = Effect(op) THEN r
                       ELSE [next |-> [N(n - 1) EXCEPT ![op.key] = Effect(op)],
                             kept |-> K(n - 1) \cup {n}]
  <2> HIDE DEF N, K, op
  <2> QED
    BY DEF Turn, Effect
<1>5. N(n - 1)[op.key] = Current(s, ops, n)
  <2>1. {j \in DOMAIN ops : j < n} = 1..(n - 1)
    BY <1>1
  <2> QED
    BY <1>2, <2>1 DEF Current
<1>6. N(n)[op.key] = Effect(op)
  <2> DEFINE T == On(ops, op.key) \cap (1..n)
  <2>1. T \subseteq Nat /\ n \in T /\ \A y \in T : y <= n
    BY <1>1 DEF On
  <2>2. Max(T) = n
    <3> HIDE DEF T
    <3> QED
      BY <2>1, MaxIs
  <2>3. T # {}
    BY <2>1
  <2> QED
    BY <1>2, <2>2, <2>3 DEF Outcome
<1>7. ASSUME NEW k \in Key, k # op.key PROVE N(n)[k] = N(n - 1)[k]
  <2>1. On(ops, k) \cap (1..n) = On(ops, k) \cap (1..(n - 1))
    BY <1>1, <1>7 DEF On
  <2> QED
    BY <2>1 DEF Outcome
<1>8. \A j \in 1..n : j \in 1..(n - 1) \/ j = n
  BY <1>1
<1>9. \A j \in 1..(n - 1) : j \in 1..n /\ j # n
  BY <1>1
<1>10. N(n) = [k \in Key |-> N(n)[k]] /\ N(n - 1) = [k \in Key |-> N(n - 1)[k]]
  OBVIOUS
<1>11. CASE Suppressed(s, ops, n)
  <2>1. N(n - 1)[op.key] = Effect(op)
    BY <1>5, <1>11 DEF Suppressed
  <2>2. K(n) = K(n - 1)
    BY <1>8, <1>9, <1>11
  <2> HIDE DEF N, K
  <2>3. \A k \in Key : N(n)[k] = N(n - 1)[k]
    BY <1>6, <1>7, <2>1
  <2>4. N(n) = N(n - 1)
    BY <1>10, <2>3, Zenon
  <2> QED
    BY <1>3, <1>4, <2>1, <2>2, <2>4
<1>12. CASE ~Suppressed(s, ops, n)
  <2>1. N(n - 1)[op.key] # Effect(op)
    BY <1>5, <1>12 DEF Suppressed
  <2>2. K(n) = K(n - 1) \cup {n}
    BY <1>1, <1>8, <1>9, <1>12
  <2> HIDE DEF N, K
  <2>3. N(n) = [N(n - 1) EXCEPT ![op.key] = Effect(op)]
    <3> DEFINE M == [N(n - 1) EXCEPT ![op.key] = Effect(op)]
    <3>1. M = [k \in Key |-> IF k = op.key THEN Effect(op) ELSE N(n - 1)[k]]
      BY <1>2, <1>10
    <3>2. \A k \in Key : N(n)[k] = IF k = op.key THEN Effect(op) ELSE N(n - 1)[k]
      BY <1>6, <1>7
    <3> HIDE DEF M, op
    <3>3. N(n) = M
      BY <1>10, <3>1, <3>2
    <3> QED
      BY <3>3 DEF M
  <2> QED
    BY <1>3, <1>4, <2>1, <2>2, <2>3
<1> QED
  BY <1>11, <1>12

(* The loop's states are the ones described: induction over the positions. *)
LEMMA LoopDescribed ==
  ASSUME NEW s \in StateType, NEW ops \in Seq(Operation),
         \A i \in DOMAIN ops : ops[i].key \in Key
  PROVE  \A n \in 0..Len(ops) : LoopStates(s, ops)[n] = Described(s, ops)[n]
<1> DEFINE D == Described(s, ops)
           A == LoopStates(s, ops)
           F(f) == [n \in 0..Len(ops) |-> IF n = 0 THEN [next |-> s, kept |-> {}]
                                          ELSE Turn(f[n - 1], ops[n], n)]
<1>1. Len(ops) \in Nat /\ DOMAIN ops = 1..Len(ops)
  OBVIOUS
<1>2. D[0] = [next |-> s, kept |-> {}]
  <2>1. \A k \in Key : Outcome(s, ops, 1..0, k) = s[k]
    <3>1. \A k : On(ops, k) \cap (1..0) = {}
      OBVIOUS
    <3> QED
      BY <3>1 DEF Outcome
  <2>2. s = [k \in Key |-> s[k]]
    BY DEF StateType
  <2>3. [k \in Key |-> Outcome(s, ops, 1..0, k)] = s
    BY <2>1, <2>2, Zenon
  <2>4. {j \in 1..0 : ~Suppressed(s, ops, j)} = {}
    OBVIOUS
  <2>5. 0 \in 0..Len(ops)
    BY <1>1
  <2> QED
    BY <2>3, <2>4, <2>5 DEF Described
<1>3. \A n \in 1..Len(ops) : D[n] = Turn(D[n - 1], ops[n], n)
  BY <1>1, TurnDescribed
<1>4. D = F(D)
  <2>1. \A n \in 0..Len(ops) : D[n] = IF n = 0 THEN [next |-> s, kept |-> {}]
                                      ELSE Turn(D[n - 1], ops[n], n)
    BY <1>1, <1>2, <1>3
  <2>2. D = [n \in 0..Len(ops) |-> D[n]]
    BY DEF Described
  <2> HIDE DEF D
  <2> QED
    BY <2>1, <2>2, Zenon
<1>5. A = CHOOSE f : f = F(f)
  BY DEF LoopStates, Turn
<1> HIDE DEF A, D
<1>6. A = F(A)
  <2> HIDE DEF F
  <2> QED
    BY <1>4, <1>5, Zenon
<1> DEFINE W == {n \in 0..Len(ops) : A[n] # D[n]}
<1>7. ASSUME W # {} PROVE FALSE
  <2>1. W \subseteq Nat
    BY <1>1
  <2>2. PICK n \in W : \A m \in W : n <= m
    BY <1>7, <2>1, LeastNat
  <2>3. n \in 0..Len(ops) /\ A[n] # D[n] /\ n \in Nat
    BY <2>1
  <2>4. A[0] = [next |-> s, kept |-> {}]
    <3>1. 0 \in 0..Len(ops)
      BY <1>1
    <3> QED
      BY <1>6, <3>1
  <2>5. n # 0
    BY <1>2, <2>3, <2>4
  <2>6. n - 1 \in 0..Len(ops) /\ n \in 1..Len(ops) /\ ~(n <= n - 1)
    BY <2>3, <2>5
  <2>7. A[n - 1] = D[n - 1]
    BY <2>2, <2>6
  <2>8. A[n] = Turn(A[n - 1], ops[n], n)
    BY <1>6, <2>3, <2>5
  <2> QED
    BY <1>3, <2>3, <2>6, <2>7, <2>8
<1> QED
  BY <1>7 DEF A, D

(* LoopAgrees: the suppression and the state Commit is modelled with are     *)
(* what its loop over the operations computes, for every list of any length  *)
(* and from every state.                                                     *)
THEOREM LoopIsModelled ==
  ASSUME NEW s \in StateType, NEW ops \in Seq(Operation),
         \A i \in DOMAIN ops : ops[i].key \in Key
  PROVE  LoopAgrees(s, ops)
<1> DEFINE n == Len(ops)
<1>1. n \in Nat /\ DOMAIN ops = 1..n /\ n \in 0..n
  OBVIOUS
<1>2. LoopStates(s, ops)[n] = [next |-> [k \in Key |-> Outcome(s, ops, 1..n, k)],
                               kept |-> {j \in 1..n : ~Suppressed(s, ops, j)}]
  BY <1>1, LoopDescribed DEF Described
<1>3. Apply(s, ops) = [k \in Key |-> Outcome(s, ops, 1..n, k)]
  BY <1>1 DEF Apply
<1>4. DOMAIN Filtered(s, ops) = {j \in 1..n : ~Suppressed(s, ops, j)}
  BY <1>1 DEF Filtered
<1>5. Apply(s, Filtered(s, ops)) = Apply(s, ops)
  BY ReplayOfSurvivors
<1> QED
  BY <1>2, <1>3, <1>4, <1>5 DEF LoopAgrees

(* SuppressionMatchesLoop: wherever Commit may be called, what it is         *)
(* modelled to drop and to leave is what its loop drops and leaves.          *)
THEOREM SuppressionIsTheLoops == Spec => []SuppressionMatchesLoop
<1>1. TypeOK => SuppressionMatchesLoop
  <2> SUFFICES ASSUME TypeOK, NEW ops \in Batch, WellFormed(ops)
               PROVE  LoopAgrees(state, ops)
    BY DEF SuppressionMatchesLoop
  <2>1. state \in StateType /\ ops \in Seq(Operation)
    BY BatchType DEF TypeOK
  <2>2. ASSUME NEW i \in DOMAIN ops PROVE ops[i].key \in Key
    <3>1. ops[i] \in Operation /\ ops[i].key # NoKey
      BY <2>1 DEF WellFormed
    <3> QED
      BY <3>1 DEF Operation
  <2> QED
    BY <2>1, <2>2, LoopIsModelled
<1> QED
  BY <1>1, TypeCorrect, PTL
===============================================================================
