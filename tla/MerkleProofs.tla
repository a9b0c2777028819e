----------------------------- MODULE MerkleProofs -----------------------------
(*****************************************************************************)
(* Theorems about Merkle: for any set of keys and any set of values.         *)
(*****************************************************************************)
EXTENDS Merkle, FiniteSetTheorems, WellFoundedInduction, TLAPS

-------------------------------------------------------------------------------
(* Naturals, sequences and hashes *)

(* A set of naturals has a least member: how the proofs below argue by       *)
(* induction over the rounds of a loop.                                      *)
LEMMA LeastRound ==
  ASSUME NEW T, T \subseteq Nat, T # {}
  PROVE  \E x \in T : \A y \in T : x <= y
<1> DEFINE Less == OpToRel(<, Nat)
<1>1. IsWellFoundedOn(Less, Nat)
  BY NatLessThanWellFounded
<1>2. \A x, y \in Nat : y < x => <<y, x>> \in Less
  BY DEF OpToRel
<1> HIDE DEF Less
<1>3. PICK x \in T : \A y \in T : ~(<<y, x>> \in Less)
  BY <1>1, WFMin
<1>4. ASSUME NEW y \in T PROVE x <= y
  <2>1. x \in Nat /\ y \in Nat /\ ~(y < x)
    BY <1>2, <1>3
  <2> QED
    BY <2>1
<1> QED
  BY <1>4

(* A sequence, whatever its elements *)
IsSeq(l) == Len(l) \in Nat /\ l = [i \in 1..Len(l) |-> l[i]]

(* The length of a function over 1..n is n. *)
LEMMA LengthOf ==
  ASSUME NEW n \in Nat, NEW f, f = [i \in 1..n |-> f[i]]
  PROVE  Len(f) = n /\ IsSeq(f)
<1> DEFINE S == {f[i] : i \in 1..n}
<1>1. f \in [1..n -> S]
  OBVIOUS
<1>2. f \in Seq(S)
  BY <1>1
<1>3. DOMAIN f = 1..n /\ DOMAIN f = 1..Len(f) /\ Len(f) \in Nat
  BY <1>1, <1>2
<1>4. Len(f) = n
  BY <1>3
<1> QED
  BY <1>4 DEF IsSeq

(* Two sequences of the same length and elements are equal. *)
LEMMA SameSeq ==
  ASSUME NEW a, NEW b, IsSeq(a), IsSeq(b), Len(a) = Len(b), \A i \in 1..Len(a) : a[i] = b[i]
  PROVE  a = b
<1>1. a = [i \in 1..Len(a) |-> a[i]] /\ b = [i \in 1..Len(a) |-> b[i]]
  BY DEF IsSeq
<1> QED
  BY <1>1, Zenon

(* SHA-256 as a free constructor: what differs in length is hashed apart.    *)
LEMMA HashesDiffer ==
  /\ \A b, c : Hash(b) = Hash(c) => b = c
  /\ \A l, r, l2, r2 : NodeHash(l, r) = NodeHash(l2, r2) => l = l2 /\ r = r2
  /\ \A l, r : NodeHash(l, r) # EmptyHash
<1>1. \A b, c : Hash(b) = Hash(c) => b = c
  BY DEF Hash
<1>2. \A l, r, l2, r2 : <<64, <<l, r>>>> = <<64, <<l2, r2>>>> => l = l2 /\ r = r2
  OBVIOUS
<1>3. \A l, r : <<64, <<l, r>>>>[1] = 64 /\ <<0, <<>>>>[1] = 0
  OBVIOUS
<1>4. \A l, r : <<64, <<l, r>>>> # <<0, <<>>>>
  BY <1>3
<1> QED
  BY <1>1, <1>2, <1>4 DEF NodeHash, NodeBytes, EmptyHash

(* Plain entries are hashed apart from each other, from nodes and from nothing. *)
LEMMA LeavesDiffer ==
  ASSUME NEW k \in Key, NEW v \in Value, PlainEntry(k, v)
  PROVE  /\ \A k2 \in Key, v2 \in Value :
              PlainEntry(k2, v2) /\ LeafHash(k, v) = LeafHash(k2, v2) => k = k2 /\ v = v2
         /\ \A l, r : LeafHash(k, v) # NodeHash(l, r)
         /\ LeafHash(k, v) # EmptyHash
<1> DEFINE b == EntryBytes[<<k, v>>]
<1>1. b[1] \in Nat \ {0} /\ b[1] # 64 /\ LeafHash(k, v) = Hash(b)
  BY EntryAssumption DEF PlainEntry, LeafHash
<1>2. ASSUME NEW k2 \in Key, NEW v2 \in Value, PlainEntry(k2, v2), LeafHash(k, v) = LeafHash(k2, v2)
      PROVE  k = k2 /\ v = v2
  <2>1. EntryBytes[<<k, v>>] = EntryBytes[<<k2, v2>>]
    BY <1>2, HashesDiffer DEF LeafHash
  <2>2. k \in Key \ NulKey /\ k2 \in Key \ NulKey
    BY <1>2 DEF PlainEntry
  <2> QED
    BY <2>1, <2>2, EntryAssumption
<1> HIDE DEF b
<1>3. ASSUME NEW l, NEW r, LeafHash(k, v) = NodeHash(l, r) PROVE FALSE
  <2>1. b = <<64, <<l, r>>>>
    <3>1. Hash(b) = Hash(NodeBytes(l, r))
      BY <1>1, <1>3 DEF NodeHash
    <3>2. b = NodeBytes(l, r)
      BY <3>1, HashesDiffer, Zenon
    <3> QED
      BY <3>2 DEF NodeBytes
  <2>2. b[1] = 64
    BY <2>1
  <2> QED
    BY <2>2, <1>1
<1>4. ASSUME LeafHash(k, v) = EmptyHash PROVE FALSE
  <2>1. b = <<0, <<>>>>
    BY <1>1, <1>4, HashesDiffer DEF EmptyHash
  <2>2. b[1] = 0
    BY <2>1
  <2> QED
    BY <2>2, <1>1
<1> QED
  BY <1>2, <1>3, <1>4

IsNode(h) == \E l, r : h = NodeHash(l, r)
IsLeaf(h) == \E k \in Key, v \in Value : PlainEntry(k, v) /\ h = LeafHash(k, v)

(* No hash is of two of these kinds. *)
LEMMA KindsDiffer ==
  ASSUME NEW h
  PROVE  /\ IsNode(h) => ~IsLeaf(h)
         /\ IsNode(h) \/ IsLeaf(h) => h # EmptyHash
BY HashesDiffer, LeavesDiffer DEF IsNode, IsLeaf

-------------------------------------------------------------------------------
(* The levels of a tree *)

(* NextLevel halves a level, rounding up, and hashes neighbours. *)
LEMMA NextLevelIs ==
  ASSUME NEW l, IsSeq(l)
  PROVE  /\ IsSeq(NextLevel(l))
         /\ Len(NextLevel(l)) = (Len(l) + 1) \div 2
         /\ \A i \in 1..((Len(l) + 1) \div 2) :
              NextLevel(l)[i] = NodeHash(l[2*i - 1],
                                         IF 2*i <= Len(l) THEN l[2*i] ELSE l[2*i - 1])
<1> DEFINE n == (Len(l) + 1) \div 2
           up == NextLevel(l)
<1>1. Len(l) \in Nat /\ n \in Nat
  BY DEF IsSeq
<1>2. up = [i \in 1..n |-> up[i]]
  BY DEF NextLevel
<1>3. Len(up) = n /\ IsSeq(up)
  <2> HIDE DEF n, up
  <2> QED
    BY <1>1, <1>2, LengthOf
<1> QED
  BY <1>3 DEF NextLevel

(* Levels is the function its recursion describes: one that solves it up to  *)
(* some round solves it up to the next, so one exists, and Levels is it.     *)
LEMMA LevelsAre ==
  ASSUME NEW leaves, IsSeq(leaves)
  PROVE  /\ Levels(leaves)[0] = leaves
         /\ \A n \in 1..Len(leaves) : Levels(leaves)[n] = NextLevel(Levels(leaves)[n - 1])
<1> DEFINE N == Len(leaves)
           Sol(f, m) == f = [n \in 0..m |-> IF n = 0 THEN leaves ELSE NextLevel(f[n - 1])]
           T == {m \in Nat : ~\E f : Sol(f, m)}
<1>1. N \in Nat
  BY DEF IsSeq
<1>2. T = {}
  <2> SUFFICES ASSUME T # {} PROVE FALSE
    OBVIOUS
  <2>1. PICK m \in T : \A y \in T : m <= y
    <3>1. T \subseteq Nat
      OBVIOUS
    <3> HIDE DEF T
    <3> QED
      BY <3>1, LeastRound
  <2>2. CASE m = 0
    <3> DEFINE f == [n \in 0..0 |-> leaves]
    <3>1. Sol(f, 0)
      OBVIOUS
    <3> QED
      BY <3>1, <2>1, <2>2
  <2>3. CASE m # 0
    <3>0. m \in Nat /\ m - 1 \in Nat /\ ~(m <= m - 1)
      <4>1. m \in Nat
        BY <2>1
      <4> QED
        BY <4>1, <2>3
    <3>1. m \in Nat /\ m - 1 \in Nat /\ m - 1 \notin T
      <4> HIDE DEF T
      <4> QED
        BY <3>0, <2>1
    <3>2. PICK f : Sol(f, m - 1)
      BY <3>1
    <3> DEFINE g == [n \in 0..m |-> IF n = m THEN NextLevel(f[m - 1]) ELSE f[n]]
               h == [n \in 0..m |-> IF n = 0 THEN leaves ELSE NextLevel(g[n - 1])]
    <3>3. \A n \in 0..(m - 1) : f[n] = IF n = 0 THEN leaves ELSE NextLevel(f[n - 1])
      BY <3>2
    <3>4. \A n \in 0..m : g[n] = h[n]
      <4> TAKE n \in 0..m
      <4>1. CASE n = m
        BY <4>1, <3>1, <2>3
      <4>2. CASE n # m /\ n = 0
        BY <4>2, <3>1, <3>3
      <4>3. CASE n # m /\ n # 0
        <5>1. n \in 0..(m - 1) /\ n - 1 \in 0..m /\ n - 1 # m
          BY <4>3, <3>1
        <5>2. g[n] = f[n] /\ g[n - 1] = f[n - 1] /\ h[n] = NextLevel(g[n - 1])
          BY <5>1, <4>3
        <5> QED
          BY <5>1, <5>2, <3>3, <4>3
      <4> QED
        BY <4>1, <4>2, <4>3
    <3>5. g = [n \in 0..m |-> g[n]] /\ h = [n \in 0..m |-> h[n]]
      OBVIOUS
    <3>6. g = h
      <4> HIDE DEF g, h
      <4> QED
        BY <3>4, <3>5, Zenon
    <3>7. Sol(g, m)
      BY <3>6
    <3> QED
      BY <3>7, <2>1
  <2> QED
    BY <2>2, <2>3
<1>3. \E f : Sol(f, N)
  BY <1>1, <1>2
<1>4. Levels(leaves) = CHOOSE f : Sol(f, N)
  BY DEF Levels
<1> DEFINE L == Levels(leaves)
<1>5. Sol(L, N)
  <2> HIDE DEF Sol
  <2> QED
    BY <1>3, <1>4, Zenon
<1> HIDE DEF L
<1> QED
  BY <1>1, <1>5 DEF L

(* Every level is a sequence. *)
LEMMA LevelsAreSeqs ==
  ASSUME NEW leaves, IsSeq(leaves)
  PROVE  \A n \in 0..Len(leaves) : IsSeq(Levels(leaves)[n])
<1> DEFINE L == Levels(leaves)
           T == {n \in 0..Len(leaves) : ~IsSeq(L[n])}
<1> SUFFICES ASSUME T # {} PROVE FALSE
  OBVIOUS
<1>1. L[0] = leaves /\ \A n \in 1..Len(leaves) : L[n] = NextLevel(L[n - 1])
  BY LevelsAre
<1>2. Len(leaves) \in Nat
  BY DEF IsSeq
<1>3. PICK n \in T : \A m \in T : n <= m
  <2>1. T \subseteq Nat
    BY <1>2
  <2> HIDE DEF T
  <2> QED
    BY <2>1, LeastRound
<1>4. n \in 1..Len(leaves) /\ n - 1 \in 0..Len(leaves) /\ ~(n <= n - 1)
  BY <1>1, <1>2
<1>5. IsSeq(L[n - 1])
  BY <1>3, <1>4
<1>6. IsSeq(L[n])
  BY <1>1, <1>4, <1>5, NextLevelIs
<1> QED
  BY <1>6

(* A level above the leaves holds nodes. *)
LEMMA UpperLevelsAreNodes ==
  ASSUME NEW leaves, IsSeq(leaves), NEW n \in 1..Len(leaves),
         NEW i \in 1..Len(Levels(leaves)[n])
  PROVE  IsNode(Levels(leaves)[n][i])
<1> DEFINE below == Levels(leaves)[n - 1]
<1>1. Len(leaves) \in Nat
  BY DEF IsSeq
<1>2. n - 1 \in 0..Len(leaves) /\ Levels(leaves)[n] = NextLevel(below)
  BY <1>1, LevelsAre
<1>3. IsSeq(below)
  BY <1>2, LevelsAreSeqs
<1> HIDE DEF below
<1>4. i \in 1..((Len(below) + 1) \div 2)
  BY <1>2, <1>3, NextLevelIs
<1>5. Levels(leaves)[n][i] = NodeHash(below[2*i - 1],
                                      IF 2*i <= Len(below) THEN below[2*i] ELSE below[2*i - 1])
  BY <1>2, <1>3, <1>4, NextLevelIs
<1> QED
  BY <1>5, Zenon DEF IsNode

(* Every round shortens a level of more than one hash, so the loop ends.     *)
LEMMA LevelsShrink ==
  ASSUME NEW leaves, IsSeq(leaves), Len(leaves) > 0
  PROVE  \A n \in 0..Len(leaves) :
           LET len == Len(Levels(leaves)[n])
           IN  len \in Nat /\ len > 0 /\ (len + n <= Len(leaves) \/ len = 1)
<1> DEFINE L == Levels(leaves)
           N == Len(leaves)
           Short(n) == Len(L[n]) \in Nat /\ Len(L[n]) > 0 /\ (Len(L[n]) + n <= N \/ Len(L[n]) = 1)
           T == {n \in 0..N : ~Short(n)}
<1> SUFFICES ASSUME T # {} PROVE FALSE
  OBVIOUS
<1>1. L[0] = leaves /\ \A n \in 1..N : L[n] = NextLevel(L[n - 1])
  BY LevelsAre
<1>2. N \in Nat
  BY DEF IsSeq
<1>3. PICK n \in T : \A m \in T : n <= m
  <2>1. T \subseteq Nat
    BY <1>2
  <2> HIDE DEF T
  <2> QED
    BY <2>1, LeastRound
<1>4. n \in 1..N /\ n - 1 \in 0..N /\ ~(n <= n - 1)
  BY <1>1, <1>2
<1>5. Short(n - 1)
  BY <1>3, <1>4
<1>6. IsSeq(L[n - 1])
  BY <1>4, LevelsAreSeqs
<1>7. Len(L[n]) = (Len(L[n - 1]) + 1) \div 2
  BY <1>1, <1>4, <1>6, NextLevelIs
<1> DEFINE a == Len(L[n - 1])
           b == Len(L[n])
<1>8. a \in Nat /\ a > 0 /\ (a + (n - 1) <= N \/ a = 1) /\ b = (a + 1) \div 2
  BY <1>5, <1>7
<1>9. b \in Nat /\ b > 0 /\ (b + n <= N \/ b = 1)
  <2> HIDE DEF a, b, L, N, T
  <2> QED
    BY <1>8, <1>2, <1>4
<1> QED
  BY <1>9

(* Height is the round in which the loop ends. *)
LEMMA HeightIs ==
  ASSUME NEW leaves, IsSeq(leaves), Len(leaves) > 0
  PROVE  /\ Height(leaves) \in 0..Len(leaves)
         /\ Len(Levels(leaves)[Height(leaves)]) = 1
         /\ \A m \in 0..(Height(leaves) - 1) : Len(Levels(leaves)[m]) > 1
<1> DEFINE L == Levels(leaves)
           N == Len(leaves)
           T == {n \in 0..N : Len(L[n]) = 1}
           Ends(n) == Len(L[n]) = 1 /\ \A m \in 0..(n - 1) : Len(L[m]) > 1
<1>1. N \in Nat
  BY DEF IsSeq
<1>2. \A n \in 0..N : Len(L[n]) \in Nat /\ Len(L[n]) > 0 /\ (Len(L[n]) + n <= N \/ Len(L[n]) = 1)
  BY LevelsShrink
<1> HIDE DEF L, N
<1>3. N \in T
  BY <1>1, <1>2
<1>4. PICK n \in T : \A m \in T : n <= m
  <2>1. T \subseteq Nat /\ T # {}
    BY <1>1, <1>3
  <2> HIDE DEF T
  <2> QED
    BY <2>1, LeastRound
<1>5. ASSUME NEW m \in 0..(n - 1) PROVE Len(L[m]) > 1
  <2>1. m \in 0..N /\ ~(n <= m)
    BY <1>1, <1>4
  <2>2. Len(L[m]) # 1
    <3>1. m \notin T
      <4> HIDE DEF T
      <4> QED
        BY <2>1, <1>4
    <3> QED
      BY <3>1, <2>1
  <2> DEFINE x == Len(L[m])
  <2>3. x \in Nat /\ x > 0
    BY <2>1, <1>2
  <2> HIDE DEF x, T
  <2>4. x # 1
    BY <2>2 DEF x
  <2>5. x > 1
    BY <2>3, <2>4
  <2> QED
    BY <2>5 DEF x
<1>6. n \in 0..N /\ Ends(n)
  BY <1>4, <1>5
<1>7. Height(leaves) = CHOOSE x \in 0..N : Ends(x)
  BY DEF Height, L, N
<1>8. Height(leaves) \in 0..N /\ Ends(Height(leaves))
  <2> HIDE DEF Ends
  <2> QED
    BY <1>6, <1>7, Zenon
<1> QED
  BY <1>8 DEF L, N

-------------------------------------------------------------------------------
(* Two trees *)

Distinct(l) == \A i, j \in 1..Len(l) : l[i] = l[j] => i = j

(* Levels of distinct hashes: so is the next one up. *)
LEMMA NextLevelDistinct ==
  ASSUME NEW l, IsSeq(l), Distinct(l)
  PROVE  Distinct(NextLevel(l))
<1> DEFINE up == NextLevel(l)
           n == (Len(l) + 1) \div 2
<1>1. Len(l) \in Nat
  BY DEF IsSeq
<1>2. Len(up) = n /\ \A i \in 1..n : up[i] = NodeHash(l[2*i - 1], IF 2*i <= Len(l) THEN l[2*i] ELSE l[2*i - 1])
  BY NextLevelIs
<1> SUFFICES ASSUME NEW i \in 1..n, NEW j \in 1..n, up[i] = up[j] PROVE i = j
  BY <1>2 DEF Distinct
<1>3. l[2*i - 1] = l[2*j - 1]
  <2> HIDE DEF up, n
  <2> QED
    BY <1>2, HashesDiffer
<1>4. 2*i - 1 \in 1..Len(l) /\ 2*j - 1 \in 1..Len(l)
  BY <1>1
<1>5. 2*i - 1 = 2*j - 1
  BY <1>3, <1>4 DEF Distinct
<1> QED
  BY <1>1, <1>5

(* All levels over distinct leaves have distinct hashes. *)
LEMMA LevelsDistinct ==
  ASSUME NEW leaves, IsSeq(leaves), Distinct(leaves)
  PROVE  \A n \in 0..Len(leaves) : Distinct(Levels(leaves)[n])
<1> DEFINE L == Levels(leaves)
           T == {n \in 0..Len(leaves) : ~Distinct(L[n])}
<1> SUFFICES ASSUME T # {} PROVE FALSE
  OBVIOUS
<1>1. L[0] = leaves /\ \A n \in 1..Len(leaves) : L[n] = NextLevel(L[n - 1])
  BY LevelsAre
<1>2. Len(leaves) \in Nat
  BY DEF IsSeq
<1>3. PICK n \in T : \A m \in T : n <= m
  <2>1. T \subseteq Nat
    BY <1>2
  <2> HIDE DEF T
  <2> QED
    BY <2>1, LeastRound
<1>4. n \in 1..Len(leaves) /\ n - 1 \in 0..Len(leaves) /\ ~(n <= n - 1)
  BY <1>1, <1>2
<1>5. Distinct(L[n - 1]) /\ IsSeq(L[n - 1])
  BY <1>3, <1>4, LevelsAreSeqs
<1>6. Distinct(L[n])
  BY <1>1, <1>4, <1>5, NextLevelDistinct
<1> QED
  BY <1>6

(* A level of distinct hashes can be read off the next one up: a hash paired *)
(* with itself can only be an odd one out.                                   *)
LEMMA NextLevelInjective ==
  ASSUME NEW a, NEW b, IsSeq(a), IsSeq(b), Distinct(a), Distinct(b), NextLevel(a) = NextLevel(b)
  PROVE  a = b
<1> DEFINE m == Len(a)
           n == Len(b)
           h == (m + 1) \div 2
<1>1. m \in Nat /\ n \in Nat
  BY DEF IsSeq
<1>2. h = (n + 1) \div 2 /\ \A i \in 1..h :
        /\ NextLevel(a)[i] = NodeHash(a[2*i - 1], IF 2*i <= m THEN a[2*i] ELSE a[2*i - 1])
        /\ NextLevel(b)[i] = NodeHash(b[2*i - 1], IF 2*i <= n THEN b[2*i] ELSE b[2*i - 1])
  BY NextLevelIs
<1>3. ASSUME NEW i \in 1..h
      PROVE  /\ a[2*i - 1] = b[2*i - 1]
             /\ (IF 2*i <= m THEN a[2*i] ELSE a[2*i - 1]) = (IF 2*i <= n THEN b[2*i] ELSE b[2*i - 1])
  <2> HIDE DEF m, n, h
  <2> QED
    BY <1>2, HashesDiffer
<1>4. m = n
  <2>1. CASE m < n
    <3>1. h \in 1..h /\ 2*h - 1 = m /\ 2*h = n
      <4> HIDE DEF m, n
      <4> QED
        BY <1>1, <1>2, <2>1
    <3>2. a[m] = b[m] /\ a[m] = b[n]
      <4>1. 2*h <= n /\ ~(2*h <= m)
        BY <3>1, <2>1, <1>1
      <4>2. /\ a[2*h - 1] = b[2*h - 1]
            /\ (IF 2*h <= m THEN a[2*h] ELSE a[2*h - 1]) = (IF 2*h <= n THEN b[2*h] ELSE b[2*h - 1])
        BY <3>1, <1>3
      <4> HIDE DEF m, n, h
      <4> QED
        BY <4>1, <4>2, <3>1
    <3>3. m \in 1..n /\ n \in 1..n /\ m # n
      BY <3>1, <2>1, <1>1
    <3> QED
      BY <3>2, <3>3 DEF Distinct
  <2>2. CASE n < m
    <3>1. h \in 1..h /\ 2*h - 1 = n /\ 2*h = m
      <4> HIDE DEF m, n
      <4> QED
        BY <1>1, <1>2, <2>2
    <3>2. a[n] = b[n] /\ a[m] = b[n]
      <4>1. 2*h <= m /\ ~(2*h <= n)
        BY <3>1, <2>2, <1>1
      <4>2. /\ a[2*h - 1] = b[2*h - 1]
            /\ (IF 2*h <= m THEN a[2*h] ELSE a[2*h - 1]) = (IF 2*h <= n THEN b[2*h] ELSE b[2*h - 1])
        BY <3>1, <1>3
      <4> HIDE DEF m, n, h
      <4> QED
        BY <4>1, <4>2, <3>1
    <3>3. m \in 1..m /\ n \in 1..m /\ m # n
      BY <3>1, <2>2, <1>1
    <3> QED
      BY <3>2, <3>3 DEF Distinct
  <2> QED
    BY <2>1, <2>2, <1>1
<1>5. ASSUME NEW i \in 1..m PROVE a[i] = b[i]
  <2> DEFINE p == (i + 1) \div 2
  <2>1. p \in 1..h /\ (i = 2*p - 1 \/ (i = 2*p /\ 2*p <= m /\ 2*p <= n))
    BY <1>1, <1>4
  <2> HIDE DEF p, h, m, n
  <2>2. CASE i = 2*p - 1
    BY <2>1, <2>2, <1>3
  <2>3. CASE i = 2*p /\ 2*p <= m /\ 2*p <= n
    BY <2>1, <2>3, <1>3
  <2> QED
    BY <2>1, <2>2, <2>3
<1> QED
  BY <1>4, <1>5, SameSeq

(* The root is a leaf's hash or a node's. *)
LEMMA RootIs ==
  ASSUME NEW leaves, IsSeq(leaves), Len(leaves) > 0, \A i \in 1..Len(leaves) : IsLeaf(leaves[i])
  PROVE  /\ Root(leaves) = Levels(leaves)[Height(leaves)][1]
         /\ Root(leaves) # EmptyHash
<1> DEFINE L == Levels(leaves)
           H == Height(leaves)
<1>1. Len(leaves) \in Nat /\ leaves # <<>>
  BY DEF IsSeq
<1>2. Root(leaves) = L[H][1]
  BY <1>1 DEF Root
<1>3. H \in 0..Len(leaves) /\ Len(L[H]) = 1
  BY HeightIs
<1>4. CASE H = 0
  <2>1. L[H] = leaves
    BY <1>4, LevelsAre
  <2>2. IsLeaf(L[H][1])
    BY <2>1, <1>3
  <2> QED
    BY <2>2, <1>2, KindsDiffer
<1>5. CASE H # 0
  <2>1. H \in 1..Len(leaves) /\ 1 \in 1..Len(L[H])
    BY <1>3, <1>1, <1>5
  <2>2. IsNode(L[H][1])
    BY <2>1, UpperLevelsAreNodes
  <2> QED
    BY <2>2, <1>2, KindsDiffer
<1> QED
  BY <1>4, <1>5

(* Equal roots have equal trees: level for level from the root down they are *)
(* the same, and they end together because leaves are no nodes.              *)
LEMMA RootDeterminesLeaves ==
  ASSUME NEW a, NEW b, IsSeq(a), IsSeq(b), Len(a) > 0, Len(b) > 0, Distinct(a), Distinct(b),
         \A i \in 1..Len(a) : IsLeaf(a[i]), \A i \in 1..Len(b) : IsLeaf(b[i]),
         Root(a) = Root(b)
  PROVE  a = b
<1> DEFINE A == Levels(a)
           B == Levels(b)
           g == Height(a)
           h == Height(b)
           T == {d \in Nat : d <= g /\ d <= h /\ A[g - d] # B[h - d]}
<1>1. Len(a) \in Nat /\ Len(b) \in Nat
  BY DEF IsSeq
<1>2. g \in 0..Len(a) /\ h \in 0..Len(b) /\ Len(A[g]) = 1 /\ Len(B[h]) = 1
  BY HeightIs
<1>3. \A n \in 0..Len(a) : IsSeq(A[n]) /\ Distinct(A[n])
  BY LevelsAreSeqs, LevelsDistinct
<1>4. \A n \in 0..Len(b) : IsSeq(B[n]) /\ Distinct(B[n])
  BY LevelsAreSeqs, LevelsDistinct
<1>5. A[0] = a /\ \A n \in 1..Len(a) : A[n] = NextLevel(A[n - 1])
  BY LevelsAre
<1>6. B[0] = b /\ \A n \in 1..Len(b) : B[n] = NextLevel(B[n - 1])
  BY LevelsAre
<1>7. A[g][1] = B[h][1]
  BY RootIs
<1>8. \A n \in 1..Len(a) : \A i \in 1..Len(A[n]) : IsNode(A[n][i])
  BY UpperLevelsAreNodes
<1>9. \A n \in 1..Len(b) : \A i \in 1..Len(B[n]) : IsNode(B[n][i])
  BY UpperLevelsAreNodes
<1> HIDE DEF A, B, g, h
<1>10. A[g] = B[h]
  BY <1>2, <1>3, <1>4, <1>7, SameSeq
<1>11. T = {}
  <2> SUFFICES ASSUME T # {} PROVE FALSE
    OBVIOUS
  <2>1. PICK d \in T : \A e \in T : d <= e
    <3>1. T \subseteq Nat
      OBVIOUS
    <3> HIDE DEF T
    <3> QED
      BY <3>1, LeastRound
  <2>2. d \in Nat /\ d <= g /\ d <= h /\ A[g - d] # B[h - d]
    BY <2>1
  <2>3. d # 0
    BY <2>2, <1>2, <1>10
  <2>4. d - 1 \in Nat /\ d - 1 <= g /\ d - 1 <= h /\ ~(d <= d - 1)
    BY <2>2, <2>3, <1>2
  <2>5. d - 1 \notin T
    <3> HIDE DEF T
    <3> QED
      BY <2>1, <2>4
  <2>6. A[g - (d - 1)] = B[h - (d - 1)]
    BY <2>4, <2>5
  <2> HIDE DEF T
  <2> DEFINE x == g - d
             y == h - d
  <2>7. x \in 0..Len(a) /\ x + 1 \in 1..Len(a) /\ y \in 0..Len(b) /\ y + 1 \in 1..Len(b)
    BY <2>2, <2>3, <1>1, <1>2
  <2>8. A[x + 1] = B[y + 1]
    <3>1. x + 1 = g - (d - 1) /\ y + 1 = h - (d - 1)
      BY <2>2, <1>2
    <3> QED
      BY <3>1, <2>6
  <2>9. A[x + 1] = NextLevel(A[x]) /\ B[y + 1] = NextLevel(B[y])
    <3>1. (x + 1) - 1 = x /\ (y + 1) - 1 = y
      BY <2>2, <1>2
    <3> HIDE DEF x, y
    <3> QED
      BY <3>1, <2>7, <1>5, <1>6
  <2> HIDE DEF x, y
  <2>10. A[x] = B[y]
    BY <2>7, <2>8, <2>9, <1>3, <1>4, NextLevelInjective
  <2> QED
    BY <2>2, <2>10 DEF x, y
<1>12. CASE g = h
  <2>1. g \notin T
    BY <1>11
  <2>2. A[g - g] = B[h - g]
    BY <2>1, <1>2, <1>12
  <2> QED
    BY <2>2, <1>2, <1>5, <1>6, <1>12
<1>13. CASE g < h
  <2>1. g \notin T
    BY <1>11
  <2>2. A[g - g] = B[h - g]
    BY <2>1, <1>2, <1>13
  <2>3. A[0] = B[h - g] /\ h - g \in 1..Len(b) /\ 1 \in 1..Len(a)
    BY <2>2, <1>1, <1>2, <1>13
  <2>4. a = B[h - g]
    BY <2>3, <1>5
  <2>5. IsNode(a[1]) /\ IsLeaf(a[1])
    BY <2>3, <2>4, <1>9
  <2> QED
    BY <2>5, KindsDiffer
<1>14. CASE h < g
  <2>1. h \notin T
    BY <1>11
  <2>2. A[g - h] = B[h - h]
    BY <2>1, <1>2, <1>14
  <2>3. B[0] = A[g - h] /\ g - h \in 1..Len(a) /\ 1 \in 1..Len(b)
    BY <2>2, <1>1, <1>2, <1>14
  <2>4. b = A[g - h]
    BY <2>3, <1>6
  <2>5. IsNode(b[1]) /\ IsLeaf(b[1])
    BY <2>3, <2>4, <1>8
  <2> QED
    BY <2>5, KindsDiffer
<1> QED
  BY <1>2, <1>12, <1>13, <1>14

-------------------------------------------------------------------------------
(* The sorted keys *)

(* The keys in the map are the entries of SortedKeys, each at the position   *)
(* that Before gives: no two have as many before them, so every position has *)
(* its key.                                                                  *)
LEMMA BeforeIs ==
  ASSUME NEW here, here \subseteq Nat, IsFiniteSet(here)
  PROVE  /\ Cardinality(here) \in Nat
         /\ \A k \in here : Before(here, k) \in 0..(Cardinality(here) - 1)
         /\ \A j, k \in here : Before(here, j) = Before(here, k) => j = k
         /\ \A n \in 0..(Cardinality(here) - 1) : \E k \in here : Before(here, k) = n
<1> DEFINE N == Cardinality(here)
           Less(k) == {j \in here : j < k}
           f == [k \in here |-> Before(here, k)]
<1>1. N \in Nat
  BY FS_CardinalityType
<1>2. \A k : IsFiniteSet(Less(k)) /\ Cardinality(Less(k)) \in Nat
  <2> TAKE k
  <2>1. IsFiniteSet(Less(k))
    BY FS_Subset
  <2> QED
    BY <2>1, FS_CardinalityType
<1>3. ASSUME NEW j \in here, NEW S, IsFiniteSet(S), Less(j) \subseteq S, j \in S
      PROVE  Cardinality(Less(j)) < Cardinality(S)
  <2>1. Less(j) # S
    <3>1. j \notin Less(j)
      OBVIOUS
    <3> QED
      BY <3>1, <1>3
  <2>2. Cardinality(Less(j)) <= Cardinality(S) /\ Cardinality(S) # Cardinality(Less(j))
    BY <1>3, <2>1, FS_Subset
  <2>3. Cardinality(S) \in Nat /\ Cardinality(Less(j)) \in Nat
    BY <1>2, <1>3, FS_CardinalityType
  <2> QED
    BY <2>2, <2>3
<1>4. ASSUME NEW k \in here PROVE Before(here, k) \in 0..(N - 1)
  <2>1. Cardinality(Less(k)) < N
    BY <1>3
  <2> HIDE DEF N, Less
  <2>2. Cardinality(Less(k)) \in 0..(N - 1)
    BY <1>1, <1>2, <2>1
  <2> QED
    BY <2>2 DEF Before, Less
<1>5. ASSUME NEW j \in here, NEW k \in here, Before(here, j) = Before(here, k) PROVE j = k
  <2>1. Cardinality(Less(j)) = Cardinality(Less(k))
    BY <1>5 DEF Before
  <2>2. ASSUME NEW x \in here, NEW y \in here, x < y
        PROVE Cardinality(Less(x)) < Cardinality(Less(y))
    <3>1. Less(x) \subseteq Less(y) /\ x \in Less(y)
      <4>1. \A z \in here : z < x => z < y
        <5>1. x \in Nat /\ y \in Nat /\ \A z \in here : z \in Nat
          OBVIOUS
        <5> QED
          BY <5>1, <2>2
      <4> QED
        BY <4>1, <2>2
    <3> HIDE DEF Less
    <3> QED
      BY <3>1, <1>2, <1>3
  <2>3. Cardinality(Less(j)) \in Nat /\ Cardinality(Less(k)) \in Nat
    BY <1>2
  <2> HIDE DEF Less
  <2>4. ~(j < k) /\ ~(k < j)
    BY <2>1, <2>2, <2>3
  <2> QED
    BY <2>4
<1>6. f \in Injection(here, 0..(N - 1))
  <2>1. f \in [here -> 0..(N - 1)] /\ \A j, k \in here : f[j] = f[k] => j = k
    BY <1>4, <1>5
  <2> QED
    BY <2>1 DEF Injection, IsInjective
<1>7. IsFiniteSet(0..(N - 1)) /\ Cardinality(0..(N - 1)) = N
  <2> HIDE DEF N
  <2>1. 0 \in Int /\ N - 1 \in Int
    BY <1>1
  <2>2. /\ IsFiniteSet(0..(N - 1))
        /\ Cardinality(0..(N - 1)) = IF 0 > N - 1 THEN 0 ELSE (N - 1) - 0 + 1
    BY <2>1, FS_Interval
  <2> QED
    BY <1>1, <2>2
<1>8. f \in Surjection(here, 0..(N - 1))
  <2> HIDE DEF f
  <2> QED
    BY <1>6, <1>7, FS_Injection
<1>9. ASSUME NEW n \in 0..(N - 1) PROVE \E k \in here : Before(here, k) = n
  BY <1>8 DEF Surjection
<1> QED
  BY <1>1, <1>4, <1>5, <1>9

(* What SortedKeys and Leaves hold: position Before(here, k) + 1 is k's. *)
LEMMA LeavesAre ==
  ASSUME NEW s \in States, NEW keys \in SUBSET Key
  PROVE  LET here == Present(s, keys)
             ks == SortedKeys(s, keys)
             leaves == Leaves(s, keys)
         IN  /\ IsSeq(ks) /\ IsSeq(leaves)
             /\ Len(ks) = Cardinality(here) /\ Len(leaves) = Cardinality(here)
             /\ Cardinality(here) \in Nat
             /\ \A i \in 1..Len(ks) : /\ ks[i] \in here /\ Before(here, ks[i]) = i - 1
                                      /\ leaves[i] = LeafHash(ks[i], s[ks[i]])
             /\ \A k \in here : /\ Before(here, k) \in 0..(Len(ks) - 1)
                                /\ ks[Before(here, k) + 1] = k
<1> DEFINE here == Present(s, keys)
           N == Cardinality(here)
           ks == SortedKeys(s, keys)
           leaves == Leaves(s, keys)
<1>1. here \subseteq Nat /\ IsFiniteSet(here)
  <2>1. here \subseteq Key /\ Key \subseteq Nat /\ IsFiniteSet(Key)
    BY KeyAssumption DEF Present
  <2> HIDE DEF here
  <2> QED
    BY <2>1, FS_Subset
<1>2. /\ N \in Nat
      /\ \A k \in here : Before(here, k) \in 0..(N - 1)
      /\ \A j, k \in here : Before(here, j) = Before(here, k) => j = k
      /\ \A n \in 0..(N - 1) : \E k \in here : Before(here, k) = n
  <2> HIDE DEF here
  <2> QED
    BY <1>1, BeforeIs
<1>3. ks = [i \in 1..N |-> CHOOSE k \in here : Before(here, k) = i - 1]
  BY DEF SortedKeys
<1> HIDE DEF here, N, ks
<1>4. DOMAIN ks = 1..N /\ ks = [i \in 1..N |-> ks[i]]
  BY <1>3
<1>5. Len(ks) = N /\ IsSeq(ks)
  BY <1>2, <1>4, LengthOf
<1>6. leaves = [i \in 1..N |-> LeafHash(ks[i], s[ks[i]])]
  BY <1>4 DEF Leaves, ks
<1> HIDE DEF leaves
<1>7. Len(leaves) = N /\ IsSeq(leaves)
  <2>1. leaves = [i \in 1..N |-> leaves[i]]
    BY <1>6
  <2> QED
    BY <2>1, <1>2, LengthOf
<1>8. ASSUME NEW i \in 1..N
      PROVE  ks[i] \in here /\ Before(here, ks[i]) = i - 1 /\ leaves[i] = LeafHash(ks[i], s[ks[i]])
  <2>1. i - 1 \in 0..(N - 1)
    BY <1>2
  <2>2. \E k \in here : Before(here, k) = i - 1
    BY <2>1, <1>2
  <2>3. ks[i] = CHOOSE k \in here : Before(here, k) = i - 1
    BY <1>3
  <2>4. ks[i] \in here /\ Before(here, ks[i]) = i - 1
    BY <2>2, <2>3, Zenon
  <2> QED
    BY <2>4, <1>6
<1>9. ASSUME NEW k \in here PROVE ks[Before(here, k) + 1] = k
  <2> DEFINE n == Before(here, k)
  <2>1. n \in 0..(N - 1)
    BY <1>2
  <2> HIDE DEF n
  <2>2. n + 1 \in 1..N /\ (n + 1) - 1 = n
    BY <2>1, <1>2
  <2>3. ks[n + 1] \in here /\ Before(here, ks[n + 1]) = n
    BY <2>2, <1>8
  <2> QED
    BY <2>3, <1>2 DEF n
<1>10. /\ IsSeq(ks) /\ IsSeq(leaves) /\ Len(ks) = N /\ Len(leaves) = N /\ N \in Nat
       /\ \A i \in 1..Len(ks) : ks[i] \in here /\ Before(here, ks[i]) = i - 1
                                 /\ leaves[i] = LeafHash(ks[i], s[ks[i]])
       /\ \A k \in here : Before(here, k) \in 0..(Len(ks) - 1) /\ ks[Before(here, k) + 1] = k
  BY <1>2, <1>5, <1>7, <1>8, <1>9
<1> QED
  BY <1>10 DEF here, N, ks, leaves

(* The leaves of plain entries are no two alike. *)
LEMMA LeavesDistinct ==
  ASSUME NEW s \in States, PlainState(s), NEW keys \in SUBSET Key
  PROVE  /\ IsSeq(Leaves(s, keys)) /\ Distinct(Leaves(s, keys))
         /\ \A i \in 1..Len(Leaves(s, keys)) : IsLeaf(Leaves(s, keys)[i])
<1> DEFINE here == Present(s, keys)
           ks == SortedKeys(s, keys)
           leaves == Leaves(s, keys)
<1>1. /\ IsSeq(leaves) /\ Len(ks) = Len(leaves) /\ Len(leaves) \in Nat
      /\ \A i \in 1..Len(ks) : /\ ks[i] \in here /\ Before(here, ks[i]) = i - 1
                               /\ leaves[i] = LeafHash(ks[i], s[ks[i]])
  BY LeavesAre
<1>e. \A k \in here : k \in Key /\ s[k] \in Value /\ PlainEntry(k, s[k])
  BY DEF Present, States, PlainState
<1> HIDE DEF here, ks, leaves
<1>2. ASSUME NEW i \in 1..Len(leaves), NEW j \in 1..Len(leaves), leaves[i] = leaves[j] PROVE i = j
  <2>1. ks[i] = ks[j]
    <3>1. ks[i] \in here /\ ks[j] \in here /\ LeafHash(ks[i], s[ks[i]]) = LeafHash(ks[j], s[ks[j]])
      BY <1>1, <1>2
    <3> QED
      BY <3>1, <1>e, LeavesDiffer
  <2>2. i - 1 = j - 1
    BY <1>1, <2>1
  <2> QED
    BY <1>1, <2>2
<1>3. \A i \in 1..Len(leaves) : IsLeaf(leaves[i])
  <2> TAKE i \in 1..Len(leaves)
  <2>1. ks[i] \in here /\ leaves[i] = LeafHash(ks[i], s[ks[i]])
    BY <1>1
  <2> QED
    BY <2>1, <1>e DEF IsLeaf
<1> QED
  BY <1>1, <1>2, <1>3 DEF leaves, Distinct

(* Roots over any set of keys determine what a plain map holds for them. *)
LEMMA PrefixRootDetermines ==
  ASSUME NEW s \in States, NEW t \in States, PlainState(s), PlainState(t), NEW keys \in SUBSET Key,
         PrefixRoot(s, keys) = PrefixRoot(t, keys)
  PROVE  \A k \in keys : s[k] = t[k]
<1> DEFINE a == Leaves(s, keys)
           b == Leaves(t, keys)
<1>1. Root(a) = Root(b)
  BY DEF PrefixRoot
<1>2. /\ IsSeq(a) /\ IsSeq(b) /\ Distinct(a) /\ Distinct(b) /\ Len(a) \in Nat /\ Len(b) \in Nat
      /\ (\A i \in 1..Len(a) : IsLeaf(a[i])) /\ (\A i \in 1..Len(b) : IsLeaf(b[i]))
  BY LeavesDistinct DEF IsSeq
<1>3. a = b
  <2> HIDE DEF a, b
  <2>1. CASE Len(a) > 0 /\ Len(b) > 0
    BY <1>1, <1>2, <2>1, RootDeterminesLeaves
  <2>2. ASSUME NEW x, IsSeq(x), ~(Len(x) > 0) PROVE x = <<>> /\ Root(x) = EmptyHash
    <3>1. Len(x) = 0 /\ x = [i \in 1..0 |-> x[i]]
      BY <2>2 DEF IsSeq
    <3>2. x = <<>>
      BY <3>1
    <3> QED
      BY <3>2 DEF Root
  <2>3. CASE ~(Len(a) > 0) /\ ~(Len(b) > 0)
    BY <1>2, <2>2, <2>3
  <2>4. CASE ~(Len(a) > 0) /\ Len(b) > 0
    BY <1>1, <1>2, <2>2, <2>4, RootIs
  <2>5. CASE Len(a) > 0 /\ ~(Len(b) > 0)
    BY <1>1, <1>2, <2>2, <2>5, RootIs
  <2> QED
    BY <2>1, <2>3, <2>4, <2>5
<1>4. ASSUME NEW x \in States, NEW y \in States, PlainState(x), PlainState(y),
             Leaves(x, keys) = Leaves(y, keys), NEW k \in Present(x, keys)
      PROVE  k \in Present(y, keys) /\ x[k] = y[k]
  <2> DEFINE i == Before(Present(x, keys), k) + 1
  <2>1. /\ Len(SortedKeys(x, keys)) = Len(Leaves(x, keys)) /\ Len(Leaves(x, keys)) \in Nat
        /\ Len(SortedKeys(y, keys)) = Len(Leaves(y, keys))
        /\ Before(Present(x, keys), k) \in 0..(Len(SortedKeys(x, keys)) - 1)
        /\ SortedKeys(x, keys)[i] = k
    BY LeavesAre
  <2>2. i \in 1..Len(SortedKeys(x, keys)) /\ i \in 1..Len(SortedKeys(y, keys))
    BY <2>1, <1>4
  <2> HIDE DEF i
  <2>3. Leaves(x, keys)[i] = LeafHash(k, x[k])
    BY <2>1, <2>2, LeavesAre
  <2> DEFINE j == SortedKeys(y, keys)[i]
  <2>4. j \in Present(y, keys) /\ Leaves(y, keys)[i] = LeafHash(j, y[j])
    BY <2>2, LeavesAre
  <2> HIDE DEF j
  <2>5. k = j /\ x[k] = y[j]
    <3>1. /\ k \in Key /\ x[k] \in Value /\ PlainEntry(k, x[k])
          /\ j \in Key /\ y[j] \in Value /\ PlainEntry(j, y[j])
      BY <2>4, <1>4 DEF Present, States, PlainState
    <3>2. LeafHash(k, x[k]) = LeafHash(j, y[j])
      BY <2>3, <2>4, <1>4
    <3> QED
      BY <3>1, <3>2, LeavesDiffer
  <2> QED
    BY <2>4, <2>5
<1>5. ASSUME NEW k \in keys PROVE s[k] = t[k]
  <2>1. CASE k \in Present(s, keys)
    BY <2>1, <1>3, <1>4
  <2>2. CASE k \in Present(t, keys)
    BY <2>2, <1>3, <1>4
  <2>3. CASE k \notin Present(s, keys) /\ k \notin Present(t, keys)
    BY <2>3 DEF Present
  <2> QED
    BY <2>1, <2>2, <2>3
<1> QED
  BY <1>5

-------------------------------------------------------------------------------
(* Proofs and their verification *)

(* Positions is the function its recursion describes. *)
LEMMA PositionsAre ==
  ASSUME NEW leaves, IsSeq(leaves), NEW idx
  PROVE  /\ Positions(leaves, idx)[0] = idx
         /\ \A n \in 1..Len(leaves) :
              Positions(leaves, idx)[n] = Positions(leaves, idx)[n - 1] \div 2
<1> DEFINE N == Len(leaves)
           Sol(f, m) == f = [n \in 0..m |-> IF n = 0 THEN idx ELSE f[n - 1] \div 2]
           T == {m \in Nat : ~\E f : Sol(f, m)}
<1>1. N \in Nat
  BY DEF IsSeq
<1>2. T = {}
  <2> SUFFICES ASSUME T # {} PROVE FALSE
    OBVIOUS
  <2>1. PICK m \in T : \A y \in T : m <= y
    <3>1. T \subseteq Nat
      OBVIOUS
    <3> HIDE DEF T
    <3> QED
      BY <3>1, LeastRound
  <2>2. CASE m = 0
    <3> DEFINE f == [n \in 0..0 |-> idx]
    <3>1. Sol(f, 0)
      OBVIOUS
    <3> QED
      BY <3>1, <2>1, <2>2
  <2>3. CASE m # 0
    <3>1. m \in Nat /\ m - 1 \in Nat /\ ~(m <= m - 1)
      <4>1. m \in Nat
        BY <2>1
      <4> QED
        BY <4>1, <2>3
    <3>2. m - 1 \notin T
      <4> HIDE DEF T
      <4> QED
        BY <3>1, <2>1
    <3>3. PICK f : Sol(f, m - 1)
      BY <3>1, <3>2
    <3> DEFINE g == [n \in 0..m |-> IF n = m THEN f[m - 1] \div 2 ELSE f[n]]
               h == [n \in 0..m |-> IF n = 0 THEN idx ELSE g[n - 1] \div 2]
    <3>4. \A n \in 0..(m - 1) : f[n] = IF n = 0 THEN idx ELSE f[n - 1] \div 2
      BY <3>3
    <3>5. \A n \in 0..m : g[n] = h[n]
      <4> TAKE n \in 0..m
      <4>1. CASE n = m
        BY <4>1, <3>1, <2>3
      <4>2. CASE n # m /\ n = 0
        BY <4>2, <3>1, <3>4
      <4>3. CASE n # m /\ n # 0
        <5>1. n \in 0..(m - 1) /\ n - 1 \in 0..m /\ n - 1 # m
          BY <4>3, <3>1
        <5>2. g[n] = f[n] /\ g[n - 1] = f[n - 1] /\ h[n] = g[n - 1] \div 2
          BY <5>1, <4>3
        <5> QED
          BY <5>1, <5>2, <3>4, <4>3
      <4> QED
        BY <4>1, <4>2, <4>3
    <3>6. g = [n \in 0..m |-> g[n]] /\ h = [n \in 0..m |-> h[n]]
      OBVIOUS
    <3>7. g = h
      <4> HIDE DEF g, h
      <4> QED
        BY <3>5, <3>6, Zenon
    <3>8. Sol(g, m)
      BY <3>7
    <3> QED
      BY <3>8, <2>1
  <2> QED
    BY <2>2, <2>3
<1>3. \E f : Sol(f, N)
  BY <1>1, <1>2
<1>4. Positions(leaves, idx) = CHOOSE f : Sol(f, N)
  BY DEF Positions
<1> DEFINE P == Positions(leaves, idx)
<1>5. Sol(P, N)
  <2> HIDE DEF Sol
  <2> QED
    BY <1>3, <1>4, Zenon
<1> HIDE DEF P
<1> QED
  BY <1>1, <1>5 DEF P

(* One step of a path *)
Step(step, cur) == IF step.left THEN NodeHash(step.hash, cur) ELSE NodeHash(cur, step.hash)

(* HashUp is the function its recursion describes. *)
LEMMA HashUpIs ==
  ASSUME NEW leaf, NEW path, Len(path) \in Nat
  PROVE  /\ HashUp(leaf, path)[0] = leaf
         /\ \A n \in 1..Len(path) : HashUp(leaf, path)[n] = Step(path[n], HashUp(leaf, path)[n - 1])
<1> DEFINE N == Len(path)
           Sol(f, m) == f = [n \in 0..m |-> IF n = 0 THEN leaf ELSE Step(path[n], f[n - 1])]
           T == {m \in Nat : ~\E f : Sol(f, m)}
<1>1. N \in Nat
  OBVIOUS
<1>2. T = {}
  <2> SUFFICES ASSUME T # {} PROVE FALSE
    OBVIOUS
  <2>1. PICK m \in T : \A y \in T : m <= y
    <3>1. T \subseteq Nat
      OBVIOUS
    <3> HIDE DEF T
    <3> QED
      BY <3>1, LeastRound
  <2>2. CASE m = 0
    <3> DEFINE f == [n \in 0..0 |-> leaf]
    <3>1. Sol(f, 0)
      OBVIOUS
    <3> QED
      BY <3>1, <2>1, <2>2
  <2>3. CASE m # 0
    <3>1. m \in Nat /\ m - 1 \in Nat /\ ~(m <= m - 1)
      <4>1. m \in Nat
        BY <2>1
      <4> QED
        BY <4>1, <2>3
    <3>2. m - 1 \notin T
      <4> HIDE DEF T
      <4> QED
        BY <3>1, <2>1
    <3>3. PICK f : Sol(f, m - 1)
      BY <3>1, <3>2
    <3> DEFINE g == [n \in 0..m |-> IF n = m THEN Step(path[m], f[m - 1]) ELSE f[n]]
               h == [n \in 0..m |-> IF n = 0 THEN leaf ELSE Step(path[n], g[n - 1])]
    <3>4. \A n \in 0..(m - 1) : f[n] = IF n = 0 THEN leaf ELSE Step(path[n], f[n - 1])
      BY <3>3
    <3>5. \A n \in 0..m : g[n] = h[n]
      <4> TAKE n \in 0..m
      <4>1. CASE n = m
        BY <4>1, <3>1, <2>3
      <4>2. CASE n # m /\ n = 0
        BY <4>2, <3>1, <3>4
      <4>3. CASE n # m /\ n # 0
        <5>1. n \in 0..(m - 1) /\ n - 1 \in 0..m /\ n - 1 # m
          BY <4>3, <3>1
        <5>2. g[n] = f[n] /\ g[n - 1] = f[n - 1] /\ h[n] = Step(path[n], g[n - 1])
          BY <5>1, <4>3
        <5> QED
          BY <5>1, <5>2, <3>4, <4>3
      <4> QED
        BY <4>1, <4>2, <4>3
    <3>6. g = [n \in 0..m |-> g[n]] /\ h = [n \in 0..m |-> h[n]]
      OBVIOUS
    <3>7. g = h
      <4> HIDE DEF g, h
      <4> QED
        BY <3>5, <3>6, Zenon
    <3>8. Sol(g, m)
      BY <3>7
    <3> QED
      BY <3>8, <2>1
  <2> QED
    BY <2>2, <2>3
<1>3. \E f : Sol(f, N)
  BY <1>1, <1>2
<1>4. HashUp(leaf, path) = CHOOSE f : Sol(f, N)
  BY DEF HashUp, Step
<1> DEFINE C == HashUp(leaf, path)
<1>5. Sol(C, N)
  <2> HIDE DEF Sol
  <2> QED
    BY <1>3, <1>4, Zenon
<1> HIDE DEF C
<1> QED
  BY <1>1, <1>5 DEF C

(* Hashing a position's hash with its sibling gives the hash at half the     *)
(* position one level up, an odd one out included.                           *)
LEMMA SiblingClimbs ==
  ASSUME NEW level, IsSeq(level), NEW pos \in Nat, pos < Len(level)
  PROVE  LET sib == Sibling(level, pos)
             step == [hash |-> level[sib + 1], left |-> sib < pos]
         IN  /\ pos \div 2 \in Nat /\ pos \div 2 < Len(NextLevel(level))
             /\ Step(step, level[pos + 1]) = NextLevel(level)[(pos \div 2) + 1]
<1> DEFINE sib == Sibling(level, pos)
           step == [hash |-> level[sib + 1], left |-> sib < pos]
           up == NextLevel(level)
           n == (Len(level) + 1) \div 2
           i == (pos \div 2) + 1
           N == Len(level)
<1>1. N \in Nat
  BY DEF IsSeq
<1>2. /\ Len(up) = n
      /\ \A j \in 1..n : up[j] = NodeHash(level[2*j - 1], IF 2*j <= N THEN level[2*j] ELSE level[2*j - 1])
  BY NextLevelIs
<1>3. i \in 1..n /\ pos \div 2 \in Nat /\ pos \div 2 < n
  BY <1>1
<1>4. up[i] = NodeHash(level[2*i - 1], IF 2*i <= N THEN level[2*i] ELSE level[2*i - 1])
  <2> HIDE DEF n, i, N, up
  <2> QED
    BY <1>2, <1>3
<1>5. Step(step, level[pos + 1]) = IF sib < pos THEN NodeHash(level[sib + 1], level[pos + 1])
                                   ELSE NodeHash(level[pos + 1], level[sib + 1])
  <2>1. step.left = (sib < pos) /\ step.hash = level[sib + 1]
    OBVIOUS
  <2> HIDE DEF step, sib
  <2> QED
    BY <2>1 DEF Step
<1>6. CASE pos % 2 = 0 /\ pos + 1 < N
  <2>1. sib = pos + 1 /\ ~(sib < pos) /\ 2*i - 1 = pos + 1 /\ 2*i = sib + 1 /\ 2*i <= N
    BY <1>1, <1>6 DEF Sibling
  <2> HIDE DEF i, N, up, sib, step
  <2> QED
    BY <1>2, <1>3, <1>4, <1>5, <2>1 DEF i, sib, step, up
<1>7. CASE pos % 2 = 0 /\ ~(pos + 1 < N)
  <2>1. sib = pos /\ ~(sib < pos) /\ 2*i - 1 = pos + 1 /\ ~(2*i <= N)
    BY <1>1, <1>7 DEF Sibling
  <2> HIDE DEF i, N, up, sib, step
  <2> QED
    BY <1>2, <1>3, <1>4, <1>5, <2>1 DEF i, sib, step, up
<1>8. CASE pos % 2 # 0
  <2>1. sib = pos - 1 /\ sib < pos /\ 2*i - 1 = sib + 1 /\ 2*i = pos + 1 /\ 2*i <= N
    BY <1>1, <1>8 DEF Sibling
  <2> HIDE DEF i, N, up, sib, step
  <2> QED
    BY <1>2, <1>3, <1>4, <1>5, <2>1 DEF i, sib, step, up
<1> QED
  BY <1>6, <1>7, <1>8

(* Path is a sequence of Height steps. *)
LEMMA PathIs ==
  ASSUME NEW leaves, IsSeq(leaves), Len(leaves) > 0, NEW idx
  PROVE  /\ Len(Path(leaves, idx)) = Height(leaves) /\ Height(leaves) \in Nat
         /\ \A n \in 1..Height(leaves) :
              LET level == Levels(leaves)[n - 1]
                  pos == Positions(leaves, idx)[n - 1]
                  sib == Sibling(level, pos)
              IN  Path(leaves, idx)[n] = [hash |-> level[sib + 1], left |-> sib < pos]
<1> DEFINE path == Path(leaves, idx)
<1>1. Height(leaves) \in Nat
  BY HeightIs DEF IsSeq
<1>2. path = [n \in 1..Height(leaves) |-> path[n]]
  BY DEF Path
<1>3. Len(path) = Height(leaves)
  <2> HIDE DEF path
  <2> QED
    BY <1>1, <1>2, LengthOf
<1> QED
  BY <1>1, <1>3 DEF Path

(* A path leads from its leaf to the root. *)
LEMMA PathVerifies ==
  ASSUME NEW leaves, IsSeq(leaves), NEW idx \in Nat, idx < Len(leaves)
  PROVE  LET path == Path(leaves, idx)
         IN  HashUp(leaves[idx + 1], path)[Len(path)] = Root(leaves)
<1> DEFINE path == Path(leaves, idx)
           N == Len(leaves)
           L == Levels(leaves)
           P == Positions(leaves, idx)
           H == Height(leaves)
           C == HashUp(leaves[idx + 1], path)
           Good(n) == P[n] \in Nat /\ P[n] < Len(L[n]) /\ C[n] = L[n][P[n] + 1]
           T == {n \in 0..H : ~Good(n)}
<1>1. N \in Nat /\ N > 0
  BY DEF IsSeq
<1>2. H \in 0..N /\ Len(L[H]) = 1
  BY <1>1, HeightIs
<1>3. Len(path) = H /\ Len(path) \in Nat
  BY <1>1, PathIs
<1>4. L[0] = leaves /\ \A n \in 1..N : L[n] = NextLevel(L[n - 1])
  BY LevelsAre
<1>5. P[0] = idx /\ \A n \in 1..N : P[n] = P[n - 1] \div 2
  BY PositionsAre
<1>6. C[0] = leaves[idx + 1] /\ \A n \in 1..H : C[n] = Step(path[n], C[n - 1])
  <2> HIDE DEF path
  <2> QED
    BY <1>3, HashUpIs
<1>7. \A n \in 0..N : IsSeq(L[n])
  BY LevelsAreSeqs
<1>8. ASSUME NEW n \in 1..H PROVE LET sib == Sibling(L[n - 1], P[n - 1])
                                  IN  path[n] = [hash |-> L[n - 1][sib + 1], left |-> sib < P[n - 1]]
  BY <1>1, PathIs
<1> HIDE DEF path, L, P, H, C, N
<1>9. T = {}
  <2> SUFFICES ASSUME T # {} PROVE FALSE
    OBVIOUS
  <2>1. PICK n \in T : \A m \in T : n <= m
    <3>1. T \subseteq Nat
      BY <1>1, <1>2
    <3> HIDE DEF T
    <3> QED
      BY <3>1, LeastRound
  <2>2. n \in 0..H /\ ~Good(n)
    BY <2>1
  <2>3. n # 0
    <3>1. Good(0)
      BY <1>4, <1>5, <1>6
    <3> QED
      BY <3>1, <2>2
  <2>4. n \in 1..H /\ n \in 1..N /\ n - 1 \in 0..H /\ n - 1 \in 0..N /\ ~(n <= n - 1)
    BY <2>2, <2>3, <1>1, <1>2
  <2>5. Good(n - 1)
    <3>1. n - 1 \notin T
      <4> HIDE DEF T
      <4> QED
        BY <2>1, <2>4
    <3> QED
      BY <3>1, <2>4
  <2> HIDE DEF T
  <2> DEFINE level == L[n - 1]
             pos == P[n - 1]
             sib == Sibling(level, pos)
             step == [hash |-> level[sib + 1], left |-> sib < pos]
  <2>6. IsSeq(level) /\ pos \in Nat /\ pos < Len(level) /\ C[n - 1] = level[pos + 1]
    BY <2>4, <2>5, <1>7
  <2>7. /\ L[n] = NextLevel(level) /\ P[n] = pos \div 2 /\ path[n] = step
        /\ C[n] = Step(path[n], C[n - 1])
    BY <2>4, <1>4, <1>5, <1>6, <1>8
  <2>8. /\ pos \div 2 \in Nat /\ pos \div 2 < Len(NextLevel(level))
        /\ Step(step, level[pos + 1]) = NextLevel(level)[(pos \div 2) + 1]
    <3> HIDE DEF level, pos
    <3> QED
      BY <2>6, SiblingClimbs
  <2> HIDE DEF level, pos, sib, step
  <2>9. Good(n)
    BY <2>6, <2>7, <2>8
  <2> QED
    BY <2>2, <2>9
<1>10. Good(H)
  BY <1>1, <1>2, <1>9
<1>11. P[H] = 0
  <2> DEFINE x == P[H]
  <2>1. x \in Nat /\ x < 1
    BY <1>2, <1>10
  <2> HIDE DEF x
  <2>2. x = 0
    BY <2>1
  <2> QED
    BY <2>2 DEF x
<1>12. C[H] = L[H][1]
  BY <1>10, <1>11
<1>13. Root(leaves) = L[H][1]
  <2>1. leaves # <<>>
    BY <1>1 DEF N
  <2> QED
    BY <2>1 DEF Root, L, H
<1> QED
  BY <1>3, <1>12, <1>13 DEF C, path

(* What verifies against a root is one of its leaves, by whatever path: from *)
(* the root down every hash on the path is a hash of the tree, and the path  *)
(* and the tree end together because leaves are no nodes.                    *)
LEMMA RootBindsLeaves ==
  ASSUME NEW leaves, IsSeq(leaves), \A i \in 1..Len(leaves) : IsLeaf(leaves[i]),
         NEW leaf, IsLeaf(leaf), NEW path, Len(path) \in Nat,
         HashUp(leaf, path)[Len(path)] = Root(leaves)
  PROVE  \E i \in 1..Len(leaves) : leaves[i] = leaf
<1> DEFINE N == Len(leaves)
           L == Levels(leaves)
           H == Height(leaves)
           C == HashUp(leaf, path)
           Q == Len(path)
           In(h, l) == \E i \in 1..Len(l) : l[i] = h
           T == {d \in Nat : d <= H /\ d <= Q /\ ~In(C[Q - d], L[H - d])}
<1>1. N \in Nat /\ Q \in Nat
  BY DEF IsSeq
<1>2. C[0] = leaf /\ \A n \in 1..Q : C[n] = Step(path[n], C[n - 1])
  BY HashUpIs
<1>3. \A n \in 1..Q : IsNode(C[n])
  <2> HIDE DEF C, Q
  <2> TAKE n \in 1..Q
  <2>1. C[n] = Step(path[n], C[n - 1])
    BY <1>2
  <2> QED
    BY <2>1, Zenon DEF Step, IsNode
<1>4. C[Q] # EmptyHash
  <2> HIDE DEF C, Q
  <2>1. IsLeaf(C[Q]) \/ IsNode(C[Q])
    BY <1>1, <1>2, <1>3
  <2> QED
    BY <2>1, KindsDiffer
<1>5. N > 0
  <2> SUFFICES ASSUME ~(N > 0) PROVE FALSE
    OBVIOUS
  <2>1. N = 0 /\ leaves = [i \in 1..0 |-> leaves[i]]
    BY <1>1 DEF IsSeq
  <2>2. leaves = <<>>
    BY <2>1
  <2> QED
    BY <2>2, <1>4 DEF Root
<1>6. H \in 0..N /\ Len(L[H]) = 1
  BY <1>5, HeightIs
<1>7. L[0] = leaves /\ \A n \in 1..N : L[n] = NextLevel(L[n - 1])
  BY LevelsAre
<1>8. \A n \in 0..N : IsSeq(L[n])
  BY LevelsAreSeqs
<1>9. \A n \in 1..N : \A i \in 1..Len(L[n]) : IsNode(L[n][i])
  BY UpperLevelsAreNodes
<1>10. C[Q] = L[H][1]
  BY <1>5, RootIs
<1> HIDE DEF N, L, H, C, Q
<1>11. In(C[Q], L[H])
  BY <1>6, <1>10
<1>12. T = {}
  <2> SUFFICES ASSUME T # {} PROVE FALSE
    OBVIOUS
  <2>1. PICK d \in T : \A e \in T : d <= e
    <3>1. T \subseteq Nat
      OBVIOUS
    <3> HIDE DEF T
    <3> QED
      BY <3>1, LeastRound
  <2>2. d \in Nat /\ d <= H /\ d <= Q /\ ~In(C[Q - d], L[H - d])
    BY <2>1
  <2>3. d # 0
    <3> HIDE DEF In
    <3>1. Q - 0 = Q /\ H - 0 = H
      BY <1>1, <1>6
    <3> QED
      BY <2>2, <3>1, <1>11
  <2>4. d - 1 \in Nat /\ d - 1 <= H /\ d - 1 <= Q /\ ~(d <= d - 1)
    BY <2>2, <2>3, <1>1, <1>6
  <2>5. d - 1 \notin T
    <3> HIDE DEF T
    <3> QED
      BY <2>1, <2>4
  <2>6. In(C[Q - (d - 1)], L[H - (d - 1)])
    <3> HIDE DEF In
    <3> QED
      BY <2>4, <2>5
  <2> HIDE DEF T
  <2> DEFINE x == H - d
             y == Q - d
  <2>7. /\ x \in 0..N /\ x + 1 \in 1..N /\ y + 1 \in 1..Q
        /\ (x + 1) - 1 = x /\ (y + 1) - 1 = y
        /\ x + 1 = H - (d - 1) /\ y + 1 = Q - (d - 1)
    BY <2>2, <2>3, <1>1, <1>6
  <2>8. In(C[y + 1], L[x + 1]) /\ ~In(C[y], L[x])
    <3> HIDE DEF In
    <3> QED
      BY <2>7, <2>6, <2>2
  <2> HIDE DEF x, y
  <2>9. L[x + 1] = NextLevel(L[x]) /\ C[y + 1] = Step(path[y + 1], C[y]) /\ IsSeq(L[x])
    BY <2>7, <1>2, <1>7, <1>8
  <2> DEFINE l == L[x]
  <2>10. PICK i \in 1..Len(NextLevel(l)) : NextLevel(l)[i] = C[y + 1]
    BY <2>8, <2>9
  <2>11. i \in 1..((Len(l) + 1) \div 2) /\ Len(l) \in Nat
    BY <2>9, <2>10, NextLevelIs DEF IsSeq
  <2>12. C[y + 1] = NodeHash(l[2*i - 1], IF 2*i <= Len(l) THEN l[2*i] ELSE l[2*i - 1])
    BY <2>9, <2>10, <2>11, NextLevelIs
  <2> HIDE DEF l
  <2>13. \E j \in {2*i - 1, 2*i} : j \in 1..Len(l) /\ C[y] = l[j]
    <3>1. 2*i - 1 \in 1..Len(l) /\ (2*i <= Len(l) => 2*i \in 1..Len(l))
      BY <2>11
    <3> DEFINE r == IF 2*i <= Len(l) THEN l[2*i] ELSE l[2*i - 1]
    <3>2. C[y] = l[2*i - 1] \/ C[y] = r
      <4> HIDE DEF r
      <4>1. C[y + 1] = NodeHash(l[2*i - 1], r)
        BY <2>12 DEF r
      <4> QED
        BY <2>9, <4>1, HashesDiffer DEF Step
    <3> QED
      BY <3>1, <3>2
  <2>14. In(C[y], l)
    BY <2>13
  <2> QED
    BY <2>8, <2>14 DEF l
<1>13. CASE Q = H
  <2>1. In(C[Q - H], L[H - H])
    <3> HIDE DEF In
    <3>1. H \notin T
      BY <1>12
    <3>2. H \in Nat /\ H <= H /\ H <= Q
      BY <1>1, <1>6, <1>13
    <3> QED
      BY <3>1, <3>2
  <2>2. Q - H = 0 /\ H - H = 0
    BY <1>1, <1>6, <1>13
  <2>3. In(C[0], L[0])
    BY <2>1, <2>2
  <2> QED
    BY <2>3, <1>2, <1>7
<1>14. CASE Q < H
  <2>1. Q \notin T
    BY <1>12
  <2>2. Q - Q = 0 /\ H - Q \in 1..N /\ Q <= H
    BY <1>1, <1>6, <1>14
  <2>3. In(C[0], L[H - Q])
    <3> HIDE DEF In
    <3> QED
      BY <2>1, <2>2, <1>1
  <2>4. IsNode(leaf)
    BY <2>2, <2>3, <1>2, <1>9
  <2> QED
    BY <2>4, KindsDiffer
<1>15. CASE H < Q
  <2>1. H \notin T
    BY <1>12
  <2>2. H - H = 0 /\ Q - H \in 1..Q /\ H <= Q /\ H \in Nat
    BY <1>1, <1>6, <1>15
  <2>3. In(C[Q - H], L[0])
    <3> HIDE DEF In
    <3> QED
      BY <2>1, <2>2
  <2>4. IsNode(C[Q - H]) /\ IsLeaf(C[Q - H])
    <3>1. IsNode(C[Q - H])
      BY <2>2, <1>3
    <3>2. PICK i \in 1..Len(leaves) : leaves[i] = C[Q - H]
      BY <2>3, <1>7
    <3> QED
      BY <3>1, <3>2
  <2> QED
    BY <2>4, KindsDiffer
<1> QED
  BY <1>1, <1>6, <1>13, <1>14, <1>15

-------------------------------------------------------------------------------
(* The properties *)

(* What StateProof hands out for a key in the map, and for one that is not:  *)
(* the search finds the key exactly when it is there.                        *)
LEMMA StateProofIs ==
  ASSUME NEW s \in States, NEW k \in Key
  PROVE  LET p == StateProof(s, k)
         IN  /\ p.key = k /\ p.root = StateRoot(s)
             /\ p.exists <=> s[k] # Absent
             /\ p.exists =>
                  /\ p.value = s[k] /\ p.leafHash = LeafHash(k, s[k])
                  /\ p.index \in Nat /\ p.index < Len(Leaves(s, Key))
                  /\ SortedKeys(s, Key)[p.index + 1] = k
                  /\ Leaves(s, Key)[p.index + 1] = LeafHash(k, s[k])
                  /\ p.path = Path(Leaves(s, Key), p.index)
<1> DEFINE here == Present(s, Key)
           ks == SortedKeys(s, Key)
           leaves == Leaves(s, Key)
           idx == Before(here, k)
           exists == idx < Len(ks) /\ ks[idx + 1] = k
           p == StateProof(s, k)
<1>1. /\ Len(ks) = Len(leaves) /\ Len(ks) \in Nat
      /\ \A i \in 1..Len(ks) : ks[i] \in here /\ leaves[i] = LeafHash(ks[i], s[ks[i]])
      /\ k \in here => idx \in 0..(Len(ks) - 1) /\ ks[idx + 1] = k
  BY LeavesAre
<1>2. k \in here <=> s[k] # Absent
  BY DEF Present
<1>3. p = [key |-> k, exists |-> exists, root |-> StateRoot(s), index |-> idx, total |-> Len(ks),
           value |-> IF exists THEN s[k] ELSE Absent,
           leafHash |-> IF exists THEN leaves[idx + 1] ELSE <<>>,
           path |-> IF exists THEN Path(leaves, idx) ELSE <<>>]
  BY DEF StateProof
<1>4. idx \in Nat
  <2> DEFINE less == {j \in here : j < k}
  <2>1. less \subseteq Key /\ IsFiniteSet(Key)
    BY KeyAssumption DEF Present
  <2>2. IsFiniteSet(less)
    <3> HIDE DEF less
    <3> QED
      BY <2>1, FS_Subset
  <2>3. Cardinality(less) \in Nat
    BY <2>2, FS_CardinalityType
  <2> QED
    BY <2>3 DEF Before
<1> HIDE DEF here, ks, leaves, idx
<1>5. exists <=> k \in here
  <2>1. ASSUME exists PROVE k \in here
    <3>1. idx + 1 \in 1..Len(ks)
      BY <1>1, <1>4, <2>1
    <3> QED
      BY <3>1, <1>1, <2>1
  <2>2. ASSUME k \in here PROVE exists
    BY <1>1, <2>2
  <2> QED
    BY <2>1, <2>2
<1>6. ASSUME exists
      PROVE  idx < Len(leaves) /\ ks[idx + 1] = k /\ leaves[idx + 1] = LeafHash(k, s[k])
  <2>1. idx + 1 \in 1..Len(ks) /\ ks[idx + 1] = k
    BY <1>1, <1>4, <1>6
  <2> QED
    BY <2>1, <1>1, <1>6
<1> HIDE DEF exists, p
<1>7. /\ p.key = k /\ p.root = StateRoot(s) /\ p.exists = exists /\ p.index = idx
      /\ p.value = IF exists THEN s[k] ELSE Absent
      /\ p.leafHash = IF exists THEN leaves[idx + 1] ELSE <<>>
      /\ p.path = IF exists THEN Path(leaves, idx) ELSE <<>>
  BY <1>3
<1>8. exists \in BOOLEAN
  BY DEF exists
<1>9. /\ p.key = k /\ p.root = StateRoot(s)
      /\ p.exists <=> s[k] # Absent
      /\ p.exists =>
           /\ p.value = s[k] /\ p.leafHash = LeafHash(k, s[k])
           /\ p.index \in Nat /\ p.index < Len(leaves)
           /\ ks[p.index + 1] = k /\ leaves[p.index + 1] = LeafHash(k, s[k])
           /\ p.path = Path(leaves, p.index)
  BY <1>2, <1>4, <1>5, <1>6, <1>7, <1>8
<1> QED
  BY <1>9 DEF p, ks, leaves

(* The state is a map from the keys to values. *)
LEMMA StateTyped == Spec => [](state \in States)
<1>1. Init => state \in States
  BY DEF Init, States
<1>2. state \in States /\ [Next]_state => (state \in States)'
  BY DEF Next, Put, Delete, States
<1> QED
  BY <1>1, <1>2, PTL DEF Spec

(* ProofsVerify for every set of keys, and so for trees of every size: what  *)
(* StateProof returns verifies exactly when the key is in the map, at its    *)
(* place among the sorted keys.                                              *)
THEOREM ProofsAlwaysVerify == Spec => []ProofsVerify
<1>1. state \in States => ProofsVerify
  <2> SUFFICES ASSUME state \in States, NEW k \in Key
               PROVE  LET p == StateProof(state, k)
                      IN  /\ VerifyProof(p) <=> state[k] # Absent
                          /\ p.root = StateRoot(state)
                          /\ p.exists => SortedKeys(state, Key)[p.index + 1] = k
    BY DEF ProofsVerify
  <2> DEFINE p == StateProof(state, k)
             leaves == Leaves(state, Key)
  <2>1. /\ p.key = k /\ p.root = StateRoot(state)
        /\ p.exists <=> state[k] # Absent
        /\ p.exists =>
             /\ p.value = state[k] /\ p.leafHash = LeafHash(k, state[k])
             /\ p.index \in Nat /\ p.index < Len(leaves)
             /\ SortedKeys(state, Key)[p.index + 1] = k
             /\ leaves[p.index + 1] = LeafHash(k, state[k])
             /\ p.path = Path(leaves, p.index)
    BY StateProofIs
  <2>2. IsSeq(leaves) /\ StateRoot(state) = Root(leaves)
    BY LeavesAre DEF StateRoot, PrefixRoot
  <2> HIDE DEF p, leaves
  <2>3. ASSUME p.exists PROVE VerifyProof(p)
    <3>1. HashUp(leaves[p.index + 1], p.path)[Len(p.path)] = Root(leaves)
      BY <2>1, <2>2, <2>3, PathVerifies
    <3>2. HashUp(LeafHash(p.key, p.value), p.path)[Len(p.path)] = p.root
      BY <2>1, <2>2, <2>3, <3>1
    <3> QED
      BY <2>1, <2>3, <3>2 DEF VerifyProof
  <2>4. VerifyProof(p) => p.exists
    BY DEF VerifyProof
  <2>5. VerifyProof(p) <=> state[k] # Absent
    BY <2>1, <2>3, <2>4
  <2> QED
    BY <2>1, <2>5 DEF p
<1> QED
  BY <1>1, StateTyped, PTL

(* Whatever proof of a plain entry verifies against the root of a map of     *)
(* plain entries is for an entry of that map: proofs that StateProof never   *)
(* returned included, with any path of hashes.                               *)
THEOREM VerifiedEntriesAreHeld ==
  ASSUME NEW s \in States, PlainState(s), NEW p, Len(p.path) \in Nat, p.root = StateRoot(s),
         p.key \in Key, p.value \in Value, PlainEntry(p.key, p.value), VerifyProof(p)
  PROVE  p.key \in Present(s, Key) /\ s[p.key] = p.value
<1> DEFINE leaves == Leaves(s, Key)
           ks == SortedKeys(s, Key)
           leaf == LeafHash(p.key, p.value)
<1>1. HashUp(leaf, p.path)[Len(p.path)] = Root(leaves)
  BY DEF VerifyProof, StateRoot, PrefixRoot
<1>2. IsSeq(leaves) /\ \A i \in 1..Len(leaves) : IsLeaf(leaves[i])
  BY LeavesDistinct
<1>3. IsLeaf(leaf)
  BY DEF IsLeaf
<1>4. PICK i \in 1..Len(leaves) : leaves[i] = leaf
  <2> HIDE DEF leaves, leaf
  <2> QED
    BY <1>1, <1>2, <1>3, RootBindsLeaves
<1>5. leaves[i] = LeafHash(ks[i], s[ks[i]]) /\ ks[i] \in Present(s, Key)
  BY LeavesAre
<1> HIDE DEF leaves, ks
<1>6. LeafHash(p.key, p.value) = LeafHash(ks[i], s[ks[i]])
  BY <1>4, <1>5
<1>7. p.key = ks[i] /\ p.value = s[ks[i]]
  <2>1. ks[i] \in Key /\ s[ks[i]] \in Value /\ PlainEntry(ks[i], s[ks[i]])
    BY <1>5 DEF Present, States, PlainState
  <2> QED
    BY <1>6, <2>1, LeavesDiffer
<1> QED
  BY <1>5, <1>7, Zenon

(* ProofsBind for every set of keys and values: no proof of any map verifies *)
(* against the root of a plain one for a plain entry that this one does not  *)
(* hold.                                                                     *)
THEOREM ProofsAlwaysBind == Spec => []ProofsBind
<1>1. state \in States => ProofsBind
  <2> SUFFICES ASSUME state \in States, PlainState(state),
                      NEW p \in GivenOut, NEW c \in Key, NEW v \in Value, PlainEntry(c, v),
                      VerifyProof([p EXCEPT !.key = c, !.value = v, !.root = StateRoot(state),
                                            !.leafHash = LeafHash(c, v)])
               PROVE  state[c] = v
    BY DEF ProofsBind
  <2> DEFINE q == [p EXCEPT !.key = c, !.value = v, !.root = StateRoot(state),
                            !.leafHash = LeafHash(c, v)]
  <2>1. PICK s \in States, k \in Key : p = StateProof(s, k) /\ p.exists
    BY DEF GivenOut
  <2>2. q.key = c /\ q.value = v /\ q.root = StateRoot(state) /\ q.path = p.path
    BY <2>1 DEF StateProof
  <2>3. Len(p.path) \in Nat
    <3>1. /\ p.path = Path(Leaves(s, Key), p.index) /\ p.index \in Nat
          /\ p.index < Len(Leaves(s, Key))
      BY <2>1, StateProofIs
    <3>2. IsSeq(Leaves(s, Key)) /\ Len(Leaves(s, Key)) > 0
      <4>1. IsSeq(Leaves(s, Key))
        BY LeavesAre
      <4> DEFINE n == Len(Leaves(s, Key))
      <4>2. n \in Nat /\ p.index \in Nat /\ p.index < n
        BY <4>1, <3>1 DEF IsSeq
      <4> HIDE DEF n
      <4>3. n > 0
        BY <4>2
      <4> QED
        BY <4>1, <4>3 DEF n
    <3> QED
      BY <3>1, <3>2, PathIs
  <2>4. VerifyProof(q)
    OBVIOUS
  <2> HIDE DEF q
  <2> QED
    BY <2>2, <2>3, <2>4, VerifiedEntriesAreHeld
<1> QED
  BY <1>1, StateTyped, PTL

(* RootDeterminesState for every set of keys and values: equal roots of maps *)
(* of plain entries, of the whole map or of a namespace, mean equal entries. *)
THEOREM RootsDetermineState == Spec => []RootDeterminesState
<1>1. state \in States => RootDeterminesState
  <2> SUFFICES ASSUME state \in States, PlainState(state) PROVE RootDeterminesState
    BY DEF RootDeterminesState
  <2>p. \A s \in PlainStates : s \in States /\ PlainState(s)
    BY DEF PlainStates
  <2>1. ASSUME NEW other \in PlainStates, StateRoot(other) = StateRoot(state) PROVE other = state
    <3>1. Key \in SUBSET Key
      OBVIOUS
    <3>2. \A k \in Key : other[k] = state[k]
      BY <2>1, <2>p, <3>1, PrefixRootDetermines DEF StateRoot
    <3>3. other = [k \in Key |-> other[k]] /\ state = [k \in Key |-> state[k]]
      BY <2>p DEF States
    <3> QED
      BY <3>2, <3>3, Zenon
  <2>2. ASSUME NEW first \in Key, NEW last \in Key, NEW other \in PlainStates,
               PrefixRoot(other, Namespace(first, last)) = PrefixRoot(state, Namespace(first, last))
        PROVE  \A k \in Namespace(first, last) : other[k] = state[k]
    <3>1. Namespace(first, last) \in SUBSET Key
      BY DEF Namespace
    <3> QED
      BY <2>2, <2>p, <3>1, PrefixRootDetermines
  <2> QED
    BY <2>1, <2>2, Zenon DEF RootDeterminesState
<1> QED
  BY <1>1, StateTyped, PTL

(* Equal maps have equal roots over any set of keys, whatever their entries, *)
(* and maps of plain entries have equal roots only when they are equal: what *)
(* Engine assumes when it takes the entries themselves for the root, that of *)
(* several namespaces together included.                                     *)
THEOREM RootsStandForMaps ==
  ASSUME NEW s \in States, NEW t \in States, NEW keys \in SUBSET Key
  PROVE  /\ [k \in keys |-> s[k]] = [k \in keys |-> t[k]]
              => PrefixRoot(s, keys) = PrefixRoot(t, keys)
         /\ PlainState(s) /\ PlainState(t) /\ PrefixRoot(s, keys) = PrefixRoot(t, keys)
              => [k \in keys |-> s[k]] = [k \in keys |-> t[k]]
<1>1. ASSUME PlainState(s), PlainState(t), PrefixRoot(s, keys) = PrefixRoot(t, keys)
      PROVE  [k \in keys |-> s[k]] = [k \in keys |-> t[k]]
  <2>1. \A k \in keys : s[k] = t[k]
    BY <1>1, PrefixRootDetermines
  <2> QED
    BY <2>1
<1>2. ASSUME [k \in keys |-> s[k]] = [k \in keys |-> t[k]]
      PROVE  PrefixRoot(s, keys) = PrefixRoot(t, keys)
  <2>1. \A k \in keys : s[k] = t[k]
    <3>1. \A k \in keys : [j \in keys |-> s[j]][k] = s[k] /\ [j \in keys |-> t[j]][k] = t[k]
      OBVIOUS
    <3> QED
      BY <1>2, <3>1, Zenon
  <2>2. Present(s, keys) = Present(t, keys)
    BY <2>1 DEF Present
  <2> DEFINE a == Leaves(s, keys)
             b == Leaves(t, keys)
  <2>3. SortedKeys(s, keys) = SortedKeys(t, keys)
    <3> DEFINE Of(here) ==
                 [i \in 1..Cardinality(here) |-> CHOOSE k \in here : Before(here, k) = i - 1]
    <3>1. SortedKeys(s, keys) = Of(Present(s, keys)) /\ SortedKeys(t, keys) = Of(Present(t, keys))
      BY DEF SortedKeys
    <3> HIDE DEF Of
    <3> QED
      BY <2>2, <3>1
  <2>4. /\ IsSeq(a) /\ IsSeq(b) /\ Len(a) = Len(b) /\ Len(a) = Len(SortedKeys(s, keys))
        /\ \A i \in 1..Len(SortedKeys(s, keys)) :
             LET k == SortedKeys(s, keys)[i]
             IN  k \in Present(s, keys) /\ a[i] = LeafHash(k, s[k]) /\ b[i] = LeafHash(k, t[k])
    BY <2>2, <2>3, LeavesAre
  <2>5. \A i \in 1..Len(a) : a[i] = b[i]
    <3> TAKE i \in 1..Len(a)
    <3> DEFINE k == SortedKeys(s, keys)[i]
    <3>1. k \in Present(s, keys) /\ a[i] = LeafHash(k, s[k]) /\ b[i] = LeafHash(k, t[k])
      BY <2>4
    <3> HIDE DEF k, a, b
    <3>2. s[k] = t[k]
      BY <2>1, <3>1 DEF Present
    <3> QED
      BY <3>1, <3>2
  <2>6. a = b
    <3> HIDE DEF a, b
    <3> QED
      BY <2>4, <2>5, SameSeq
  <2> QED
    BY <2>6 DEF PrefixRoot
<1> QED
  BY <1>1, <1>2
===============================================================================
