---------------------------- MODULE StorageProofs -----------------------------
(*****************************************************************************)
(* Theorems about Storage, for every segment size, every set of frame sizes  *)
(* and any number of blocks, crashes and I/O errors of every kind. What      *)
(* holds until the first harmful fault only is stated under sound.           *)
(*****************************************************************************)
EXTENDS Storage, FiniteSetTheorems, WellFoundedInduction, TLAPS

-------------------------------------------------------------------------------
(* The inductive invariant *)

Continues(b, chain) == b.height = Len(chain) + 1 /\ b.prev = LastBlock(chain).id

(* b continues the chain, or has been superseded by a block of it *)
Fits(b, chain) == b.height \in DOMAIN chain \/ Continues(b, chain)

Durable(files, chain) == \A h \in DOMAIN chain : Holds(files, h, chain[h])
Within(files, chain) == \A p \in Records(files) : Fits(BlockAt(files, p), chain)

(* The type invariant, but for the size of the active segment *)
Typed ==
  /\ segs \in Seq(Seq(Cell))
  /\ wal \in Block \cup {NoBlock} /\ lock \in BOOLEAN
  /\ pc \in {"down", "locked", "loaded", "replayed", "ready", "logged", "applied"}
  /\ blocks \in Seq(Block) /\ pending \in Block \cup {NoBlock}
  /\ activeOpen \in BOOLEAN
  /\ made \in 0..MaxBlocks /\ faults \in 0..MaxFaults /\ sound \in BOOLEAN
  /\ served \in Seq(Block)

(* An identity names one block, whose height it bounds. *)
Stored(files) == {BlockAt(files, p) : p \in Records(files)}
OfChain(chain) == {chain[i] : i \in DOMAIN chain}
Known == Stored(segs) \cup ({wal, pending} \ {NoBlock}) \cup OfChain(blocks) \cup OfChain(served)
Identified ==
  /\ \A b \in Known : b.id <= made /\ b.height <= b.id
  /\ \A b, c \in Known : b.id = c.id => b = c

(* The blocks of a chain are at their heights. *)
Numbered(chain) == \A i \in DOMAIN chain : chain[i].height = i

(* What the process holds, by where it is *)
Held ==
  /\ pc \in {"ready", "logged", "applied"} => blocks = served
  /\ pc = "logged" => pending = wal /\ wal # NoBlock /\ Continues(wal, served)
  /\ pc = "replayed" => wal # NoBlock
  /\ pc \notin {"down", "locked"} => segs # <<>>
  /\ Numbered(blocks) /\ Numbered(served)

(* What holds whatever fault has happened *)
Base == Typed /\ Identified /\ LogAnchored /\ Held

(* A torn record is the last one of its segment, and none is left once Open  *)
(* has recovered the segments.                                               *)
CleanTail(seg) ==
  \A i \in DOMAIN seg : seg[i].kind = "rec" \/ (seg[i].kind = "torn" /\ i = Len(seg))
Whole(files) == \A s \in DOMAIN files : \A i \in DOMAIN files[s] : files[s][i].kind = "rec"

Recoverable ==
  /\ \A s \in DOMAIN segs : CleanTail(segs[s])
  /\ pc \notin {"down", "locked"} => Whole(segs)

(* The served chain is on disk, and what else is there continues it or has   *)
(* been superseded.                                                          *)
OnDisk == Durable(segs, served) /\ Within(segs, served)

(* What Open has loaded is the served chain, and one block more at most. *)
Loaded ==
  /\ pc = "loaded" =>
       \/ blocks = served
       \/ \E b \in Block : /\ blocks = Append(served, b) /\ Continues(b, served)
                           /\ Holds(segs, b.height, b)
  /\ pc = "replayed" =>
       /\ Holds(segs, wal.height, wal)
       /\ blocks = served \/ Len(blocks) = Len(served) + 1

(* What holds until the first harmful fault *)
Good == Recoverable /\ OnDisk /\ Loaded

IInv == Base /\ (sound => Good)
-------------------------------------------------------------------------------
(* Positions of records *)

(* g holds the records of f and no others, each where it was *)
SameRecords(f, g) ==
  /\ Records(g) = Records(f)
  /\ \A p \in Records(f) : BlockAt(g, p) = BlockAt(f, p)

(* g holds the records of f and one of block b behind all of them *)
OneMore(f, g, b) ==
  \E q : /\ q \notin Records(f) /\ Records(g) = Records(f) \cup {q}
         /\ BlockAt(g, q) = b
         /\ \A p \in Records(f) : BlockAt(g, p) = BlockAt(f, p) /\ Before(p, q)

(* A position is a record exactly if there is a record at it. *)
LEMMA RecordsAre ==
  ASSUME NEW f
  PROVE  /\ \A s \in DOMAIN f : \A i \in DOMAIN f[s] :
              <<s, i>> \in Records(f) <=> f[s][i].kind = "rec"
         /\ \A p \in Records(f) :
              /\ p = <<p[1], p[2]>> /\ p[1] \in DOMAIN f /\ p[2] \in DOMAIN f[p[1]]
              /\ f[p[1]][p[2]].kind = "rec"
<1> DEFINE U == UNION {{s} \X DOMAIN f[s] : s \in DOMAIN f}
<1>1. \A s \in DOMAIN f : \A i \in DOMAIN f[s] : <<s, i>> \in U
  OBVIOUS
<1>2. \A p \in U : p = <<p[1], p[2]>> /\ p[1] \in DOMAIN f /\ p[2] \in DOMAIN f[p[1]]
  OBVIOUS
<1> QED
  BY <1>1, <1>2 DEF Records

(* The numbers up to n + 1 *)
LEMMA UpTo ==
  ASSUME NEW n \in Nat
  PROVE  1..(n + 1) = 1..n \cup {n + 1} /\ n + 1 \notin 1..n
OBVIOUS

(* Every non-empty bounded set of natural numbers has a greatest element. *)
LEMMA Greatest ==
  ASSUME NEW T, T \subseteq Nat, T # {}, NEW m \in Nat, \A x \in T : x <= m
  PROVE  \E x \in T : \A y \in T : y <= x
<1> DEFINE Less == OpToRel(<, Nat)
           U == {m - x : x \in T}
<1>1. IsWellFoundedOn(Less, Nat)
  BY NatLessThanWellFounded
<1>2. \A x, y \in Nat : y < x => <<y, x>> \in Less
  BY DEF OpToRel
<1>3. \A x \in T : x \in Nat /\ x <= m /\ m - x \in Nat
  OBVIOUS
<1>4. U \subseteq Nat /\ U # {}
  BY <1>3
<1> HIDE DEF Less
<1>5. PICK u \in U : \A y \in U : ~(<<y, u>> \in Less)
  BY <1>1, <1>4, WFMin
<1>6. PICK x \in T : u = m - x
  OBVIOUS
<1>7. ASSUME NEW y \in T PROVE y <= x
  <2>1. ~(m - y < m - x)
    BY <1>2, <1>3, <1>5, <1>6
  <2> QED
    BY <1>3, <2>1
<1> QED
  BY <1>7

(* Of the records of a height, one is the last. *)
LEMMA LastRecord ==
  ASSUME NEW f \in Seq(Seq(Cell)), NEW h,
         \E p \in Records(f) : BlockAt(f, p).height = h
  PROVE  \E p \in Records(f) : Holds(f, h, BlockAt(f, p))
<1> DEFINE P == {p \in Records(f) : BlockAt(f, p).height = h}
           S == {p[1] : p \in P}
<1>1. \A p \in P : /\ p \in Records(f) /\ p = <<p[1], p[2]>>
                   /\ p[1] \in 1..Len(f) /\ p[2] \in 1..Len(f[p[1]])
                   /\ p[1] \in Nat /\ p[2] \in Nat /\ Len(f[p[1]]) \in Nat
  BY RecordsAre
<1>2. S \subseteq Nat /\ S # {} /\ Len(f) \in Nat /\ \A x \in S : x <= Len(f)
  BY <1>1
<1>3. PICK m \in S : \A y \in S : y <= m
  BY <1>2, Greatest
<1> DEFINE T == {p[2] : p \in {q \in P : q[1] = m}}
<1>4. T \subseteq Nat /\ T # {} /\ Len(f[m]) \in Nat /\ \A x \in T : x <= Len(f[m])
  BY <1>1
<1> HIDE DEF T
<1>5. PICK k \in T : \A y \in T : y <= k
  BY <1>4, Greatest
<1>6. PICK p \in P : p[1] = m /\ p[2] = k
  BY <1>5 DEF T
<1>7. ASSUME NEW q \in P PROVE q = p \/ Before(q, p)
  <2>1. q[1] <= m /\ (q[1] = m => q[2] <= k)
    BY <1>3, <1>5 DEF T
  <2>2. q = <<q[1], q[2]>> /\ p = <<m, k>> /\ q[1] \in Nat /\ q[2] \in Nat /\ m \in Nat /\ k \in Nat
    BY <1>1, <1>6
  <2>3. CASE q[1] < m
    BY <1>6, <2>3 DEF Before
  <2>4. CASE q[1] = m /\ q[2] < k
    BY <1>6, <2>4 DEF Before
  <2>5. CASE q[1] = m /\ q[2] = k
    BY <2>2, <2>5
  <2> QED
    BY <2>1, <2>2, <2>3, <2>4, <2>5
<1> QED
  BY <1>6, <1>7 DEF Holds

(* The last record of a height is one block. *)
LEMMA HoldsOne ==
  ASSUME NEW f \in Seq(Seq(Cell)), NEW h, NEW b, NEW c, Holds(f, h, b), Holds(f, h, c)
  PROVE  b = c
<1>1. PICK p \in Records(f) :
        /\ BlockAt(f, p) = b /\ b.height = h
        /\ \A q \in Records(f) : BlockAt(f, q).height = h => q = p \/ Before(q, p)
  BY DEF Holds
<1>2. PICK r \in Records(f) :
        /\ BlockAt(f, r) = c /\ c.height = h
        /\ \A q \in Records(f) : BlockAt(f, q).height = h => q = r \/ Before(q, r)
  BY DEF Holds
<1>3. p[1] \in Nat /\ p[2] \in Nat /\ r[1] \in Nat /\ r[2] \in Nat
  <2>1. p[1] \in DOMAIN f /\ p[2] \in DOMAIN f[p[1]] /\ r[1] \in DOMAIN f /\ r[2] \in DOMAIN f[r[1]]
    BY RecordsAre
  <2> QED
    BY <2>1
<1>4. p = r
  BY <1>1, <1>2, <1>3 DEF Before
<1> QED
  BY <1>1, <1>2, <1>4

(* What is held depends on the records only. *)
LEMMA SameHolds ==
  ASSUME NEW f, NEW g, SameRecords(f, g)
  PROVE  \A h, b : Holds(f, h, b) <=> Holds(g, h, b)
BY DEF SameRecords, Holds

(* A record behind all others is the one that is held of its height, and     *)
(* changes nothing for the other heights.                                    *)
LEMMA OneMoreHolds ==
  ASSUME NEW f, NEW g, NEW b, OneMore(f, g, b)
  PROVE  /\ Holds(g, b.height, b)
         /\ \A h, c : h # b.height /\ Holds(f, h, c) => Holds(g, h, c)
<1>1. PICK q : /\ q \notin Records(f) /\ Records(g) = Records(f) \cup {q}
               /\ BlockAt(g, q) = b
               /\ \A p \in Records(f) : BlockAt(g, p) = BlockAt(f, p) /\ Before(p, q)
  BY DEF OneMore
<1>2. Holds(g, b.height, b)
  BY <1>1 DEF Holds
<1>3. ASSUME NEW h, NEW c, h # b.height, Holds(f, h, c) PROVE Holds(g, h, c)
  BY <1>1, <1>3 DEF Holds
<1> QED
  BY <1>2, <1>3
-------------------------------------------------------------------------------
(* What a step may do to the served chain and to what is on disk *)

(* The height of the last block of a chain on disk is the chain's length. *)
LEMMA LastHeight ==
  ASSUME NEW f, NEW chain \in Seq(Block), Durable(f, chain), chain # <<>>
  PROVE  /\ LastBlock(chain) = chain[Len(chain)] /\ LastBlock(chain) \in Block
         /\ Len(chain) \in DOMAIN chain /\ LastBlock(chain).height = Len(chain)
         /\ Holds(f, Len(chain), LastBlock(chain))
<1>1. Len(chain) \in DOMAIN chain /\ chain[Len(chain)] \in Block
  OBVIOUS
<1> QED
  BY <1>1 DEF Durable, Holds, LastBlock

(* A block that is written behind all others supersedes nothing of the       *)
(* chain, if it continues the chain or is its last block once more.          *)
LEMMA WriteKeeps ==
  ASSUME NEW f, NEW g, NEW b \in Block, OneMore(f, g, b), NEW chain \in Seq(Block),
         Durable(f, chain), Within(f, chain),
         Continues(b, chain) \/ (chain # <<>> /\ b = LastBlock(chain))
  PROVE  Durable(g, chain) /\ Within(g, chain) /\ Holds(g, b.height, b)
<1>1. Holds(g, b.height, b)
  BY OneMoreHolds
<1>2. ASSUME NEW h \in DOMAIN chain PROVE Holds(g, h, chain[h])
  <2>1. Holds(f, h, chain[h]) /\ h \in 1..Len(chain) /\ Len(chain) \in Nat
    BY DEF Durable
  <2>2. CASE h # b.height
    BY <2>1, <2>2, OneMoreHolds
  <2>3. CASE h = b.height
    <3>1. ~Continues(b, chain)
      BY <2>1, <2>3 DEF Continues
    <3>2. chain[h] = b
      BY <2>3, <3>1, LastHeight
    <3> QED
      BY <1>1, <2>3, <3>2
  <2> QED
    BY <2>2, <2>3
<1>3. Fits(b, chain)
  <2>1. CASE Continues(b, chain)
    BY <2>1 DEF Fits
  <2>2. CASE chain # <<>> /\ b = LastBlock(chain)
    <3>1. b.height \in DOMAIN chain
      BY <2>2, LastHeight
    <3> QED
      BY <3>1 DEF Fits
  <2> QED
    BY <2>1, <2>2
<1>4. Within(g, chain)
  BY <1>3 DEF Within, OneMore
<1> QED
  BY <1>1, <1>2, <1>4 DEF Durable

(* A chain without new records on disk stays as durable as it was. *)
LEMMA SameKeeps ==
  ASSUME NEW f, NEW g, SameRecords(f, g), NEW chain, Durable(f, chain), Within(f, chain)
  PROVE  Durable(g, chain) /\ Within(g, chain)
BY SameHolds DEF Durable, Within, SameRecords

(* The properties of a chain with one block more *)
LEMMA AppendOne ==
  ASSUME NEW chain \in Seq(Block), NEW b \in Block
  PROVE  LET c == Append(chain, b) IN
         /\ c \in Seq(Block) /\ c # <<>> /\ Len(c) = Len(chain) + 1 /\ Len(chain) \in Nat
         /\ DOMAIN c = 1..(Len(chain) + 1) /\ DOMAIN chain = 1..Len(chain)
         /\ c[Len(chain) + 1] = b /\ LastBlock(c) = b
         /\ \A h \in DOMAIN chain : c[h] = chain[h]
<1> DEFINE c == Append(chain, b)
<1>1. /\ c \in Seq(Block) /\ Len(c) = Len(chain) + 1 /\ Len(chain) \in Nat
      /\ c[Len(chain) + 1] = b /\ \A h \in 1..Len(chain) : c[h] = chain[h]
  OBVIOUS
<1>2. c # <<>>
  BY <1>1
<1> HIDE DEF c
<1>3. LastBlock(c) = b
  BY <1>1, <1>2 DEF LastBlock
<1> QED
  BY <1>1, <1>2, <1>3 DEF c

(* A block that is on disk and continues the served chain may be served. *)
LEMMA ServeKeeps ==
  ASSUME NEW f, NEW chain \in Seq(Block), NEW b \in Block,
         Durable(f, chain), Within(f, chain), Continues(b, chain), Holds(f, b.height, b)
  PROVE  Durable(f, Append(chain, b)) /\ Within(f, Append(chain, b))
<1> DEFINE c == Append(chain, b)
<1>1. /\ Len(c) = Len(chain) + 1 /\ Len(chain) \in Nat
      /\ DOMAIN c = 1..(Len(chain) + 1) /\ DOMAIN chain = 1..Len(chain)
      /\ c[Len(chain) + 1] = b /\ \A h \in DOMAIN chain : c[h] = chain[h]
  BY AppendOne
<1> HIDE DEF c
<1>2. Durable(f, c)
  <2> SUFFICES ASSUME NEW h \in DOMAIN c PROVE Holds(f, h, c[h])
    BY DEF Durable
  <2>1. CASE h \in DOMAIN chain
    BY <1>1, <2>1 DEF Durable
  <2>2. CASE h = Len(chain) + 1
    BY <1>1, <2>2 DEF Continues
  <2> QED
    BY <1>1, <2>1, <2>2
<1>3. Within(f, c)
  <2> SUFFICES ASSUME NEW p \in Records(f) PROVE Fits(BlockAt(f, p), c)
    BY DEF Within
  <2> DEFINE d == BlockAt(f, p)
  <2>1. d.height \in DOMAIN chain \/ d.height = Len(chain) + 1
    BY DEF Within, Fits, Continues
  <2>2. d.height \in DOMAIN c
    BY <1>1, <2>1
  <2> QED
    BY <2>2 DEF Fits
<1> QED
  BY <1>2, <1>3 DEF c
-------------------------------------------------------------------------------
(* Reading segments *)

(* The index of what is on disk is the served chain, or the served chain and *)
(* one block that continues it: the last one that was logged at that height. *)
LEMMA IndexIs ==
  ASSUME NEW f \in Seq(Seq(Cell)), NEW chain \in Seq(Block),
         Durable(f, chain), Within(f, chain)
  PROVE  \/ Index(f) = chain
         \/ \E b \in Block : /\ Index(f) = Append(chain, b) /\ Continues(b, chain)
                             /\ Holds(f, b.height, b)
<1> DEFINE B == {BlockAt(f, p) : p \in Records(f)}
           H == {BlockAt(f, p).height : p \in Records(f)}
           n == Len(chain)
<1>1. n \in Nat /\ DOMAIN chain = 1..n
  OBVIOUS
<1>2. B \subseteq Block
  <2> SUFFICES ASSUME NEW p \in Records(f) PROVE BlockAt(f, p) \in Block
    OBVIOUS
  <2>1. p[1] \in DOMAIN f /\ p[2] \in DOMAIN f[p[1]]
    BY RecordsAre
  <2>2. f[p[1]][p[2]] \in Cell
    BY <2>1
  <2> QED
    BY <2>2 DEF Cell, BlockAt
<1>3. /\ Index(f) = [h \in H |-> CHOOSE b \in B : Holds(f, h, b)]
      /\ \A h \in H : Index(f)[h] \in B /\ Holds(f, h, Index(f)[h])
  <2>1. Index(f) = [h \in H |-> CHOOSE b \in B : Holds(f, h, b)]
    BY DEF Index
  <2>2. ASSUME NEW h \in H PROVE \E b \in B : Holds(f, h, b)
    BY LastRecord
  <2> HIDE DEF B, H
  <2> QED
    BY <2>1, <2>2
<1>4. /\ DOMAIN chain \subseteq H /\ H \subseteq DOMAIN chain \cup {n + 1}
      /\ \A b \in B : b.height = n + 1 => Continues(b, chain)
  <2>1. ASSUME NEW h \in DOMAIN chain PROVE h \in H
    BY DEF Durable, Holds
  <2>2. ASSUME NEW p \in Records(f)
        PROVE  /\ BlockAt(f, p).height \in DOMAIN chain \cup {n + 1}
               /\ BlockAt(f, p).height = n + 1 => Continues(BlockAt(f, p), chain)
    <3>1. Fits(BlockAt(f, p), chain)
      BY DEF Within
    <3>2. n + 1 \notin DOMAIN chain
      BY <1>1
    <3> QED
      BY <3>1, <3>2 DEF Fits, Continues
  <2> QED
    BY <2>1, <2>2
<1> HIDE DEF B, H
<1>5. \A h \in DOMAIN chain : Index(f)[h] = chain[h]
  BY <1>3, <1>4, HoldsOne DEF Durable
<1>6. CASE n + 1 \notin H
  <2>1. H = 1..n
    BY <1>1, <1>4, <1>6
  <2>2. Index(f) = [h \in 1..n |-> chain[h]]
    BY <1>1, <1>3, <1>5, <2>1
  <2>3. chain = [h \in 1..n |-> chain[h]]
    OBVIOUS
  <2> QED
    BY <2>2, <2>3
<1>7. CASE n + 1 \in H
  <2> DEFINE b == Index(f)[n + 1]
  <2>1. b \in Block /\ Holds(f, n + 1, b) /\ b.height = n + 1 /\ Continues(b, chain)
    BY <1>2, <1>3, <1>4, <1>7 DEF Holds
  <2>2. H = 1..(n + 1)
    <3>1. 1..(n + 1) = 1..n \cup {n + 1}
      BY <1>1
    <3> QED
      BY <1>1, <1>4, <1>7, <3>1
  <2>3. Append(chain, b) = [h \in 1..(n + 1) |-> IF h = n + 1 THEN b ELSE chain[h]]
    BY <2>1
  <2>4. \A h \in 1..(n + 1) : Index(f)[h] = IF h = n + 1 THEN b ELSE chain[h]
    BY <1>1, <1>5
  <2>5. Index(f) = [h \in 1..(n + 1) |-> Index(f)[h]]
    BY <1>3, <2>2
  <2>6. Index(f) = Append(chain, b)
    BY <2>3, <2>4, <2>5
  <2> QED
    BY <2>1, <2>6
<1> QED
  BY <1>6, <1>7

(* Recovery cuts the torn record off a segment and keeps all others. *)
LEMMA IntactIs ==
  ASSUME NEW seg \in Seq(Cell), CleanTail(seg)
  PROVE  LET t == Intact(seg) IN
         /\ t \in Seq(Cell)
         /\ DOMAIN t = {i \in DOMAIN seg : seg[i].kind = "rec"}
         /\ \A i \in DOMAIN t : t[i] = seg[i]
         /\ (\A i \in DOMAIN seg : seg[i].kind = "rec") => t = seg
<1> DEFINE bad == {i \in DOMAIN seg : Damaged(seg, i)}
           n == Len(seg)
<1>1. n \in Nat /\ DOMAIN seg = 1..n
  OBVIOUS
<1>2. \A i \in DOMAIN seg : seg[i].kind = "rec" \/ (seg[i].kind = "torn" /\ i = n)
  BY DEF CleanTail
<1>3. bad = {i \in DOMAIN seg : seg[i].kind = "torn"}
  BY <1>2 DEF Damaged
<1>4. Intact(seg) = IF bad = {} THEN seg ELSE SubSeq(seg, 1, Min(bad) - 1)
  BY DEF Intact
<1> HIDE DEF bad
<1>5. CASE bad = {}
  <2>1. \A i \in DOMAIN seg : seg[i].kind = "rec"
    BY <1>2, <1>3, <1>5
  <2> QED
    BY <1>4, <1>5, <2>1
<1>6. CASE bad # {}
  <2>1. bad = {n} /\ n \in 1..n
    BY <1>1, <1>2, <1>3, <1>6
  <2>2. Min(bad) = n
    BY <1>1, <2>1 DEF Min
  <2>3. Intact(seg) = SubSeq(seg, 1, n - 1)
    BY <1>4, <1>6, <2>2
  <2>4. /\ SubSeq(seg, 1, n - 1) \in Seq(Cell) /\ DOMAIN SubSeq(seg, 1, n - 1) = 1..(n - 1)
        /\ \A i \in 1..(n - 1) : SubSeq(seg, 1, n - 1)[i] = seg[i]
    BY <1>1, <2>1
  <2>5. {i \in DOMAIN seg : seg[i].kind = "rec"} = 1..(n - 1)
    <3>1. seg[n].kind # "rec"
      BY <1>3, <2>1
    <3>2. \A i \in 1..n : i # n => seg[i].kind = "rec"
      BY <1>1, <1>2
    <3>3. 1..(n - 1) \subseteq 1..n /\ n \notin 1..(n - 1) /\ \A i \in 1..n : i # n => i \in 1..(n - 1)
      <4> DEFINE k == n - 1
      <4>1. k \in Nat /\ n = k + 1
        BY <1>1, <2>1
      <4> HIDE DEF n, k
      <4>2. 1..(k + 1) = 1..k \cup {k + 1} /\ k + 1 \notin 1..k
        BY <4>1, UpTo
      <4>3. 1..n = 1..k \cup {n} /\ n \notin 1..k
        BY <4>1, <4>2
      <4> QED
        BY <4>3 DEF k
    <3> QED
      BY <1>1, <2>1, <3>1, <3>2, <3>3
  <2>6. ~\A i \in DOMAIN seg : seg[i].kind = "rec"
    BY <1>3, <2>1
  <2> QED
    BY <2>3, <2>4, <2>5, <2>6
<1> QED
  BY <1>5, <1>6

(* Recovery keeps every record, and leaves segments that are whole alone. *)
LEMMA RecoverIs ==
  ASSUME NEW f \in Seq(Seq(Cell)), \A s \in DOMAIN f : CleanTail(f[s])
  PROVE  LET g == RecoverSegments(f) IN
         /\ g \in Seq(Seq(Cell)) /\ Whole(g) /\ SameRecords(f, g)
         /\ Whole(f) => g = f
<1> DEFINE g == RecoverSegments(f)
<1>1. g = [s \in DOMAIN f |-> Intact(f[s])] /\ DOMAIN f = 1..Len(f) /\ Len(f) \in Nat
  BY DEF RecoverSegments
<1>2. ASSUME NEW s \in DOMAIN f
      PROVE  /\ g[s] \in Seq(Cell)
             /\ DOMAIN g[s] = {i \in DOMAIN f[s] : f[s][i].kind = "rec"}
             /\ \A i \in DOMAIN g[s] : g[s][i] = f[s][i]
             /\ (\A i \in DOMAIN f[s] : f[s][i].kind = "rec") => g[s] = f[s]
  <2>1. f[s] \in Seq(Cell) /\ CleanTail(f[s]) /\ g[s] = Intact(f[s])
    BY <1>1
  <2> QED
    BY <2>1, IntactIs
<1> HIDE DEF g
<1>3. DOMAIN g = DOMAIN f
  BY <1>1
<1>4. g \in Seq(Seq(Cell))
  <2>1. g \in [1..Len(f) -> Seq(Cell)]
    BY <1>1, <1>2
  <2> QED
    BY <1>1, <2>1
<1>5. Whole(g)
  BY <1>2, <1>3 DEF Whole
<1>6. SameRecords(f, g)
  <2>1. ASSUME NEW p \in Records(f) PROVE p \in Records(g) /\ BlockAt(g, p) = BlockAt(f, p)
    <3>1. /\ p = <<p[1], p[2]>> /\ p[1] \in DOMAIN f /\ p[2] \in DOMAIN f[p[1]]
          /\ f[p[1]][p[2]].kind = "rec"
      BY RecordsAre
    <3>2. p[2] \in DOMAIN g[p[1]] /\ g[p[1]][p[2]] = f[p[1]][p[2]]
      BY <1>2, <3>1
    <3> QED
      BY <1>3, <3>1, <3>2, RecordsAre DEF BlockAt
  <2>2. ASSUME NEW p \in Records(g) PROVE p \in Records(f)
    <3>1. /\ p = <<p[1], p[2]>> /\ p[1] \in DOMAIN g /\ p[2] \in DOMAIN g[p[1]]
      BY RecordsAre
    <3>2. p[1] \in DOMAIN f /\ p[2] \in DOMAIN f[p[1]] /\ f[p[1]][p[2]].kind = "rec"
      BY <1>2, <1>3, <3>1
    <3> QED
      BY <3>1, <3>2, RecordsAre
  <2> QED
    BY <2>1, <2>2 DEF SameRecords
<1>7. ASSUME Whole(f) PROVE g = f
  <2>1. \A s \in DOMAIN f : g[s] = f[s]
    BY <1>2, <1>7 DEF Whole
  <2>2. g = [s \in DOMAIN f |-> g[s]] /\ f = [s \in DOMAIN f |-> f[s]]
    BY <1>1
  <2> QED
    BY <2>1, <2>2
<1> QED
  BY <1>4, <1>5, <1>6, <1>7 DEF g
-------------------------------------------------------------------------------
(* Writing segments *)

(* A new, empty segment holds no records. *)
LEMMA NewSegment ==
  ASSUME NEW f \in Seq(Seq(Cell)), Whole(f)
  PROVE  LET g == Append(f, <<>>) IN
         g \in Seq(Seq(Cell)) /\ g # <<>> /\ Whole(g) /\ SameRecords(f, g)
<1> DEFINE g == Append(f, <<>>)
           n == Len(f)
<1>1. /\ g \in Seq(Seq(Cell)) /\ n \in Nat /\ DOMAIN f = 1..n /\ DOMAIN g = 1..(n + 1)
      /\ g[n + 1] = <<>> /\ \A s \in 1..n : g[s] = f[s]
  <2>1. <<>> \in Seq(Cell)
    OBVIOUS
  <2> QED
    BY <2>1
<1> HIDE DEF g
<1>0. DOMAIN g = DOMAIN f \cup {n + 1}
  BY <1>1, UpTo
<1>2. \A s \in DOMAIN g : \A i \in DOMAIN g[s] : s \in DOMAIN f /\ g[s] = f[s]
  <2> SUFFICES ASSUME NEW s \in DOMAIN g, NEW i \in DOMAIN g[s]
               PROVE  s \in DOMAIN f /\ g[s] = f[s]
    OBVIOUS
  <2>1. s # n + 1
    BY <1>1
  <2> QED
    BY <1>0, <1>1, <2>1
<1>3. Whole(g)
  BY <1>2 DEF Whole
<1>4. \A p : p \in Records(g) <=> p \in Records(f)
  <2>1. ASSUME NEW p \in Records(g) PROVE p \in Records(f)
    <3>1. /\ p = <<p[1], p[2]>> /\ p[1] \in DOMAIN g /\ p[2] \in DOMAIN g[p[1]]
          /\ g[p[1]][p[2]].kind = "rec"
      BY RecordsAre
    <3>2. p[1] \in DOMAIN f /\ g[p[1]] = f[p[1]]
      BY <1>2, <3>1
    <3> QED
      BY <3>1, <3>2, RecordsAre
  <2>3. ASSUME NEW p \in Records(f) PROVE p \in Records(g)
    <3>1. /\ p = <<p[1], p[2]>> /\ p[1] \in DOMAIN f /\ p[2] \in DOMAIN f[p[1]]
          /\ f[p[1]][p[2]].kind = "rec"
      BY RecordsAre
    <3>2. p[1] \in DOMAIN g /\ g[p[1]] = f[p[1]]
      BY <1>0, <1>1, <3>1
    <3> QED
      BY <3>1, <3>2, RecordsAre
  <2> QED
    BY <2>1, <2>3
<1>5. \A p \in Records(f) : BlockAt(g, p) = BlockAt(f, p)
  BY <1>1, RecordsAre DEF BlockAt
<1>6. g # <<>>
  BY <1>1
<1> QED
  BY <1>1, <1>3, <1>4, <1>5, <1>6 DEF SameRecords, g

(* A record or a torn record at the end of the last segment *)
LEMMA PutCell ==
  ASSUME NEW f \in Seq(Seq(Cell)), f # <<>>, Whole(f), NEW cell \in Cell
  PROVE  LET g == [f EXCEPT ![Len(f)] = Append(@, cell)] IN
         /\ g \in Seq(Seq(Cell)) /\ g # <<>>
         /\ cell.kind = "rec" => Whole(g) /\ OneMore(f, g, cell.block)
         /\ cell.kind = "torn" => SameRecords(f, g) /\ \A s \in DOMAIN g : CleanTail(g[s])
<1> DEFINE n == Len(f)
           g == [f EXCEPT ![n] = Append(@, cell)]
           m == Len(f[n])
<1>1. /\ n \in Nat \ {0} /\ DOMAIN f = 1..n /\ n \in DOMAIN f /\ f[n] \in Seq(Cell)
      /\ m \in Nat /\ DOMAIN f[n] = 1..m
  OBVIOUS
<1>2. /\ Append(f[n], cell) \in Seq(Cell) /\ DOMAIN Append(f[n], cell) = 1..(m + 1)
      /\ Len(Append(f[n], cell)) = m + 1
      /\ Append(f[n], cell)[m + 1] = cell /\ \A i \in 1..m : Append(f[n], cell)[i] = f[n][i]
  BY <1>1
<1>3. /\ g \in Seq(Seq(Cell)) /\ DOMAIN g = DOMAIN f
      /\ g[n] = Append(f[n], cell) /\ \A s \in DOMAIN f : s # n => g[s] = f[s]
  BY <1>1, <1>2
<1>4. g # <<>>
  BY <1>1, <1>3
<1> HIDE DEF g
<1> DEFINE q == <<n, m + 1>>
<1>5. m + 1 \in DOMAIN g[n] /\ g[n][m + 1] = cell /\ q \notin Records(f) /\ m + 1 \notin DOMAIN f[n]
  <2>1. m + 1 \notin DOMAIN f[n]
    BY <1>1
  <2>2. q \notin Records(f)
    BY <2>1, RecordsAre
  <2> QED
    BY <1>1, <1>2, <1>3, <2>1, <2>2
<1>6. ASSUME NEW s \in DOMAIN f, NEW i
      PROVE  /\ i \in DOMAIN f[s] => i \in DOMAIN g[s] /\ g[s][i] = f[s][i]
             /\ i \in DOMAIN g[s] => i \in DOMAIN f[s] \/ (s = n /\ i = m + 1)
  <2>1. CASE s # n
    BY <1>3, <2>1
  <2>2. CASE s = n
    <3>1. DOMAIN g[n] = DOMAIN f[n] \cup {m + 1}
      BY <1>1, <1>2, <1>3, UpTo
    <3> QED
      BY <1>1, <1>2, <1>3, <2>2, <3>1
  <2> QED
    BY <2>1, <2>2
<1>7. ASSUME NEW p \in Records(f)
      PROVE  p \in Records(g) /\ BlockAt(g, p) = BlockAt(f, p) /\ Before(p, q)
  <2>1. /\ p = <<p[1], p[2]>> /\ p[1] \in DOMAIN f /\ p[2] \in DOMAIN f[p[1]]
        /\ f[p[1]][p[2]].kind = "rec"
    BY RecordsAre
  <2>2. p[2] \in DOMAIN g[p[1]] /\ g[p[1]][p[2]] = f[p[1]][p[2]]
    BY <1>6, <2>1
  <2>3. p \in Records(g) /\ BlockAt(g, p) = BlockAt(f, p)
    BY <1>3, <2>1, <2>2, RecordsAre DEF BlockAt
  <2>4. p[1] < n \/ (p[1] = n /\ p[2] < m + 1)
    BY <1>1, <2>1
  <2> QED
    BY <2>3, <2>4 DEF Before
<1>8. ASSUME NEW p \in Records(g) PROVE p \in Records(f) \/ (p = q /\ cell.kind = "rec")
  <2>1. /\ p = <<p[1], p[2]>> /\ p[1] \in DOMAIN f /\ p[2] \in DOMAIN g[p[1]]
        /\ g[p[1]][p[2]].kind = "rec"
    BY <1>3, RecordsAre
  <2>2. CASE p[2] \in DOMAIN f[p[1]]
    BY <1>6, <2>1, <2>2, RecordsAre
  <2>3. CASE p[1] = n /\ p[2] = m + 1
    BY <1>5, <2>1, <2>3
  <2> QED
    BY <1>6, <2>1, <2>2, <2>3
<1>9. ASSUME cell.kind = "rec" PROVE Whole(g) /\ OneMore(f, g, cell.block)
  <2>1. Whole(g)
    <3> SUFFICES ASSUME NEW s \in DOMAIN f, NEW i \in DOMAIN g[s]
                 PROVE  g[s][i].kind = "rec"
      BY <1>3 DEF Whole
    <3>1. CASE i \in DOMAIN f[s]
      BY <1>6, <3>1 DEF Whole
    <3>2. CASE s = n /\ i = m + 1
      BY <1>5, <1>9, <3>2
    <3> QED
      BY <1>6, <3>1, <3>2
  <2>2. q \in Records(g) /\ BlockAt(g, q) = cell.block
    BY <1>1, <1>3, <1>5, <1>9, RecordsAre DEF BlockAt
  <2>3. Records(g) = Records(f) \cup {q}
    BY <1>7, <1>8, <2>2
  <2> QED
    BY <1>5, <1>7, <2>1, <2>2, <2>3 DEF OneMore
<1>10. ASSUME cell.kind = "torn"
       PROVE  SameRecords(f, g) /\ \A s \in DOMAIN g : CleanTail(g[s])
  <2>1. SameRecords(f, g)
    BY <1>7, <1>8, <1>10 DEF SameRecords
  <2>2. ASSUME NEW s \in DOMAIN g PROVE CleanTail(g[s])
    <3>1. \A i \in DOMAIN g[s] :
            g[s][i].kind = "rec" \/ (g[s][i].kind = "torn" /\ s = n /\ i = m + 1)
      BY <1>3, <1>5, <1>6, <1>10 DEF Whole
    <3>2. Len(g[n]) = m + 1
      BY <1>2, <1>3
    <3> QED
      BY <3>1, <3>2 DEF CleanTail
  <2> QED
    BY <2>1, <2>2
<1> QED
  BY <1>3, <1>4, <1>9, <1>10 DEF g

(* What an append leaves: one record more, or the records that were there *)
LEMMA WroteIs ==
  ASSUME segs \in Seq(Seq(Cell)), segs # <<>>, Whole(segs), NEW b \in Block,
         NEW residue \in {"none", "torn", "rec"}
  PROVE  LET g == Wrote(b, residue) IN
         /\ g \in Seq(Seq(Cell)) /\ g # <<>> /\ \A s \in DOMAIN g : CleanTail(g[s])
         /\ residue # "torn" => Whole(g)
         /\ residue = "rec" => OneMore(segs, g, b)
         /\ residue # "rec" => SameRecords(segs, g)
<1> DEFINE f == IF MustRotate(b) THEN Append(segs, <<>>) ELSE segs
           cell == [kind |-> residue, block |-> b]
           h == [f EXCEPT ![Len(f)] = Append(@, cell)]
           g == Wrote(b, residue)
<1>1. f \in Seq(Seq(Cell)) /\ f # <<>> /\ Whole(f) /\ SameRecords(segs, f)
  <2>1. SameRecords(segs, segs)
    BY DEF SameRecords
  <2> QED
    BY <2>1, NewSegment
<1>2. g = IF residue = "none" THEN f ELSE h
  BY DEF Wrote
<1> HIDE DEF f, g
<1>3. \A k : Whole(k) => \A s \in DOMAIN k : CleanTail(k[s])
  BY DEF Whole, CleanTail
<1>4. CASE residue = "none"
  BY <1>1, <1>2, <1>3, <1>4 DEF g
<1>5. CASE residue # "none"
  <2>1. cell \in Cell /\ cell.kind = residue /\ cell.block = b
    BY <1>5 DEF Cell, Residue
  <2> HIDE DEF cell
  <2>2. /\ g \in Seq(Seq(Cell)) /\ g # <<>>
        /\ residue = "rec" => Whole(g) /\ OneMore(f, g, b)
        /\ residue = "torn" => SameRecords(f, g) /\ \A s \in DOMAIN g : CleanTail(g[s])
    BY <1>1, <1>2, <1>5, <2>1, PutCell
  <2>3. OneMore(f, g, b) => OneMore(segs, g, b)
    BY <1>1 DEF OneMore, SameRecords
  <2>4. SameRecords(f, g) => SameRecords(segs, g)
    BY <1>1 DEF SameRecords
  <2> QED
    BY <1>3, <1>5, <2>2, <2>3, <2>4 DEF g
<1> QED
  BY <1>4, <1>5
-------------------------------------------------------------------------------
(* Whatever fault has happened: files *)

(* The blocks that are stored, by segment and position *)
LEMMA StoredIs ==
  ASSUME NEW f
  PROVE  \A b : b \in Stored(f) <=>
           \E s \in DOMAIN f : \E i \in DOMAIN f[s] : f[s][i].kind = "rec" /\ f[s][i].block = b
<1>1. ASSUME NEW b, NEW s \in DOMAIN f, NEW i \in DOMAIN f[s], f[s][i].kind = "rec", f[s][i].block = b
      PROVE  b \in Stored(f)
  <2>1. <<s, i>> \in Records(f)
    BY <1>1, RecordsAre
  <2>2. BlockAt(f, <<s, i>>) = b
    BY <1>1 DEF BlockAt
  <2> QED
    BY <2>1, <2>2 DEF Stored
<1>2. ASSUME NEW p \in Records(f)
      PROVE  \E s \in DOMAIN f : \E i \in DOMAIN f[s] :
               f[s][i].kind = "rec" /\ f[s][i].block = BlockAt(f, p)
  BY RecordsAre DEF BlockAt
<1> QED
  BY <1>1, <1>2 DEF Stored

(* What is stored are blocks. *)
LEMMA StoredType ==
  ASSUME NEW f \in Seq(Seq(Cell))
  PROVE  Stored(f) \subseteq Block
<1>1. \A s \in DOMAIN f : \A i \in DOMAIN f[s] : f[s][i] \in Cell
  OBVIOUS
<1>2. \A c \in Cell : c.block \in Block
  BY DEF Cell
<1> QED
  BY <1>1, <1>2, StoredIs

(* Files whose segments are beginnings of the segments of others store no    *)
(* block that those do not.                                                  *)
LEMMA ShorterStores ==
  ASSUME NEW f, NEW g, DOMAIN g \subseteq DOMAIN f,
         \A s \in DOMAIN g : \A i \in DOMAIN g[s] : i \in DOMAIN f[s] /\ g[s][i] = f[s][i]
  PROVE  Stored(g) \subseteq Stored(f)
BY StoredIs

(* Intact returns a beginning of the segment. *)
LEMMA IntactType ==
  ASSUME NEW seg \in Seq(Cell)
  PROVE  /\ Intact(seg) \in Seq(Cell) /\ DOMAIN Intact(seg) \subseteq DOMAIN seg
         /\ \A i \in DOMAIN Intact(seg) : Intact(seg)[i] = seg[i]
<1> DEFINE bad == {i \in DOMAIN seg : Damaged(seg, i)}
           m == Min(bad)
<1>1. Intact(seg) = IF bad = {} THEN seg ELSE SubSeq(seg, 1, m - 1)
  BY DEF Intact
<1>2. CASE bad = {}
  BY <1>1, <1>2
<1>3. CASE bad # {}
  <2>1. bad \subseteq Nat /\ bad \subseteq 1..Len(seg) /\ Len(seg) \in Nat
    OBVIOUS
  <2>2. \E x \in bad : \A y \in bad : x <= y
    <3> DEFINE Less == OpToRel(<, Nat)
    <3>1. IsWellFoundedOn(Less, Nat)
      BY NatLessThanWellFounded
    <3>2. \A x, y \in Nat : y < x => <<y, x>> \in Less
      BY DEF OpToRel
    <3> HIDE DEF Less, bad
    <3>3. PICK x \in bad : \A y \in bad : ~(<<y, x>> \in Less)
      BY <1>3, <2>1, <3>1, WFMin
    <3>4. ASSUME NEW y \in bad PROVE x <= y
      <4>1. x \in Nat /\ y \in Nat /\ ~(y < x)
        BY <2>1, <3>2, <3>3
      <4> QED
        BY <4>1
    <3> QED
      BY <3>4
  <2>3. m \in bad
    <3> HIDE DEF bad
    <3> QED
      BY <2>2 DEF Min
  <2>4. m \in 1..Len(seg)
    BY <2>1, <2>3
  <2> HIDE DEF m
  <2>5. /\ SubSeq(seg, 1, m - 1) \in Seq(Cell) /\ DOMAIN SubSeq(seg, 1, m - 1) = 1..(m - 1)
        /\ \A i \in 1..(m - 1) : SubSeq(seg, 1, m - 1)[i] = seg[i]
    BY <2>4
  <2>6. 1..(m - 1) \subseteq DOMAIN seg
    BY <2>4
  <2> QED
    BY <1>1, <1>3, <2>5, <2>6
<1> QED
  BY <1>2, <1>3

(* Recovery stores nothing new. *)
LEMMA RecoverType ==
  ASSUME NEW f \in Seq(Seq(Cell))
  PROVE  LET files == OpenActive(RecoverSegments(f))
         IN  files \in Seq(Seq(Cell)) /\ files # <<>> /\ Stored(files) \subseteq Stored(f)
<1> DEFINE g == RecoverSegments(f)
<1> SUFFICES /\ OpenActive(g) \in Seq(Seq(Cell)) /\ OpenActive(g) # <<>>
             /\ Stored(OpenActive(g)) \subseteq Stored(f)
  OBVIOUS
<1>1. g = [s \in DOMAIN f |-> Intact(f[s])] /\ DOMAIN f = 1..Len(f) /\ Len(f) \in Nat
  BY DEF RecoverSegments
<1>2. ASSUME NEW s \in DOMAIN f
      PROVE  /\ g[s] \in Seq(Cell)
             /\ \A i \in DOMAIN g[s] : i \in DOMAIN f[s] /\ g[s][i] = f[s][i]
  <2>1. f[s] \in Seq(Cell) /\ g[s] = Intact(f[s])
    BY <1>1
  <2> QED
    BY <2>1, IntactType
<1>3. g \in Seq(Seq(Cell)) /\ DOMAIN g = DOMAIN f
  <2>1. g \in [1..Len(f) -> Seq(Cell)]
    BY <1>1, <1>2
  <2> QED
    BY <1>1, <2>1
<1> HIDE DEF g
<1>4. Stored(g) \subseteq Stored(f)
  BY <1>2, <1>3, ShorterStores
<1>5. CASE g = <<>>
  <2>1. OpenActive(g) = << <<>> >>
    BY <1>5 DEF OpenActive
  <2>2. << <<>> >> \in Seq(Seq(Cell)) /\ << <<>> >> # <<>>
    OBVIOUS
  <2>3. Stored(<< <<>> >>) = {}
    <3>1. \A s \in DOMAIN << <<>> >> : DOMAIN (<< <<>> >>[s]) = {}
      OBVIOUS
    <3> QED
      BY <3>1, StoredIs
  <2> QED
    BY <2>1, <2>2, <2>3
<1>6. CASE g # <<>>
  BY <1>3, <1>4, <1>6 DEF OpenActive
<1> QED
  BY <1>5, <1>6

(* An append, whatever it leaves, stores its block at most. *)
LEMMA WroteType ==
  ASSUME segs \in Seq(Seq(Cell)), segs # <<>>, NEW b \in Block, NEW residue \in Residue
  PROVE  /\ Wrote(b, residue) \in Seq(Seq(Cell)) /\ Wrote(b, residue) # <<>>
         /\ Stored(Wrote(b, residue)) \subseteq Stored(segs) \cup {b}
<1> DEFINE f == IF MustRotate(b) THEN Append(segs, <<>>) ELSE segs
           n == Len(f)
           cell == [kind |-> residue, block |-> b]
           g == [f EXCEPT ![n] = Append(@, cell)]
<1>1. f \in Seq(Seq(Cell)) /\ f # <<>> /\ Stored(f) \subseteq Stored(segs)
  <2>1. CASE MustRotate(b)
    <3> DEFINE k == Append(segs, <<>>)
               l == Len(segs)
    <3>1. /\ k \in Seq(Seq(Cell)) /\ l \in Nat /\ DOMAIN k = 1..(l + 1) /\ DOMAIN segs = 1..l
          /\ k[l + 1] = <<>> /\ \A s \in 1..l : k[s] = segs[s]
      <4>1. <<>> \in Seq(Cell)
        OBVIOUS
      <4> QED
        BY <4>1
    <3> HIDE DEF k
    <3>2. k # <<>>
      BY <3>1
    <3>3. ASSUME NEW c, NEW s \in DOMAIN k, NEW i \in DOMAIN k[s], k[s][i].kind = "rec", k[s][i].block = c
          PROVE  c \in Stored(segs)
      <4>1. s # l + 1
        BY <3>1
      <4>2. s \in DOMAIN segs /\ k[s] = segs[s]
        BY <3>1, <4>1, UpTo
      <4> QED
        BY <3>3, <4>2, StoredIs
    <3>4. Stored(k) \subseteq Stored(segs)
      BY <3>3, StoredIs
    <3>5. f = k
      BY <2>1 DEF k
    <3> QED
      BY <3>1, <3>2, <3>4, <3>5
  <2>2. CASE ~MustRotate(b)
    BY <2>2
  <2> QED
    BY <2>1, <2>2
<1>2. Wrote(b, residue) = IF residue = "none" THEN f ELSE g
  BY DEF Wrote
<1> HIDE DEF f
<1>3. CASE residue = "none"
  BY <1>1, <1>2, <1>3
<1>4. CASE residue # "none"
  <2>1. cell \in Cell /\ cell.block = b
    BY <1>4 DEF Cell
  <2> HIDE DEF cell
  <2> DEFINE m == Len(f[n])
  <2>2. n \in DOMAIN f /\ f[n] \in Seq(Cell) /\ m \in Nat /\ DOMAIN f[n] = 1..m
    BY <1>1
  <2>3. /\ Append(f[n], cell) \in Seq(Cell) /\ DOMAIN Append(f[n], cell) = 1..(m + 1)
        /\ Append(f[n], cell)[m + 1] = cell /\ \A i \in 1..m : Append(f[n], cell)[i] = f[n][i]
    BY <2>1, <2>2
  <2>4. /\ g \in Seq(Seq(Cell)) /\ DOMAIN g = DOMAIN f /\ g[n] = Append(f[n], cell)
        /\ \A s \in DOMAIN f : s # n => g[s] = f[s]
    BY <1>1, <2>2, <2>3
  <2>5. g # <<>>
    BY <2>2, <2>4
  <2> HIDE DEF g, n, m
  <2>6. ASSUME NEW c, NEW s \in DOMAIN g, NEW i \in DOMAIN g[s], g[s][i].kind = "rec", g[s][i].block = c
        PROVE  c \in Stored(f) \cup {b}
    <3>1. CASE s # n
      BY <2>4, <2>6, <3>1, StoredIs
    <3>2. CASE s = n /\ i \in 1..m
      <4>1. g[n][i] = f[n][i] /\ i \in DOMAIN f[n] /\ n \in DOMAIN f
        BY <2>2, <2>3, <2>4, <3>2
      <4> QED
        BY <2>6, <3>2, <4>1, StoredIs
    <3>3. CASE s = n /\ i = m + 1
      BY <2>1, <2>3, <2>4, <2>6, <3>3
    <3>4. s = n => i \in 1..m \/ i = m + 1
      BY <2>2, <2>3, <2>4, UpTo
    <3> QED
      BY <3>1, <3>2, <3>3, <3>4
  <2>7. Stored(g) \subseteq Stored(f) \cup {b}
    BY <2>6, StoredIs
  <2> QED
    BY <1>1, <1>2, <1>4, <2>4, <2>5, <2>7
<1> QED
  BY <1>3, <1>4

(* An index that applyLoaded accepts is a chain of stored blocks. *)
LEMMA IndexLoads ==
  ASSUME NEW f \in Seq(Seq(Cell)), Loads(Index(f))
  PROVE  Index(f) \in Seq(Block) /\ Numbered(Index(f)) /\ OfChain(Index(f)) \subseteq Stored(f)
<1> DEFINE H == {BlockAt(f, p).height : p \in Records(f)}
           index == Index(f)
<1>1. Stored(f) \subseteq Block
  BY StoredType
<1>2. /\ index = [h \in H |-> CHOOSE b \in Stored(f) : Holds(f, h, b)]
      /\ \A h \in H : index[h] \in Stored(f) /\ index[h].height = h
  <2>1. index = [h \in H |-> CHOOSE b \in Stored(f) : Holds(f, h, b)]
    BY DEF Index, Stored
  <2>2. ASSUME NEW h \in H PROVE \E b \in Stored(f) : Holds(f, h, b)
    BY LastRecord DEF Stored
  <2>3. \A h, b : Holds(f, h, b) => b.height = h
    BY DEF Holds
  <2> HIDE DEF H, index
  <2> QED
    BY <2>1, <2>2, <2>3
<1>3. H \subseteq 1..MaxBlocks /\ MaxBlocks \in Nat
  <2>1. \A h \in H : \E b \in Stored(f) : h = b.height
    BY DEF Stored
  <2> HIDE DEF H
  <2> QED
    BY <1>1, <2>1, BoundsAssumption DEF Block
<1>4. \A h \in H : h = 1 \/ h - 1 \in H
  <2>1. DOMAIN index = H
    BY <1>2
  <2> QED
    BY <2>1 DEF Loads
<1> HIDE DEF H, index
<1>5. \E g \in Nat : H = 1..g
  <2>1. CASE H = {}
    <3>1. H = 1..0
      BY <2>1
    <3> QED
      BY <3>1
  <2>2. CASE H # {}
    <3>1. H \subseteq Nat /\ \A x \in H : x <= MaxBlocks
      BY <1>3
    <3>2. PICK g \in H : \A y \in H : y <= g
      BY <1>3, <2>2, <3>1, Greatest
    <3> DEFINE T == {x \in 1..g : x \notin H}
    <3>3. T = {}
      <4> SUFFICES ASSUME T # {} PROVE FALSE
        OBVIOUS
      <4>1. g \in Nat /\ T \subseteq Nat /\ \A x \in T : x <= g
        BY <3>1
      <4> HIDE DEF T
      <4>2. PICK m \in T : \A y \in T : y <= m
        BY <4>1, Greatest
      <4>3. m \in 1..g /\ m \notin H
        BY <4>2 DEF T
      <4>4. m + 1 \in 1..g
        BY <4>1, <4>3, <3>2
      <4>5. m + 1 \in H
        BY <4>1, <4>2, <4>4 DEF T
      <4>6. m + 1 # 1 /\ (m + 1) - 1 = m
        BY <4>1, <4>3
      <4> QED
        BY <1>4, <4>3, <4>5, <4>6
    <3>4. H = 1..g
      <4>1. \A x \in H : x \in 1..g
        BY <1>3, <3>1, <3>2
      <4>2. \A x \in 1..g : x \in H
        BY <3>3
      <4> QED
        BY <4>1, <4>2
    <3> QED
      BY <3>1, <3>4
  <2> QED
    BY <2>1, <2>2
<1>6. PICK g \in Nat : H = 1..g
  BY <1>5
<1>7. DOMAIN index = 1..g /\ \A h \in 1..g : index[h] \in Stored(f) /\ index[h].height = h
  BY <1>2, <1>6
<1>8. index \in [1..g -> Block]
  <2>1. index = [h \in 1..g |-> index[h]]
    BY <1>2, <1>6
  <2> QED
    BY <1>1, <1>7, <2>1
<1>9. index \in Seq(Block)
  BY <1>6, <1>8
<1> QED
  BY <1>7, <1>9 DEF index, Numbered, OfChain
-------------------------------------------------------------------------------
(* Whatever fault has happened: steps *)

(* What a fault does to its counters *)
LEMMA FaultCounts ==
  ASSUME Base, UNCHANGED <<faults, sound>> \/ \E harmful \in BOOLEAN : Fault(harmful)
  PROVE  faults' \in 0..MaxFaults /\ sound' \in BOOLEAN /\ (sound' => sound)
<1>1. CASE UNCHANGED <<faults, sound>>
  BY <1>1 DEF Base, Typed
<1>2. ASSUME NEW harmful \in BOOLEAN, Fault(harmful)
      PROVE  faults' \in 0..MaxFaults /\ sound' \in BOOLEAN /\ (sound' => sound)
  <2>1. faults < MaxFaults /\ faults' = faults + 1 /\ faults \in 0..MaxFaults /\ MaxFaults \in Nat
    BY <1>2, BoundsAssumption DEF Fault, Base, Typed
  <2>2. faults' \in 0..MaxFaults
    BY <2>1
  <2>3. sound' = (sound /\ ~harmful) /\ sound \in BOOLEAN
    BY <1>2 DEF Fault, Base, Typed
  <2>4. sound' \in BOOLEAN /\ (sound' => sound)
    BY <2>3
  <2> QED
    BY <2>2, <2>4
<1> QED
  BY <1>1, <1>2

(* The log continues the served chain or is its last block. *)
LEMMA LogFits ==
  ASSUME Base, wal # NoBlock
  PROVE  /\ wal \in Block /\ wal \in Known
         /\ Continues(wal, served) \/ (served # <<>> /\ wal = LastBlock(served))
         /\ wal.height \in 1..(Len(served) + 1)
<1>1. wal \in Block /\ wal \in Known /\ served \in Seq(Block)
  BY DEF Base, Typed, Known
<1>2. Continues(wal, served) \/ (served # <<>> /\ wal = LastBlock(served))
  BY DEF Base, LogAnchored, Continues, LastBlock
<1>3. CASE Continues(wal, served)
  BY <1>1, <1>2, <1>3 DEF Continues
<1>4. CASE served # <<>> /\ wal = LastBlock(served)
  <2>1. wal = served[Len(served)] /\ Len(served) \in DOMAIN served /\ Len(served) \in Nat
    BY <1>1, <1>4 DEF LastBlock
  <2>2. wal.height = Len(served)
    BY <2>1 DEF Base, Held, Numbered
  <2>3. Len(served) \in 1..(Len(served) + 1)
    BY <2>1
  <2> QED
    BY <1>1, <1>2, <2>2, <2>3
<1> QED
  BY <1>2, <1>3, <1>4

(* Identities stay what they are when no block is built. *)
LEMMA StillIdentified ==
  ASSUME Base, Known' \subseteq Known, made' = made
  PROVE  Identified'
BY DEF Base, Identified

(* The process stops. *)
LEMMA StopBase ==
  ASSUME Base, Stopped, UNCHANGED <<served, wal, made>>,
         segs' \in Seq(Seq(Cell)), Stored(segs') \subseteq Known, lock' \in BOOLEAN,
         UNCHANGED <<faults, sound>> \/ \E harmful \in BOOLEAN : Fault(harmful)
  PROVE  Base'
<1>1. faults' \in 0..MaxFaults /\ sound' \in BOOLEAN
  BY FaultCounts
<1>2. Typed'
  <2>1. <<>> \in Seq(Block)
    OBVIOUS
  <2>2. activeOpen' \in BOOLEAN
    BY DEF Stopped
  <2>3. /\ wal' \in Block \cup {NoBlock} /\ made' \in 0..MaxBlocks /\ served' \in Seq(Block)
    BY DEF Base, Typed
  <2> QED
    BY <1>1, <2>1, <2>2, <2>3 DEF Typed, Stopped
<1>3. Identified'
  <2>1. OfChain(blocks') = {}
    BY DEF Stopped, OfChain
  <2>2. Known' \subseteq Known
    BY <2>1 DEF Known, Stopped
  <2> QED
    BY <2>2, StillIdentified
<1>4. LogAnchored'
  BY DEF Base, LogAnchored
<1>5. Held'
  BY DEF Base, Held, Numbered, Stopped
<1> QED
  BY <1>2, <1>3, <1>4, <1>5 DEF Base

(* LoadSegments and ReadFails truncate, and a chain is loaded or none. *)
LEMMA LoadBase == Base /\ LoadSegments => Base'
<1> SUFFICES ASSUME Base, LoadSegments PROVE Base'
  OBVIOUS
<1> DEFINE files == OpenActive(RecoverSegments(segs))
           index == Index(files)
<1>1. segs \in Seq(Seq(Cell)) /\ served \in Seq(Block)
  BY DEF Base, Typed
<1>2. files \in Seq(Seq(Cell)) /\ files # <<>> /\ Stored(files) \subseteq Stored(segs)
  BY <1>1, RecoverType
<1> HIDE DEF files, index
<1>3. /\ segs' = files /\ UNCHANGED <<wal, lock, made, faults, sound, served>>
      /\ \/ Loads(index) /\ pc' = "loaded" /\ blocks' = index /\ activeOpen' = TRUE /\ UNCHANGED pending
         \/ Stopped
  BY DEF LoadSegments, files, index
<1>4. CASE Stopped
  <2>1. segs' \in Seq(Seq(Cell)) /\ Stored(segs') \subseteq Known /\ lock' \in BOOLEAN
    BY <1>2, <1>3 DEF Known, Base, Typed
  <2> QED
    BY <1>3, <1>4, <2>1, StopBase
<1>5. CASE Loads(index) /\ pc' = "loaded" /\ blocks' = index /\ activeOpen' = TRUE /\ UNCHANGED pending
  <2>1. index \in Seq(Block) /\ Numbered(index) /\ OfChain(index) \subseteq Stored(files)
    BY <1>2, <1>5, IndexLoads DEF index
  <2>2. Typed'
    <3>1. activeOpen' \in BOOLEAN
      BY <1>5
    <3> QED
      BY <1>2, <1>3, <1>5, <2>1, <3>1 DEF Base, Typed
  <2>3. Known' \subseteq Known
    BY <1>2, <1>3, <1>5, <2>1 DEF Known
  <2>4. LogAnchored'
    BY <1>3 DEF Base, LogAnchored
  <2>5. Held'
    BY <1>2, <1>3, <1>5, <2>1 DEF Base, Held, Numbered
  <2> QED
    BY <1>3, <2>2, <2>3, <2>4, <2>5, StillIdentified DEF Base
<1> QED
  BY <1>3, <1>4, <1>5

LEMMA ReadFailsBase == Base /\ ReadFails => Base'
<1> SUFFICES ASSUME Base, ReadFails PROVE Base'
  OBVIOUS
<1>1. /\ pc = "locked" /\ Fault(TRUE)
      /\ UNCHANGED <<wal, lock, pc, blocks, pending, activeOpen, made, served>>
  BY DEF ReadFails
<1>2. PICK s \in DOMAIN segs : \E i \in DOMAIN Intact(segs[s]) :
        segs' = [segs EXCEPT ![s] = SubSeq(@, 1, i - 1)]
  BY DEF ReadFails
<1>3. PICK i \in DOMAIN Intact(segs[s]) : segs' = [segs EXCEPT ![s] = SubSeq(@, 1, i - 1)]
  BY <1>2
<1>4. segs \in Seq(Seq(Cell)) /\ segs[s] \in Seq(Cell)
  BY DEF Base, Typed
<1>5. i \in 1..Len(segs[s])
  BY <1>4, IntactType
<1> DEFINE t == SubSeq(segs[s], 1, i - 1)
<1>6. t \in Seq(Cell) /\ DOMAIN t = 1..(i - 1) /\ \A j \in 1..(i - 1) : t[j] = segs[s][j]
  BY <1>4, <1>5
<1>7. 1..(i - 1) \subseteq DOMAIN segs[s]
  BY <1>4, <1>5
<1> HIDE DEF t
<1>8. segs' = [segs EXCEPT ![s] = t]
  BY <1>3 DEF t
<1>9. segs' \in Seq(Seq(Cell)) /\ DOMAIN segs' = DOMAIN segs
  BY <1>4, <1>6, <1>8
<1>10. Stored(segs') \subseteq Stored(segs)
  <2>1. ASSUME NEW r \in DOMAIN segs', NEW j \in DOMAIN segs'[r]
        PROVE  j \in DOMAIN segs[r] /\ segs'[r][j] = segs[r][j]
    <3>1. CASE r # s
      BY <1>4, <1>8, <3>1
    <3>2. CASE r = s
      <4>1. segs'[s] = t
        BY <1>4, <1>8
      <4> QED
        BY <1>6, <1>7, <3>2, <4>1
    <3> QED
      BY <3>1, <3>2
  <2> QED
    BY <1>9, <2>1, ShorterStores
<1>11. faults' \in 0..MaxFaults /\ sound' \in BOOLEAN
  BY <1>1, FaultCounts
<1>12. Typed'
  BY <1>1, <1>9, <1>11 DEF Base, Typed
<1>13. Known' \subseteq Known
  BY <1>1, <1>10 DEF Known
<1>14. LogAnchored' /\ Held'
  BY <1>1 DEF Base, LogAnchored, Held
<1> QED
  BY <1>1, <1>12, <1>13, <1>14, StillIdentified DEF Base

(* Two known blocks with one identity are one block. *)
LEMMA SameIdentity ==
  ASSUME Base, NEW b \in Known, wal # NoBlock, b.id = wal.id
  PROVE  b = wal
BY LogFits DEF Base, Identified

(* The last block of a chain is one of its blocks. *)
LEMMA LastOf ==
  ASSUME NEW chain \in Seq(Block), chain # <<>>
  PROVE  /\ LastBlock(chain) = chain[Len(chain)] /\ LastBlock(chain) \in Block
         /\ Len(chain) \in DOMAIN chain /\ LastBlock(chain) \in OfChain(chain)
<1>1. Len(chain) \in DOMAIN chain /\ chain[Len(chain)] \in Block
  OBVIOUS
<1> QED
  BY <1>1 DEF LastBlock, OfChain

(* Replaying no log serves what was loaded. *)
LEMMA ReplayNothingBase == Base /\ ReplayNothing => Base'
<1> SUFFICES ASSUME Base, ReplayNothing PROVE Base'
  OBVIOUS
<1>1. /\ pc = "loaded" /\ pc' = "ready" /\ blocks' = blocks /\ served' = blocks
      /\ UNCHANGED <<segs, lock, pending, activeOpen, made>>
      /\ wal' \in {wal, NoBlock} /\ (wal = NoBlock \/ LastBlock(blocks).id = wal.id)
      /\ UNCHANGED <<faults, sound>> \/ Fault(FALSE)
  BY DEF ReplayNothing, Ready
<1>2. faults' \in 0..MaxFaults /\ sound' \in BOOLEAN
  BY <1>1, FaultCounts
<1>3. Typed'
  BY <1>1, <1>2 DEF Base, Typed
<1>4. Known' \subseteq Known
  BY <1>1 DEF Known
<1>5. LogAnchored'
  <2>1. CASE wal = NoBlock
    BY <1>1, <2>1 DEF LogAnchored
  <2>2. CASE wal # NoBlock
    <3>1. wal \in Block /\ wal.id # 0 /\ blocks \in Seq(Block)
      BY <2>2 DEF Base, Typed, Block
    <3>2. blocks # <<>>
      BY <1>1, <2>2, <3>1 DEF LastBlock, NoBlock
    <3>3. LastBlock(blocks) \in Known
      BY <3>1, <3>2, LastOf DEF Known
    <3>4. LastBlock(blocks) = wal
      BY <1>1, <2>2, <3>3, SameIdentity
    <3> QED
      BY <1>1, <3>4 DEF LogAnchored
  <2> QED
    BY <2>1, <2>2
<1>6. Held'
  BY <1>1 DEF Base, Held
<1> QED
  BY <1>1, <1>3, <1>4, <1>5, <1>6, StillIdentified DEF Base

(* The log is appended to the segments. *)
LEMMA ReplayAppendsBase == Base /\ ReplayAppends => Base'
<1> SUFFICES ASSUME Base, ReplayAppends PROVE Base'
  OBVIOUS
<1>1. /\ pc = "loaded" /\ wal # NoBlock /\ segs' = Wrote(wal, "rec") /\ pc' = "replayed"
      /\ UNCHANGED <<wal, lock, blocks, pending, made, served, activeOpen, faults, sound>>
  BY DEF ReplayAppends, MustReplay, AppendSucceeds
<1>2. segs \in Seq(Seq(Cell)) /\ segs # <<>> /\ wal \in Block /\ wal \in Known
  BY <1>1, LogFits DEF Base, Typed, Held
<1>3. segs' \in Seq(Seq(Cell)) /\ segs' # <<>> /\ Stored(segs') \subseteq Stored(segs) \cup {wal}
  BY <1>1, <1>2, WroteType DEF Residue
<1>4. Typed'
  BY <1>1, <1>3 DEF Base, Typed
<1>5. Known' \subseteq Known
  BY <1>1, <1>2, <1>3 DEF Known
<1>6. LogAnchored' /\ Held'
  BY <1>1, <1>3 DEF Base, LogAnchored, Held
<1> QED
  BY <1>1, <1>4, <1>5, <1>6, StillIdentified DEF Base

(* The replayed log is served if it continues what was loaded. *)
LEMMA ReplayAppliesBase == Base /\ ReplayApplies => Base'
<1> SUFFICES ASSUME Base, ReplayApplies PROVE Base'
  OBVIOUS
<1> DEFINE c == Append(blocks, wal)
<1>1. /\ pc = "replayed" /\ wal.height = Len(blocks) + 1
      /\ pc' = "ready" /\ blocks' = c /\ served' = c /\ wal' \in {wal, NoBlock}
      /\ UNCHANGED <<segs, lock, pending, activeOpen, made>>
      /\ UNCHANGED <<faults, sound>> \/ Fault(FALSE)
  BY DEF ReplayApplies, Ready
<1>2. wal # NoBlock /\ wal \in Block /\ blocks \in Seq(Block) /\ wal \in Known
  BY <1>1, LogFits DEF Base, Held, Typed
<1>3. /\ c \in Seq(Block) /\ LastBlock(c) = wal /\ DOMAIN c = 1..(Len(blocks) + 1)
      /\ DOMAIN blocks = 1..Len(blocks) /\ Len(blocks) \in Nat
      /\ c[Len(blocks) + 1] = wal /\ \A h \in DOMAIN blocks : c[h] = blocks[h]
  BY <1>2, AppendOne
<1> HIDE DEF c
<1>4. Numbered(c) /\ OfChain(c) \subseteq OfChain(blocks) \cup {wal}
  <2>1. DOMAIN c = DOMAIN blocks \cup {Len(blocks) + 1}
    BY <1>3, UpTo
  <2>2. Numbered(blocks)
    BY DEF Base, Held
  <2> QED
    BY <1>1, <1>3, <2>1, <2>2 DEF Numbered, OfChain
<1>5. faults' \in 0..MaxFaults /\ sound' \in BOOLEAN
  BY <1>1, FaultCounts
<1>6. Typed'
  BY <1>1, <1>3, <1>5 DEF Base, Typed
<1>7. Known' \subseteq Known
  BY <1>1, <1>2, <1>4 DEF Known
<1>8. LogAnchored'
  BY <1>1, <1>3 DEF LogAnchored
<1>9. Held'
  BY <1>1, <1>4 DEF Base, Held
<1> QED
  BY <1>1, <1>6, <1>7, <1>8, <1>9, StillIdentified DEF Base

(* The block in flight is the log. *)
LEMMA InFlightIsLog ==
  Base /\ InFlight # NoBlock => InFlight = wal /\ wal # NoBlock /\ pc \in {"logged", "loaded"}
BY DEF Base, Held, InFlight, MustReplay

(* The steps that stop the process leave the log where it was. *)
LEMMA StopsBase ==
  ASSUME Base, ReplayAppendFails \/ ReplayRejected \/ Close \/ Crash
  PROVE  Base'
<1>1. /\ Stopped /\ UNCHANGED <<wal, made, served>> /\ lock' \in BOOLEAN
      /\ UNCHANGED <<faults, sound>> \/ \E harmful \in BOOLEAN : Fault(harmful)
      /\ \/ segs' = segs
         \/ /\ wal # NoBlock /\ pc \in {"logged", "loaded"}
            /\ \E residue \in Residue : segs' = Wrote(wal, residue)
  <2>1. CASE ReplayAppendFails
    <3>1. \A residue : (residue = "hdr") \in BOOLEAN
      OBVIOUS
    <3> QED
      BY <2>1, <3>1, ResidueAssumption DEF ReplayAppendFails, MustReplay, Base, Typed
  <2>2. CASE ReplayRejected
    BY <2>2 DEF ReplayRejected, Base, Typed
  <2>3. CASE Close
    BY <2>3 DEF Close
  <2>4. CASE Crash
    <3>1. \A residue : (residue = "hdr") \in BOOLEAN
      OBVIOUS
    <3> QED
      BY <2>4, <3>1, InFlightIsLog, ResidueAssumption DEF Crash, Base, Typed
  <2> QED
    BY <2>1, <2>2, <2>3, <2>4
<1>2. segs \in Seq(Seq(Cell))
  BY DEF Base, Typed
<1>3. segs' \in Seq(Seq(Cell)) /\ Stored(segs') \subseteq Known
  <2>1. CASE segs' = segs
    BY <1>2, <2>1 DEF Known
  <2>2. ASSUME wal # NoBlock, pc \in {"logged", "loaded"},
               NEW residue \in Residue, segs' = Wrote(wal, residue)
        PROVE  segs' \in Seq(Seq(Cell)) /\ Stored(segs') \subseteq Known
    <3>1. wal \in Block /\ wal \in Known /\ segs # <<>>
      BY <2>2, LogFits DEF Base, Held
    <3>2. segs' \in Seq(Seq(Cell)) /\ Stored(segs') \subseteq Stored(segs) \cup {wal}
      BY <1>2, <2>2, <3>1, WroteType
    <3> QED
      BY <3>1, <3>2 DEF Known
  <2> QED
    BY <1>1, <2>1, <2>2
<1> QED
  BY <1>1, <1>3, StopBase

(* The lock is taken or removed. *)
LEMMA LockBase ==
  ASSUME Base, TakeLock \/ Unlock
  PROVE  Base'
<1>1. /\ UNCHANGED <<segs, wal, blocks, pending, activeOpen, made, faults, sound, served>>
      /\ pc = "down" /\ pc' \in {"down", "locked"} /\ lock' \in BOOLEAN
  BY DEF TakeLock, Unlock
<1>2. Typed'
  BY <1>1 DEF Base, Typed
<1>3. Known' \subseteq Known
  BY <1>1 DEF Known
<1>4. LogAnchored' /\ Held'
  BY <1>1 DEF Base, LogAnchored, Held
<1> QED
  BY <1>1, <1>2, <1>3, <1>4, StillIdentified DEF Base

(* The block that is logged has a new identity and continues the chain. *)
LEMMA WriteWALBase ==
  ASSUME Base, NEW size \in Sizes, WriteWAL(size)
  PROVE  Base'
<1> DEFINE b == NewBlock(size)
<1>1. /\ pc = "ready" /\ made < MaxBlocks /\ wal' = b /\ pending' = b
      /\ made' = made + 1 /\ pc' = "logged"
      /\ UNCHANGED <<segs, lock, blocks, activeOpen, faults, sound, served>>
  BY DEF WriteWAL
<1>2. /\ b.id = made + 1 /\ b.height = Len(blocks) + 1 /\ b.prev = LastBlock(blocks).id
      /\ b.size = size
      /\ b = [id |-> b.id, height |-> b.height, prev |-> b.prev, size |-> b.size]
  BY DEF NewBlock
<1> HIDE DEF b
<1>3. /\ blocks = served /\ served \in Seq(Block) /\ made \in 0..MaxBlocks /\ MaxBlocks \in Nat
  BY <1>1, BoundsAssumption DEF Base, Held, Typed
<1>4. Len(served) \in Nat /\ Len(served) <= made /\ LastBlock(served).id \in 0..MaxBlocks
  <2>1. CASE served = <<>>
    BY <1>3, <2>1 DEF LastBlock, NoBlock
  <2>2. CASE served # <<>>
    <3> DEFINE c == LastBlock(served)
    <3>1. c \in Block /\ c \in OfChain(served) /\ c = served[Len(served)] /\ Len(served) \in DOMAIN served
      BY <1>3, <2>2, LastOf
    <3>2. c.height = Len(served)
      BY <3>1 DEF Base, Held, Numbered
    <3>3. c.id <= made /\ c.height <= c.id
      BY <3>1 DEF Base, Identified, Known
    <3>4. c.id \in 1..MaxBlocks /\ c.height \in 1..MaxBlocks
      BY <3>1 DEF Block
    <3> HIDE DEF c
    <3> QED
      BY <1>3, <3>2, <3>3, <3>4 DEF c
  <2> QED
    BY <2>1, <2>2
<1>5. b \in Block /\ b.height <= b.id /\ b.id <= made' /\ b # NoBlock
  <2>1. b.id \in 1..MaxBlocks /\ b.height \in 1..MaxBlocks /\ b.prev \in 0..MaxBlocks /\ b.size \in Sizes
    BY <1>1, <1>2, <1>3, <1>4
  <2>2. b \in Block
    BY <1>2, <2>1 DEF Block
  <2>3. b.id # 0
    BY <2>1
  <2> QED
    BY <1>1, <1>2, <1>3, <1>4, <2>2, <2>3 DEF NoBlock
<1>6. Continues(b, served)
  BY <1>2, <1>3 DEF Continues
<1>7. Identified'
  <2>1. Known' \subseteq Known \cup {b}
    BY <1>1 DEF Known
  <2>2. \A c \in Known : c.id <= made /\ c.height <= c.id /\ c.id \in Nat
    <3>1. Known \subseteq Block
      <4>1. Stored(segs) \subseteq Block
        BY StoredType DEF Base, Typed
      <4>2. OfChain(blocks) \subseteq Block /\ OfChain(served) \subseteq Block
        BY DEF Base, Typed, OfChain
      <4> QED
        BY <4>1, <4>2 DEF Known, Base, Typed
    <3> QED
      BY <3>1 DEF Base, Identified, Block
  <2>3. \A c \in Known : c.id <= made' /\ c.height <= c.id /\ c.id # b.id
    BY <1>1, <1>2, <1>3, <2>2
  <2> QED
    BY <1>5, <2>1, <2>3 DEF Base, Identified
<1>8. LogAnchored'
  BY <1>1, <1>6 DEF LogAnchored, Continues
<1>9. Held'
  BY <1>1, <1>3, <1>5, <1>6 DEF Base, Held, Continues
<1>10. Typed'
  <2>1. made' \in 0..MaxBlocks
    BY <1>1, <1>3
  <2> QED
    BY <1>1, <1>5, <2>1 DEF Base, Typed
<1> QED
  BY <1>7, <1>8, <1>9, <1>10 DEF Base

(* The logged block is appended and served. *)
LEMMA CommitAppendsBase == Base /\ CommitAppends => Base'
<1> SUFFICES ASSUME Base, CommitAppends PROVE Base'
  OBVIOUS
<1> DEFINE c == Append(served, wal)
<1>1. /\ pc = "logged" /\ segs' = Wrote(pending, "rec") /\ pc' = "applied"
      /\ blocks' = Append(blocks, pending) /\ served' = blocks'
      /\ UNCHANGED <<wal, lock, pending, made, activeOpen, faults, sound>>
  BY DEF CommitAppends, AppendSucceeds
<1>2. /\ pending = wal /\ wal # NoBlock /\ Continues(wal, served) /\ blocks = served
      /\ wal \in Block /\ wal \in Known /\ served \in Seq(Block)
      /\ segs \in Seq(Seq(Cell)) /\ segs # <<>>
  BY <1>1, LogFits DEF Base, Held, Typed
<1>3. segs' \in Seq(Seq(Cell)) /\ segs' # <<>> /\ Stored(segs') \subseteq Stored(segs) \cup {wal}
  BY <1>1, <1>2, WroteType DEF Residue
<1>4. /\ c \in Seq(Block) /\ LastBlock(c) = wal /\ DOMAIN c = 1..(Len(served) + 1)
      /\ DOMAIN served = 1..Len(served) /\ Len(served) \in Nat
      /\ c[Len(served) + 1] = wal /\ \A h \in DOMAIN served : c[h] = served[h]
  BY <1>2, AppendOne
<1>5. blocks' = c /\ served' = c
  BY <1>1, <1>2
<1> HIDE DEF c
<1>6. Numbered(c) /\ OfChain(c) \subseteq OfChain(served) \cup {wal}
  <2>1. DOMAIN c = DOMAIN served \cup {Len(served) + 1}
    BY <1>4, UpTo
  <2>2. Numbered(served) /\ wal.height = Len(served) + 1
    BY <1>2 DEF Base, Held, Continues
  <2> QED
    BY <1>4, <2>1, <2>2 DEF Numbered, OfChain
<1>7. Typed'
  BY <1>1, <1>3, <1>4, <1>5 DEF Base, Typed
<1>8. Known' \subseteq Known
  BY <1>1, <1>2, <1>3, <1>5, <1>6 DEF Known
<1>9. LogAnchored'
  BY <1>1, <1>4, <1>5 DEF LogAnchored
<1>10. Held'
  BY <1>1, <1>3, <1>5, <1>6 DEF Held
<1> QED
  BY <1>1, <1>7, <1>8, <1>9, <1>10, StillIdentified DEF Base

(* What a failed append leaves is the log's block, whole or in part. *)
LEMMA CommitAppendFailsBase == Base /\ CommitAppendFails => Base'
<1> SUFFICES ASSUME Base, CommitAppendFails PROVE Base'
  OBVIOUS
<1>1. /\ pc = "logged" /\ AppendFails(pending) /\ pc' = "ready" /\ pending' = NoBlock
      /\ UNCHANGED <<wal, lock, blocks, made, served>>
  BY DEF CommitAppendFails
<1>2. /\ pending = wal /\ wal # NoBlock /\ wal \in Block /\ wal \in Known /\ blocks = served
      /\ segs \in Seq(Seq(Cell)) /\ segs # <<>>
  BY <1>1, LogFits DEF Base, Held, Typed
<1>3. /\ segs' \in Seq(Seq(Cell)) /\ segs' # <<>> /\ Stored(segs') \subseteq Stored(segs) \cup {wal}
      /\ UNCHANGED <<faults, sound>> \/ \E harmful \in BOOLEAN : Fault(harmful)
      /\ activeOpen' \in BOOLEAN
  <2>1. CASE AppendRefused(pending)
    BY <1>2, <2>1 DEF AppendRefused, Base, Typed
  <2>2. CASE RotateFails(pending)
    <3>1. "none" \in Residue /\ Wrote(wal, "none") = Append(segs, <<>>)
      BY <1>2, <2>2 DEF RotateFails, Residue, Wrote
    <3>2. /\ Append(segs, <<>>) \in Seq(Seq(Cell)) /\ Append(segs, <<>>) # <<>>
          /\ Stored(Append(segs, <<>>)) \subseteq Stored(segs) \cup {wal}
      BY <1>2, <3>1, WroteType
    <3>3. segs' = segs \/ segs' = Append(segs, <<>>)
      BY <2>2 DEF RotateFails
    <3>4. activeOpen' \in BOOLEAN /\ Fault(FALSE)
      BY <2>2 DEF RotateFails
    <3> QED
      BY <1>2, <3>2, <3>3, <3>4
  <2>3. CASE WriteFails(pending)
    <3>1. PICK residue \in FailLeft :
            segs' = Wrote(wal, residue) /\ Fault(residue \in {"torn", "hdr"})
      BY <1>2, <2>3 DEF WriteFails
    <3>2. residue \in Residue /\ (residue \in {"torn", "hdr"}) \in BOOLEAN
      BY ResidueAssumption
    <3>3. segs' \in Seq(Seq(Cell)) /\ segs' # <<>> /\ Stored(segs') \subseteq Stored(segs) \cup {wal}
      BY <1>2, <3>1, <3>2, WroteType
    <3>4. activeOpen' \in BOOLEAN
      BY <2>3 DEF WriteFails, Base, Typed
    <3> QED
      BY <3>1, <3>2, <3>3, <3>4
  <2> QED
    BY <1>1, <2>1, <2>2, <2>3 DEF AppendFails
<1>4. faults' \in 0..MaxFaults /\ sound' \in BOOLEAN
  BY <1>3, FaultCounts
<1>5. Typed'
  BY <1>1, <1>3, <1>4 DEF Base, Typed
<1>6. Known' \subseteq Known
  BY <1>1, <1>2, <1>3 DEF Known
<1>7. LogAnchored' /\ Held'
  BY <1>1, <1>2, <1>3 DEF Base, LogAnchored, Held
<1> QED
  BY <1>1, <1>5, <1>6, <1>7, StillIdentified DEF Base

(* A log that is cleared or kept, and a log that was not written *)
LEMMA LogOnlyBase ==
  ASSUME Base, ClearWAL \/ WriteWALFails
  PROVE  Base'
<1>1. /\ pc \in {"applied", "ready"} /\ pc' = "ready"
      /\ wal' \in {wal, NoBlock} /\ pending' \in {pending, NoBlock}
      /\ UNCHANGED <<segs, lock, blocks, activeOpen, made, served>>
      /\ UNCHANGED <<faults, sound>> \/ Fault(FALSE)
  BY DEF ClearWAL, WriteWALFails
<1>2. faults' \in 0..MaxFaults /\ sound' \in BOOLEAN
  BY <1>1, FaultCounts
<1>3. Typed'
  BY <1>1, <1>2 DEF Base, Typed
<1>4. Known' \subseteq Known
  BY <1>1 DEF Known
<1>5. LogAnchored' /\ Held'
  BY <1>1 DEF Base, LogAnchored, Held
<1> QED
  BY <1>1, <1>3, <1>4, <1>5, StillIdentified DEF Base

(* Every step keeps what holds whatever fault has happened. *)
LEMMA StepBase == Base /\ [Next]_vars => Base'
<1> SUFFICES ASSUME Base, [Next]_vars PROVE Base'
  OBVIOUS
<1>1. CASE UNCHANGED vars
  BY <1>1 DEF vars, Base, Typed, Identified, Known, LogAnchored, Held
<1>2. CASE OpenSteps
  BY <1>2, LockBase, LoadBase, ReplayNothingBase, ReplayAppendsBase, ReplayAppliesBase, StopsBase
     DEF OpenSteps
<1>3. ASSUME NEW size \in Sizes, WriteWAL(size) PROVE Base'
  BY <1>3, WriteWALBase
<1>4. CASE CommitSteps \/ WriteWALFails
  BY <1>4, CommitAppendsBase, CommitAppendFailsBase, LogOnlyBase DEF CommitSteps
<1>5. CASE Close \/ Crash \/ ReadFails \/ Unlock
  BY <1>5, StopsBase, ReadFailsBase, LockBase
<1> QED
  BY <1>1, <1>2, <1>3, <1>4, <1>5 DEF Next
-------------------------------------------------------------------------------
(* Until the first harmful fault: kinds of steps *)

(* A step that writes nothing, or the logged block, to the segments and      *)
(* leaves the served chain and the log alone.                                *)
LEMMA DiskStep ==
  ASSUME Base, Good, UNCHANGED <<served, wal>>,
         SameRecords(segs, segs') \/ (wal # NoBlock /\ OneMore(segs, segs', wal))
  PROVE  /\ OnDisk'
         /\ OneMore(segs, segs', wal) /\ wal # NoBlock => Holds(segs', wal.height, wal)
<1>1. Durable(segs, served) /\ Within(segs, served) /\ served \in Seq(Block)
  BY DEF Base, Good, OnDisk, Typed
<1>2. /\ Durable(segs', served) /\ Within(segs', served)
      /\ OneMore(segs, segs', wal) /\ wal # NoBlock => Holds(segs', wal.height, wal)
  <2>1. CASE SameRecords(segs, segs') /\ ~(wal # NoBlock /\ OneMore(segs, segs', wal))
    BY <1>1, <2>1, SameKeeps
  <2>2. CASE wal # NoBlock /\ OneMore(segs, segs', wal)
    BY <1>1, <2>2, LogFits, WriteKeeps
  <2> QED
    BY <2>1, <2>2
<1> QED
  BY <1>2 DEF OnDisk

(* The process stops. *)
LEMMA StopStep ==
  ASSUME Base, Good, Stopped, UNCHANGED <<served, wal>>,
         \A s \in DOMAIN segs' : CleanTail(segs'[s]),
         SameRecords(segs, segs') \/ (wal # NoBlock /\ OneMore(segs, segs', wal))
  PROVE  Good'
<1>1. OnDisk'
  BY DiskStep
<1>2. Recoverable' /\ Loaded'
  BY DEF Stopped, Recoverable, Loaded
<1> QED
  BY <1>1, <1>2 DEF Good

(* A block that continues the served chain is served. *)
LEMMA ServeStep ==
  ASSUME Base, NEW b \in Block, Continues(b, served), served' = Append(served, b),
         Durable(segs', served), Within(segs', served), Holds(segs', b.height, b)
  PROVE  OnDisk'
<1>1. served \in Seq(Block)
  BY DEF Base, Typed
<1>2. Durable(segs', served') /\ Within(segs', served')
  BY <1>1, ServeKeeps
<1> QED
  BY <1>2 DEF OnDisk

(* Whole segments have clean tails. *)
LEMMA WholeIsClean ==
  ASSUME NEW f, Whole(f)
  PROVE  \A s \in DOMAIN f : CleanTail(f[s])
BY DEF Whole, CleanTail

(* A process that has loaded the segments finds and leaves them whole. *)
LEMMA Running ==
  ASSUME Base, Good, pc \notin {"down", "locked"}
  PROVE  segs \in Seq(Seq(Cell)) /\ segs # <<>> /\ Whole(segs)
BY DEF Base, Good, Typed, Held, Recoverable
-------------------------------------------------------------------------------
(* Until the first harmful fault: the steps of Open *)

(* LoadSegments finds the served chain, and one block more at most. *)
LEMMA LoadKeeps == Base /\ Good /\ LoadSegments => Good'
<1> SUFFICES ASSUME Base, Good, LoadSegments PROVE Good'
  OBVIOUS
<1> DEFINE r == RecoverSegments(segs)
           files == OpenActive(r)
           index == Index(files)
<1>1. /\ segs \in Seq(Seq(Cell)) /\ served \in Seq(Block) /\ \A s \in DOMAIN segs : CleanTail(segs[s])
      /\ Durable(segs, served) /\ Within(segs, served)
  BY DEF Base, Good, Typed, Recoverable, OnDisk
<1>2. r \in Seq(Seq(Cell)) /\ Whole(r) /\ SameRecords(segs, r)
  BY <1>1, RecoverIs
<1>3. files \in Seq(Seq(Cell)) /\ files # <<>> /\ Whole(files) /\ SameRecords(segs, files)
  <2>1. CASE r = <<>>
    <3>1. files = Append(r, <<>>)
      BY <2>1 DEF OpenActive
    <3>2. /\ Append(r, <<>>) \in Seq(Seq(Cell)) /\ Append(r, <<>>) # <<>>
          /\ Whole(Append(r, <<>>)) /\ SameRecords(r, Append(r, <<>>))
      BY <1>2, NewSegment
    <3> QED
      BY <1>2, <3>1, <3>2 DEF SameRecords
  <2>2. CASE r # <<>>
    BY <1>2, <2>2 DEF OpenActive
  <2> QED
    BY <2>1, <2>2
<1> HIDE DEF r, files, index
<1>4. /\ segs' = files /\ UNCHANGED <<wal, served>>
      /\ \/ pc' = "loaded" /\ blocks' = index
         \/ Stopped
  BY DEF LoadSegments, r, files, index
<1>5. CASE Stopped
  BY <1>3, <1>4, <1>5, StopStep, WholeIsClean
<1>6. CASE pc' = "loaded" /\ blocks' = index
  <2>1. OnDisk'
    BY <1>3, <1>4, DiskStep
  <2>2. Recoverable'
    BY <1>3, <1>4, <1>6, WholeIsClean DEF Recoverable
  <2>3. \/ index = served
        \/ \E b \in Block : /\ index = Append(served, b) /\ Continues(b, served)
                            /\ Holds(files, b.height, b)
    <3>1. Durable(files, served) /\ Within(files, served)
      BY <1>1, <1>3, SameKeeps
    <3> QED
      BY <1>1, <1>3, <3>1, IndexIs DEF index
  <2>4. Loaded'
    BY <1>4, <1>6, <2>3 DEF Loaded
  <2> QED
    BY <2>1, <2>2, <2>4 DEF Good
<1> QED
  BY <1>4, <1>5, <1>6

(* Replaying no log serves what was loaded. *)
LEMMA ReplayNothingKeeps == Base /\ Good /\ ReplayNothing => Good'
<1> SUFFICES ASSUME Base, Good, ReplayNothing PROVE Good'
  OBVIOUS
<1>1. pc = "loaded" /\ pc' = "ready" /\ served' = blocks /\ UNCHANGED segs
  BY DEF ReplayNothing, Ready
<1>2. Recoverable'
  BY <1>1, Running, WholeIsClean DEF Recoverable
<1>3. Loaded'
  BY <1>1 DEF Loaded
<1>4. OnDisk'
  <2>1. CASE blocks = served
    BY <1>1, <2>1 DEF Good, OnDisk
  <2>2. ASSUME NEW b \in Block, blocks = Append(served, b), Continues(b, served),
               Holds(segs, b.height, b)
        PROVE  OnDisk'
    <3>1. Durable(segs', served) /\ Within(segs', served) /\ Holds(segs', b.height, b)
      BY <1>1, <2>2 DEF Good, OnDisk
    <3> QED
      BY <1>1, <2>2, <3>1, ServeStep
  <2> QED
    BY <1>1, <2>1, <2>2 DEF Good, Loaded
<1> QED
  BY <1>2, <1>3, <1>4 DEF Good

(* The log is appended to the segments. *)
LEMMA ReplayAppendsKeeps == Base /\ Good /\ ReplayAppends => Good'
<1> SUFFICES ASSUME Base, Good, ReplayAppends PROVE Good'
  OBVIOUS
<1>1. /\ pc = "loaded" /\ wal # NoBlock /\ segs' = Wrote(wal, "rec") /\ pc' = "replayed"
      /\ UNCHANGED <<wal, blocks, served>>
  BY DEF ReplayAppends, MustReplay, AppendSucceeds
<1>2. segs \in Seq(Seq(Cell)) /\ segs # <<>> /\ Whole(segs) /\ wal \in Block
  BY <1>1, Running, LogFits
<1>3. Whole(segs') /\ OneMore(segs, segs', wal)
  BY <1>1, <1>2, WroteIs
<1>4. OnDisk' /\ Holds(segs', wal.height, wal)
  BY <1>1, <1>3, DiskStep
<1>5. Recoverable'
  BY <1>1, <1>3, WholeIsClean DEF Recoverable
<1>6. blocks = served \/ Len(blocks) = Len(served) + 1
  BY <1>1, AppendOne DEF Base, Good, Loaded, Typed
<1>7. Loaded'
  BY <1>1, <1>4, <1>6 DEF Loaded
<1> QED
  BY <1>4, <1>5, <1>7 DEF Good

(* A replayed log that is accepted continues the served chain. *)
LEMMA ReplayContinues ==
  ASSUME Base, Good, ReplayApplies
  PROVE  /\ wal \in Block /\ Continues(wal, served) /\ served' = Append(served, wal)
         /\ Holds(segs, wal.height, wal)
<1>1. /\ pc = "replayed" /\ wal.height = Len(blocks) + 1 /\ wal.prev = LastBlock(blocks).id
      /\ served' = Append(blocks, wal)
  BY DEF ReplayApplies, Ready
<1>2. /\ wal # NoBlock /\ Holds(segs, wal.height, wal)
      /\ blocks = served \/ Len(blocks) = Len(served) + 1
      /\ served \in Seq(Block) /\ wal \in Block
  BY <1>1, LogFits DEF Base, Good, Held, Loaded, Typed
<1>3. blocks = served
  BY <1>1, <1>2, LogFits
<1> QED
  BY <1>1, <1>2, <1>3 DEF Continues

(* The replayed log is served. *)
LEMMA ReplayAppliesKeeps == Base /\ Good /\ ReplayApplies => Good'
<1> SUFFICES ASSUME Base, Good, ReplayApplies PROVE Good'
  OBVIOUS
<1>1. pc = "replayed" /\ pc' = "ready" /\ UNCHANGED segs
  BY DEF ReplayApplies, Ready
<1>2. OnDisk'
  <2>1. Durable(segs', served) /\ Within(segs', served) /\ Holds(segs', wal.height, wal)
    BY <1>1, ReplayContinues DEF Good, OnDisk
  <2> QED
    BY <2>1, ReplayContinues, ServeStep
<1>3. Recoverable'
  BY <1>1, Running, WholeIsClean DEF Recoverable
<1>4. Loaded'
  BY <1>1 DEF Loaded
<1> QED
  BY <1>2, <1>3, <1>4 DEF Good
-------------------------------------------------------------------------------
(* Until the first harmful fault: the steps that stop the process *)

(* A failed replay, a rejected one, Close and a crash leave the segments as  *)
(* they were, or with the log's block or a torn part of it at their end.     *)
LEMMA StopsKeep ==
  ASSUME Base, Good, sound', ReplayAppendFails \/ ReplayRejected \/ Close \/ Crash
  PROVE  Good'
<1>1. /\ Stopped /\ UNCHANGED <<wal, served>>
      /\ \/ segs' = segs
         \/ /\ wal # NoBlock /\ pc \in {"logged", "loaded"}
            /\ \E residue \in Residue : segs' = Wrote(wal, residue) /\ Fault(residue = "hdr")
  <2>1. CASE ReplayAppendFails
    BY <2>1, ResidueAssumption DEF ReplayAppendFails, MustReplay
  <2>2. CASE ReplayRejected
    BY <2>2 DEF ReplayRejected
  <2>3. CASE Close
    BY <2>3 DEF Close
  <2>4. CASE Crash
    BY <2>4, InFlightIsLog, ResidueAssumption DEF Crash
  <2> QED
    BY <2>1, <2>2, <2>3, <2>4
<1>2. CASE segs' = segs
  <2>1. SameRecords(segs, segs') /\ \A s \in DOMAIN segs' : CleanTail(segs'[s])
    BY <1>2 DEF Good, Recoverable, SameRecords
  <2> QED
    BY <1>1, <2>1, StopStep
<1>3. ASSUME wal # NoBlock, pc \in {"logged", "loaded"},
             NEW residue \in Residue, segs' = Wrote(wal, residue), Fault(residue = "hdr")
      PROVE  Good'
  <2>1. residue # "hdr"
    <3>1. sound' = (sound /\ ~(residue = "hdr"))
      BY <1>3 DEF Fault
    <3> QED
      BY <3>1
  <2>2. residue \in {"none", "torn", "rec"}
    BY <2>1 DEF Residue
  <2>3. wal \in Block /\ segs \in Seq(Seq(Cell)) /\ segs # <<>> /\ Whole(segs)
    BY <1>3, LogFits, Running
  <2>4. /\ \A s \in DOMAIN segs' : CleanTail(segs'[s])
        /\ SameRecords(segs, segs') \/ OneMore(segs, segs', wal)
    BY <1>3, <2>2, <2>3, WroteIs
  <2> QED
    BY <1>1, <1>3, <2>4, StopStep
<1> QED
  BY <1>1, <1>2, <1>3
-------------------------------------------------------------------------------
(* Until the first harmful fault: the steps of Commit *)

(* The lock and the log change nothing of the segments. *)
LEMMA FilesOnlyKeep ==
  ASSUME Base, Good, UNCHANGED <<segs, served>>,
         \/ pc = "down" /\ pc' \in {"down", "locked"}
         \/ pc \in {"ready", "applied"} /\ pc' \in {"ready", "logged"}
  PROVE  Good'
<1>1. OnDisk'
  BY DEF Good, OnDisk
<1>2. Recoverable' /\ Loaded'
  BY DEF Good, Recoverable, Loaded
<1> QED
  BY <1>1, <1>2 DEF Good

(* The logged block is appended and served. *)
LEMMA CommitAppendsKeeps == Base /\ Good /\ CommitAppends => Good'
<1> SUFFICES ASSUME Base, Good, CommitAppends PROVE Good'
  OBVIOUS
<1>1. /\ pc = "logged" /\ segs' = Wrote(pending, "rec") /\ pc' = "applied"
      /\ blocks' = Append(blocks, pending) /\ served' = blocks'
  BY DEF CommitAppends, AppendSucceeds
<1>2. /\ pending = wal /\ wal # NoBlock /\ Continues(wal, served) /\ blocks = served
      /\ wal \in Block /\ served \in Seq(Block) /\ Durable(segs, served) /\ Within(segs, served)
  BY <1>1, LogFits DEF Base, Good, Held, Typed, OnDisk
<1>3. Whole(segs') /\ OneMore(segs, segs', wal)
  BY <1>1, <1>2, Running, WroteIs
<1>4. Durable(segs', served) /\ Within(segs', served) /\ Holds(segs', wal.height, wal)
  BY <1>2, <1>3, WriteKeeps
<1>5. OnDisk'
  BY <1>1, <1>2, <1>4, ServeStep
<1>6. Recoverable' /\ Loaded'
  BY <1>1, <1>3, WholeIsClean DEF Recoverable, Loaded
<1> QED
  BY <1>5, <1>6 DEF Good

(* Unless a part of a record stays, a failed append leaves the served chain  *)
(* as it was.                                                                *)
LEMMA CommitAppendFailsKeeps ==
  ASSUME Base, Good, sound', CommitAppendFails
  PROVE  Good'
<1>1. /\ pc = "logged" /\ AppendFails(pending) /\ pc' = "ready" /\ UNCHANGED <<wal, served>>
  BY DEF CommitAppendFails
<1>2. pending = wal /\ wal # NoBlock /\ wal \in Block
  BY <1>1, LogFits DEF Base, Held
<1>3. segs \in Seq(Seq(Cell)) /\ segs # <<>> /\ Whole(segs)
  BY <1>1, Running
<1>4. /\ Whole(segs')
      /\ SameRecords(segs, segs') \/ OneMore(segs, segs', wal)
  <2>1. CASE AppendRefused(pending)
    BY <1>3, <2>1 DEF AppendRefused, SameRecords
  <2>2. CASE RotateFails(pending)
    BY <1>3, <2>2, NewSegment DEF RotateFails, SameRecords
  <2>3. CASE WriteFails(pending)
    <3>1. PICK residue \in FailLeft :
            segs' = Wrote(wal, residue) /\ Fault(residue \in {"torn", "hdr"})
      BY <1>2, <2>3 DEF WriteFails
    <3>2. sound' = (sound /\ ~(residue \in {"torn", "hdr"}))
      BY <3>1 DEF Fault
    <3>3. residue \in {"none", "rec"}
      BY <3>2, ResidueAssumption DEF Residue
    <3> QED
      BY <1>2, <1>3, <3>1, <3>3, WroteIs
  <2> QED
    BY <1>1, <2>1, <2>2, <2>3 DEF AppendFails
<1>5. OnDisk'
  BY <1>1, <1>2, <1>4, DiskStep
<1>6. Recoverable' /\ Loaded'
  BY <1>1, <1>4, WholeIsClean DEF Recoverable, Loaded
<1> QED
  BY <1>5, <1>6 DEF Good

(* A read error during recovery ends what holds until the first one. *)
LEMMA ReadFailsHarms == ReadFails => ~sound'
<1> SUFFICES ASSUME ReadFails PROVE ~sound'
  OBVIOUS
<1>1. sound' = (sound /\ ~TRUE)
  BY DEF ReadFails, Fault
<1> QED
  BY <1>1

(* A step after which no harmful fault has happened had none before it. *)
LEMMA SoundBefore == Base /\ [Next]_vars /\ sound' => sound
<1> SUFFICES ASSUME Base, [Next]_vars, sound' PROVE sound
  OBVIOUS
<1>1. ASSUME NEW harmful, Fault(harmful) PROVE sound
  <2>1. sound' = (sound /\ ~harmful) /\ sound \in BOOLEAN
    BY <1>1 DEF Fault, Base, Typed
  <2> QED
    BY <2>1
<1>2. CASE UNCHANGED sound
  BY <1>2
<1>3. CASE CommitAppendFails
  BY <1>1, <1>2, <1>3 DEF CommitAppendFails, AppendFails, AppendRefused, RotateFails, WriteFails
<1>4. CASE ReplayAppendFails
  BY <1>1, <1>2, <1>4 DEF ReplayAppendFails
<1>5. CASE ReplayNothing \/ ReplayApplies \/ ClearWAL \/ WriteWALFails
  BY <1>1, <1>2, <1>5 DEF ReplayNothing, ReplayApplies, ClearWAL, WriteWALFails
<1>6. CASE Crash \/ ReadFails
  BY <1>1, <1>6 DEF Crash, ReadFails
<1>7. ASSUME \/ UNCHANGED vars \/ TakeLock \/ LoadSegments \/ ReplayAppends \/ ReplayRejected
             \/ (\E size \in Sizes : WriteWAL(size)) \/ CommitAppends \/ Close \/ Unlock
      PROVE  UNCHANGED sound
  BY <1>7 DEF vars, TakeLock, LoadSegments, ReplayAppends, ReplayRejected, WriteWAL, CommitAppends,
     AppendSucceeds, Close, Unlock
<1> QED
  BY <1>2, <1>3, <1>4, <1>5, <1>6, <1>7 DEF Next, OpenSteps, CommitSteps

(* Every step that is not a harmful fault keeps the files in order. *)
LEMMA StepGood == Base /\ Good /\ [Next]_vars /\ sound' => Good'
<1> SUFFICES ASSUME Base, Good, [Next]_vars, sound' PROVE Good'
  OBVIOUS
<1>1. CASE UNCHANGED vars
  BY <1>1 DEF vars, Good, Recoverable, OnDisk, Loaded
<1>2. CASE TakeLock \/ Unlock
  BY <1>2, FilesOnlyKeep DEF TakeLock, Unlock
<1>3. CASE LoadSegments \/ ReplayNothing \/ ReplayAppends \/ ReplayApplies
  BY <1>3, LoadKeeps, ReplayNothingKeeps, ReplayAppendsKeeps, ReplayAppliesKeeps
<1>4. CASE ReplayAppendFails \/ ReplayRejected \/ Close \/ Crash
  BY <1>4, StopsKeep
<1>5. ASSUME NEW size \in Sizes, WriteWAL(size) PROVE Good'
  BY <1>5, FilesOnlyKeep DEF WriteWAL
<1>6. CASE WriteWALFails \/ ClearWAL
  BY <1>6, FilesOnlyKeep DEF WriteWALFails, ClearWAL
<1>7. CASE CommitAppends \/ CommitAppendFails
  BY <1>7, CommitAppendsKeeps, CommitAppendFailsKeeps
<1>8. CASE ReadFails
  BY <1>8, ReadFailsHarms
<1> QED
  BY <1>1, <1>2, <1>3, <1>4, <1>5, <1>6, <1>7, <1>8 DEF Next, OpenSteps, CommitSteps
-------------------------------------------------------------------------------
(* Theorems *)

(* The invariant: whatever fault happens, identities name blocks, the log is *)
(* anchored and the memory is the served chain; until the first harmful      *)
(* fault the segments hold the served chain too.                             *)
THEOREM StorageInvariant == Spec => []IInv
<1>1. Init => IInv
  <2> SUFFICES ASSUME Init PROVE IInv
    OBVIOUS
  <2>1. /\ <<>> \in Seq(Seq(Cell)) /\ <<>> \in Seq(Block) /\ DOMAIN <<>> = {}
        /\ 0 \in 0..MaxBlocks /\ 0 \in 0..MaxFaults
    BY BoundsAssumption
  <2>2. activeOpen \in BOOLEAN /\ lock \in BOOLEAN /\ sound \in BOOLEAN
    BY DEF Init
  <2>3. Typed
    BY <2>1, <2>2 DEF Init, Typed
  <2>4. Records(segs) = {}
    BY <2>1, RecordsAre DEF Init
  <2>5. Recoverable /\ Loaded /\ LogAnchored /\ Held
    BY <2>1 DEF Init, Recoverable, Loaded, LogAnchored, Held, Numbered
  <2>6. Identified
    <3>1. Known = {}
      BY <2>1, <2>4 DEF Init, Known, Stored, OfChain
    <3> QED
      BY <3>1 DEF Identified
  <2>7. OnDisk
    BY <2>1, <2>4 DEF Init, OnDisk, Durable, Within
  <2> QED
    BY <2>3, <2>5, <2>6, <2>7 DEF IInv, Base, Good
<1>2. IInv /\ [Next]_vars => IInv'
  BY StepBase, StepGood, SoundBefore DEF IInv
<1> QED
  BY <1>1, <1>2, PTL DEF Spec

(* ServedDurable: until the first harmful fault recovery finds every block   *)
(* that was ever served, at its height, whenever the process dies.           *)
THEOREM ServedIsDurable == Spec => []ServedDurable
<1>1. IInv => ServedDurable
  <2> SUFFICES ASSUME IInv, sound, NEW h \in DOMAIN served
               PROVE  LET index == Index(RecoverSegments(segs))
                      IN  h \in DOMAIN index /\ index[h] = served[h]
    BY DEF ServedDurable, Found
  <2> DEFINE f == RecoverSegments(segs)
  <2>1. /\ segs \in Seq(Seq(Cell)) /\ served \in Seq(Block) /\ \A s \in DOMAIN segs : CleanTail(segs[s])
        /\ Durable(segs, served) /\ Within(segs, served)
    BY DEF IInv, Base, Good, Typed, Recoverable, OnDisk
  <2>2. f \in Seq(Seq(Cell)) /\ SameRecords(segs, f)
    BY <2>1, RecoverIs
  <2> HIDE DEF f
  <2>3. Durable(f, served) /\ Within(f, served)
    BY <2>1, <2>2, SameKeeps
  <2>4. \/ Index(f) = served
        \/ \E b \in Block : Index(f) = Append(served, b)
    BY <2>1, <2>2, <2>3, IndexIs
  <2>5. \A b \in Block : /\ \A i \in DOMAIN served : Append(served, b)[i] = served[i]
                         /\ DOMAIN served \subseteq DOMAIN Append(served, b)
    <3> TAKE b \in Block
    <3>1. /\ DOMAIN Append(served, b) = 1..(Len(served) + 1) /\ DOMAIN served = 1..Len(served)
          /\ Len(served) \in Nat /\ \A i \in DOMAIN served : Append(served, b)[i] = served[i]
      BY <2>1, AppendOne
    <3> QED
      BY <3>1, UpTo
  <2> QED
    BY <2>4, <2>5 DEF f
<1> QED
  BY <1>1, StorageInvariant, PTL

(* LogAnchored: whatever fault happens, read errors and torn appends         *)
(* included, the log is the last served block or the continuation of the     *)
(* served chain.                                                             *)
THEOREM LogStaysAnchored == Spec => []LogAnchored
<1>1. IInv => LogAnchored
  BY DEF IInv, Base
<1> QED
  BY <1>1, StorageInvariant, PTL

(* A step of Storage that is not a harmful fault, and follows none, extends  *)
(* the served chain by one linked block or leaves it alone.                  *)
LEMMA StepImplementsLedger == IInv /\ [Next]_vars => [sound' => L!Next]_served
<1> SUFFICES ASSUME IInv, [Next]_vars, served' # served, sound' PROVE L!Next
  OBVIOUS
<1>0. Base /\ Good
  BY SoundBefore DEF IInv
<1>1. ASSUME NEW b \in Block, Continues(b, served), served' = Append(served, b) PROVE L!Next
  <2>1. L!TailId = LastBlock(served).id
    BY DEF L!TailId, LastBlock, NoBlock
  <2> QED
    BY <1>1, <2>1 DEF L!Next, L!Extend, Continues
<1>2. CASE ReplayNothing
  <2>1. pc = "loaded" /\ served' = blocks
    BY <1>2 DEF ReplayNothing, Ready
  <2>2. PICK b \in Block : blocks = Append(served, b) /\ Continues(b, served)
    BY <1>0, <2>1 DEF Good, Loaded
  <2> QED
    BY <1>1, <2>1, <2>2
<1>3. CASE ReplayApplies
  BY <1>0, <1>1, <1>3, ReplayContinues
<1>4. CASE CommitAppends
  <2>1. pc = "logged" /\ served' = Append(blocks, pending)
    BY <1>4 DEF CommitAppends
  <2>2. blocks = served /\ pending = wal /\ Continues(wal, served) /\ wal \in Block
    BY <1>0, <2>1, LogFits DEF Base, Held
  <2> QED
    BY <1>1, <2>1, <2>2
<1>5. ASSUME \/ UNCHANGED vars \/ TakeLock \/ LoadSegments \/ ReplayAppends \/ ReplayAppendFails
             \/ ReplayRejected \/ (\E size \in Sizes : WriteWAL(size)) \/ WriteWALFails
             \/ CommitAppendFails \/ ClearWAL \/ Close \/ Crash \/ ReadFails \/ Unlock
      PROVE  served' = served
  BY <1>5 DEF vars, TakeLock, LoadSegments, ReplayAppends, ReplayAppendFails, ReplayRejected,
     WriteWAL, WriteWALFails, CommitAppendFails, ClearWAL, Close, Crash, ReadFails, Unlock
<1> QED
  BY <1>2, <1>3, <1>4, <1>5 DEF Next, OpenSteps, CommitSteps

(* ImplementsLedger: until the first harmful fault the served chain only     *)
(* grows, by one linked block at a time, across crashes and reopenings.      *)
THEOREM StorageImplementsLedger == Spec => ImplementsLedger
<1>1. Init => L!Init
  BY DEF Init, L!Init
<1> QED
  BY <1>1, StepImplementsLedger, StorageInvariant, PTL DEF Spec, ImplementsLedger

(* A file has a size. *)
LEMMA FileSizeType ==
  ASSUME NEW seg \in Seq(Cell)
  PROVE  FileSize(seg) \in Nat
<1> DEFINE Bytes(i) == {<<i, n>> : n \in 1..CellSize(seg[i])}
           T == {Bytes(i) : i \in DOMAIN seg}
<1>1. IsFiniteSet(DOMAIN seg)
  <2>1. DOMAIN seg = 1..Len(seg) /\ Len(seg) \in Nat
    OBVIOUS
  <2> QED
    BY <2>1, FS_Interval
<1>2. ASSUME NEW i \in DOMAIN seg PROVE IsFiniteSet(Bytes(i))
  <2> DEFINE N == 1..CellSize(seg[i])
             g == [n \in N |-> <<i, n>>]
  <2>1. CellSize(seg[i]) \in Nat
    <3>1. seg[i] \in Cell
      OBVIOUS
    <3>2. seg[i].block.size \in Nat
      BY <3>1, SizesAssumption DEF Cell, Block
    <3> QED
      BY <3>2 DEF CellSize
  <2>2. IsFiniteSet(N)
    BY <2>1, FS_Interval
  <2>3. g \in Surjection(N, Bytes(i))
    BY DEF Surjection
  <2> QED
    BY <2>2, <2>3, FS_Surjection
<1>3. IsFiniteSet(T)
  <2> DEFINE g == [i \in DOMAIN seg |-> Bytes(i)]
  <2>1. g \in Surjection(DOMAIN seg, T)
    BY DEF Surjection
  <2> QED
    BY <1>1, <2>1, FS_Surjection
<1>4. IsFiniteSet(UNION T)
  BY <1>2, <1>3, FS_UNION
<1>5. Cardinality(UNION T) \in Nat
  BY <1>4, FS_CardinalityType
<1> QED
  BY <1>5 DEF FileSize

(* TypeOK: whatever fault happens, every variable keeps its type: the        *)
(* heights of all blocks stay within the number of blocks that were built,   *)
(* what Open loads is a chain, and f.activeSize is a number.                 *)
THEOREM StorageTypeCorrect == Spec => []TypeOK
<1> DEFINE Sized == activeSize \in Nat
<1>1. Init => Sized
  BY DEF Init
<1>2. IInv /\ IInv' /\ Sized /\ [Next]_vars => Sized'
  <2> SUFFICES ASSUME IInv, IInv', activeSize \in Nat, [Next]_vars PROVE activeSize' \in Nat
    OBVIOUS
  <2>1. \A b \in Block : b.size \in Nat
    BY SizesAssumption DEF Block
  <2>2. ASSUME NEW b \in Block, AppendSucceeds(b) PROVE activeSize' \in Nat
    BY <2>1, <2>2 DEF AppendSucceeds
  <2>3. CASE LoadSegments
    <3> DEFINE files == OpenActive(RecoverSegments(segs))
    <3>1. segs' = files /\ (activeSize' = FileSize(files[Len(files)]) \/ activeSize' = 0)
      BY <2>3 DEF LoadSegments, Stopped
    <3>2. CASE activeSize' = FileSize(files[Len(files)]) /\ activeSize' # 0
      <4>1. pc' = "loaded"
        BY <2>3, <3>2 DEF LoadSegments, Stopped
      <4>2. segs' \in Seq(Seq(Cell)) /\ segs' # <<>>
        BY <4>1 DEF IInv, Base, Typed, Held
      <4>3. segs'[Len(segs')] \in Seq(Cell)
        BY <4>2
      <4> QED
        BY <3>1, <3>2, <4>3, FileSizeType
    <3> QED
      BY <3>1, <3>2
  <2>4. CASE ReplayAppends
    BY <2>2, <2>4, LogFits DEF ReplayAppends, MustReplay, IInv
  <2>5. CASE CommitAppends
    <3>1. pc = "logged" /\ AppendSucceeds(pending)
      BY <2>5 DEF CommitAppends
    <3>2. pending = wal /\ wal # NoBlock
      BY <3>1 DEF IInv, Base, Held
    <3>3. pending \in Block
      BY <3>2, LogFits DEF IInv
    <3> QED
      BY <2>2, <3>1, <3>3
  <2>6. CASE CommitAppendFails
    <3>1. activeSize' = activeSize \/ activeSize' = IF MustRotate(pending) THEN 0 ELSE activeSize
      BY <2>6, Zenon DEF CommitAppendFails, AppendFails, AppendRefused, RotateFails, WriteFails
    <3> QED
      BY <3>1
  <2>7. ASSUME \/ UNCHANGED vars \/ TakeLock \/ ReplayNothing \/ ReplayAppendFails
               \/ ReplayApplies \/ ReplayRejected \/ (\E size \in Sizes : WriteWAL(size))
               \/ WriteWALFails \/ ClearWAL \/ Close \/ Crash \/ ReadFails
               \/ Unlock
        PROVE  activeSize' \in {activeSize, 0}
    BY <2>7 DEF vars, TakeLock, ReplayNothing, ReplayAppendFails, ReplayApplies, ReplayRejected,
       WriteWAL, WriteWALFails, ClearWAL, Close, Crash, ReadFails, Unlock, Stopped
  <2> QED
    BY <2>3, <2>4, <2>5, <2>6, <2>7 DEF Next, OpenSteps, CommitSteps
<1>3. IInv /\ Sized => TypeOK
  BY DEF IInv, Base, Typed, TypeOK
<1> HIDE DEF Sized
<1> QED
  BY <1>1, <1>2, <1>3, StorageInvariant, PTL DEF Spec
===============================================================================
