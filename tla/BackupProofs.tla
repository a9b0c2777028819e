----------------------------- MODULE BackupProofs -----------------------------
(*****************************************************************************)
(* Theorems about Backup, for any number of blocks, crashes, I/O errors and  *)
(* backups.                                                                  *)
(*****************************************************************************)
EXTENDS Backup, NaturalsInduction, WellFoundedInduction, TLAPS
-------------------------------------------------------------------------------
(* The inductive invariant *)

Index == UNION {[heights -> Block] : heights \in SUBSET (1..MaxBlocks)}

(* The indexes of blocks that lie at their heights, none above n *)
Shelf(n) == {d \in Index : DOMAIN d \subseteq 1..n /\ \A h \in DOMAIN d : d[h].height = h}

(* Whatever failed, no segment, archive or memory has a block higher than    *)
(* the number of blocks ever logged, and a block that is logged continues    *)
(* what the source has in memory.                                            *)
Typed ==
  /\ made \in 0..MaxBlocks /\ faults \in 0..MaxFaults
  /\ disk \in Shelf(made)
  /\ mem \in Seq(Block) /\ mem \in Shelf(made)
  /\ wal \in Block \cup {NoBlock} /\ (wal # NoBlock => wal.height <= made)
  /\ pc \in {"down", "ready", "logged", "appended"}
  /\ pc = "logged" => wal # NoBlock /\ Fits(mem, wal)
  /\ bpc \in {"idle", "walking", "copied", "listed", "archived", "restored", "failed"}
  /\ copy \in [data : Shelf(made), wal : Block \cup {NoBlock}]
  /\ replica \in Seq(Block) \cup {Rejected, NoBlock}
  /\ since \subseteq 1..MaxBlocks

Flags ==
  /\ torn \in BOOLEAN /\ listed \in BOOLEAN /\ still \in BOOLEAN
  /\ forked \in BOOLEAN /\ spoiled \in BOOLEAN

(* What Open accepts as the log of a directory that holds the chain *)
Joins(chain, b) == b = NoBlock \/ Repeats(chain, b) \/ Fits(chain, b)

Prefix(s, t) == Len(s) <= Len(t) /\ \A i \in 1..Len(s) : s[i] = t[i]

(* The source, as long as no failed append has left anything: its segments   *)
(* hold what it has in memory, its log joins its chain, and after a commit   *)
(* that did not fail it repeats the last block or is gone.                   *)
SourceInv ==
  /\ spoiled => forked
  /\ ~spoiled =>
       /\ ~torn /\ Linked(disk) /\ Joins(disk, wal)
       /\ pc # "down" => mem = disk
       /\ pc = "appended" => wal # NoBlock /\ Repeats(disk, wal)
       /\ pc = "ready" /\ ~forked => wal = NoBlock \/ Repeats(disk, wal)

(* Part of a history, with all of it that there was at the start *)
Part(chain, history, start) ==
  chain \in Seq(Block) /\ Prefix(chain, history) /\ start \subseteq DOMAIN chain
OfSource(chain) == Part(chain, History, since)

(* An archive that Open accepts *)
Opens(data, log) == Linked(data) /\ Joins(data, log)

(* The archive, by how far the backup has come: the log the source has now   *)
(* still joins the copied chain if none was written since, and what is       *)
(* copied is part of the source's chain.                                     *)
ArchiveInv ==
  /\ bpc = "walking" => since \subseteq DOMAIN disk
  /\ bpc \in {"copied", "listed"} =>
       /\ still /\ ~spoiled => Opens(copy.data, wal)
       /\ ~forked => OfSource(copy.data)
  /\ bpc = "archived" =>
       /\ still /\ ~spoiled => Opens(copy.data, copy.wal)
       /\ ~forked /\ Opened(copy) # Rejected => OfSource(Opened(copy))
  /\ bpc = "restored" =>
       /\ still /\ ~spoiled => replica # Rejected
       /\ ~forked /\ replica # Rejected => OfSource(replica)

IInv == Typed /\ Flags /\ SourceInv /\ ArchiveInv
-------------------------------------------------------------------------------
(* Indexes and chains *)

(* A function from heights to blocks is an index, and an index is one.       *)
LEMMA IndexesAre ==
  /\ \A heights \in SUBSET (1..MaxBlocks) : \A f \in [heights -> Block] : f \in Index
  /\ \A d \in Index : DOMAIN d \subseteq 1..MaxBlocks /\ d \in [DOMAIN d -> Block]
<1>1. ASSUME NEW heights \in SUBSET (1..MaxBlocks), NEW f \in [heights -> Block]
      PROVE  f \in Index
  BY DEF Index
<1>2. ASSUME NEW d \in Index
      PROVE  DOMAIN d \subseteq 1..MaxBlocks /\ d \in [DOMAIN d -> Block]
  <2>1. PICK heights \in SUBSET (1..MaxBlocks) : d \in [heights -> Block]
    BY DEF Index
  <2> QED
    BY <2>1
<1> QED
  BY <1>1, <1>2

(* What is on a shelf *)
LEMMA ShelfIs ==
  ASSUME NEW n \in 0..MaxBlocks, NEW d \in Shelf(n)
  PROVE  /\ DOMAIN d \subseteq 1..n /\ d = [h \in DOMAIN d |-> d[h]]
         /\ \A h \in DOMAIN d : d[h] \in Block /\ d[h].height = h /\ h \in Nat /\ h >= 1
<1>1. d \in Index /\ DOMAIN d \subseteq 1..n /\ \A h \in DOMAIN d : d[h].height = h
  BY DEF Shelf
<1>2. d \in [DOMAIN d -> Block]
  BY <1>1, IndexesAre
<1>3. \A h \in 1..n : h \in Nat /\ h >= 1
  BY MaxBlocksAssumption
<1> QED
  BY <1>1, <1>2, <1>3

(* How something gets on a shelf *)
LEMMA OnShelf ==
  ASSUME NEW n \in 0..MaxBlocks, NEW H \in SUBSET (1..n), NEW f \in [H -> Block],
         \A h \in H : f[h].height = h
  PROVE  f \in Shelf(n)
<1>1. 1..n \subseteq 1..MaxBlocks
  BY MaxBlocksAssumption
<1>2. f \in Index
  BY <1>1, IndexesAre
<1> QED
  BY <1>2 DEF Shelf

(* A higher shelf holds more. *)
LEMMA ShelfGrows ==
  ASSUME NEW n \in 0..MaxBlocks, NEW m \in 0..MaxBlocks, n <= m, NEW d \in Shelf(n)
  PROVE  d \in Shelf(m)
<1>1. 1..n \subseteq 1..m
  BY MaxBlocksAssumption
<1> QED
  BY <1>1 DEF Shelf

(* Appending a block: the index keeps its other heights.                     *)
LEMMA AddIs ==
  ASSUME NEW n \in 0..MaxBlocks, NEW d \in Shelf(n), NEW b \in Block, b.height <= n
  PROVE  /\ Add(d, b) \in Shelf(n)
         /\ DOMAIN Add(d, b) = DOMAIN d \cup {b.height}
         /\ Add(d, b)[b.height] = b
         /\ \A h \in DOMAIN d : h # b.height => Add(d, b)[h] = d[h]
<1>1. b.height \in 1..n
  BY MaxBlocksAssumption DEF Block
<1> DEFINE H == DOMAIN d \cup {b.height}
<1>2. /\ DOMAIN Add(d, b) = H
      /\ Add(d, b)[b.height] = b
      /\ \A h \in DOMAIN d : h # b.height => Add(d, b)[h] = d[h]
  BY DEF Add
<1>3. H \in SUBSET (1..n) /\ \A h \in DOMAIN d : d[h] \in Block /\ d[h].height = h
  BY <1>1, ShelfIs
<1>4. Add(d, b) \in [H -> Block] /\ \A h \in H : Add(d, b)[h].height = h
  BY <1>3 DEF Add
<1>5. Add(d, b) \in Shelf(n)
  BY <1>3, <1>4, OnShelf
<1> QED
  BY <1>2, <1>5

(* Every non-empty bounded set of natural numbers has a greatest element. *)
LEMMA Greatest ==
  ASSUME NEW T, T \subseteq Nat, T # {}, NEW m \in Nat, \A x \in T : x <= m
  PROVE  \E x \in T : \A y \in T : y <= x
<1> DEFINE Less == OpToRel(<, Nat)
           U == {m - x : x \in T}
<1>1. IsWellFoundedOn(Less, Nat)
  BY NatLessThanWellFounded
<1>2. \A x, y \in Nat : y < x => <<y, x>> \in Less
  BY DEF OpToRel
<1>3. \A x \in T : x \in Nat /\ x <= m /\ m - x \in Nat
  OBVIOUS
<1>4. U \subseteq Nat /\ U # {}
  BY <1>3
<1> HIDE DEF Less
<1>5. PICK u \in U : \A y \in U : ~(<<y, u>> \in Less)
  BY <1>1, <1>4, WFMin
<1>6. PICK x \in T : u = m - x
  OBVIOUS
<1>7. ASSUME NEW y \in T PROVE y <= x
  <2>1. ~(m - y < m - x)
    BY <1>2, <1>3, <1>5, <1>6
  <2> QED
    BY <1>3, <2>1
<1> QED
  BY <1>7

(* A linked index has no gaps: it is the chain that Open reads.              *)
LEMMA LinkedIsChain ==
  ASSUME NEW n \in 0..MaxBlocks, NEW d \in Shelf(n), Linked(d)
  PROVE  d \in Seq(Block) /\ Len(d) \in Nat /\ Len(d) <= n /\ DOMAIN d = 1..Len(d)
<1> DEFINE H == DOMAIN d
<1>1. H \subseteq 1..n /\ n \in Nat
  BY ShelfIs, MaxBlocksAssumption
<1>2. \A h \in H : h = 1 \/ h - 1 \in H
  BY DEF Linked
<1>3. d = [h \in H |-> d[h]] /\ \A h \in H : d[h] \in Block
  BY ShelfIs
<1> HIDE DEF H
<1>4. \E g \in 0..n : H = 1..g
  <2>1. CASE H = {}
    <3>1. H = 1..0 /\ 0 \in 0..n
      BY <1>1, <2>1
    <3> QED
      BY <3>1
  <2>2. CASE H # {}
    <3>1. H \subseteq Nat /\ \A x \in H : x <= n
      BY <1>1
    <3>2. PICK g \in H : \A y \in H : y <= g
      BY <1>1, <2>2, <3>1, Greatest
    <3> DEFINE T == {x \in 1..g : x \notin H}
    <3>3. T = {}
      <4> SUFFICES ASSUME T # {} PROVE FALSE
        OBVIOUS
      <4>1. g \in Nat /\ T \subseteq Nat /\ \A x \in T : x <= g
        BY <3>1
      <4> HIDE DEF T
      <4>2. PICK m \in T : \A y \in T : y <= m
        BY <4>1, Greatest
      <4>3. m \in 1..g /\ m \notin H
        BY <4>2 DEF T
      <4>4. m + 1 \in 1..g
        BY <4>1, <4>3, <3>2
      <4>5. m + 1 \in H
        BY <4>1, <4>2, <4>4 DEF T
      <4>6. m + 1 # 1 /\ (m + 1) - 1 = m
        BY <4>1, <4>3
      <4> QED
        BY <1>2, <4>3, <4>5, <4>6
    <3>4. \A x \in H : x \in 1..g
      BY <1>1, <3>1, <3>2
    <3>5. \A x \in 1..g : x \in H
      BY <3>3
    <3>6. g \in 0..n
      BY <1>1, <3>2
    <3> QED
      BY <3>4, <3>5, <3>6
  <2> QED
    BY <2>1, <2>2
<1>5. PICK g \in 0..n : H = 1..g
  BY <1>4
<1>6. g \in Nat /\ g <= n
  BY <1>1
<1>7. d \in [1..g -> Block]
  BY <1>3, <1>5
<1>8. d \in Seq(Block) /\ DOMAIN d = 1..g
  BY <1>6, <1>7
<1>9. Len(d) = g
  BY <1>6, <1>8
<1> QED
  BY <1>6, <1>8, <1>9

(* The last identity of a chain is in range. *)
LEMMA LastIdIs ==
  ASSUME NEW s \in Seq(Block)
  PROVE  /\ Len(s) \in Nat /\ DOMAIN s = 1..Len(s)
         /\ LastId(s) \in 0..MaxBlocks
         /\ Len(s) = 0 => LastId(s) = 0
         /\ Len(s) # 0 => Len(s) \in DOMAIN s /\ LastId(s) = s[Len(s)].id
<1>1. Len(s) \in Nat /\ DOMAIN s = 1..Len(s)
  OBVIOUS
<1>2. CASE Len(s) = 0
  <2>1. s = <<>>
    BY <1>2
  <2> QED
    BY <1>1, <1>2, <2>1, MaxBlocksAssumption DEF LastId
<1>3. CASE Len(s) # 0
  <2>1. s # <<>> /\ Len(s) \in 1..Len(s)
    BY <1>1, <1>3
  <2>2. s[Len(s)] \in Block
    BY <2>1
  <2> QED
    BY <1>1, <1>3, <2>1, <2>2, MaxBlocksAssumption DEF LastId, Block
<1> QED
  BY <1>2, <1>3

(* Appending the block that continues a chain is the same in memory and on   *)
(* disk.                                                                     *)
LEMMA AppendIsAdd ==
  ASSUME NEW n \in 0..MaxBlocks, NEW s \in Seq(Block), s \in Shelf(n),
         NEW b \in Block, b.height <= n, b.height = Len(s) + 1
  PROVE  /\ Append(s, b) \in Seq(Block) /\ Append(s, b) \in Shelf(n)
         /\ Append(s, b) = Add(s, b)
         /\ Len(Append(s, b)) = Len(s) + 1
<1>1. Len(s) \in Nat /\ DOMAIN s = 1..Len(s)
  OBVIOUS
<1>2. Append(s, b) \in Seq(Block) /\ Len(Append(s, b)) = Len(s) + 1
  BY <1>1
<1>3. 1..(Len(s) + 1) = DOMAIN s \cup {b.height}
  BY <1>1
<1>4. Append(s, b) = [h \in 1..(Len(s) + 1) |-> IF h = Len(s) + 1 THEN b ELSE s[h]]
  <2> DEFINE t == Append(s, b)
             m == Len(s) + 1
  <2>1. t \in Seq(Block) /\ Len(t) = m /\ m \in Nat
    BY <1>1, <1>2
  <2>2. t = [h \in 1..m |-> t[h]]
    <3> HIDE DEF t, m
    <3> QED
      BY <2>1
  <2>3. \A h \in 1..m : t[h] = IF h = m THEN b ELSE s[h]
    BY <1>1
  <2> HIDE DEF t, m
  <2>4. t = [h \in 1..m |-> IF h = m THEN b ELSE s[h]]
    BY <2>2, <2>3
  <2> QED
    BY <2>4 DEF t, m
<1>5. Append(s, b) = Add(s, b)
  BY <1>3, <1>4 DEF Add
<1>6. Add(s, b) \in Shelf(n)
  BY AddIs
<1> QED
  BY <1>2, <1>5, <1>6

(* The empty index *)
LEMMA EmptyIs ==
  ASSUME NEW n \in 0..MaxBlocks
  PROVE  <<>> \in Shelf(n) /\ <<>> \in Seq(Block) /\ Linked(<<>>) /\ DOMAIN <<>> = {}
<1>1. <<>> \in [{} -> Block] /\ DOMAIN <<>> = {}
  OBVIOUS
<1>2. <<>> \in Shelf(n)
  BY <1>1, OnShelf
<1>3. Linked(<<>>)
  BY <1>1 DEF Linked
<1> QED
  BY <1>1, <1>2, <1>3

LEMMA PrefixTrans ==
  ASSUME NEW r \in Seq(Block), NEW s \in Seq(Block), NEW t \in Seq(Block),
         Prefix(r, s), Prefix(s, t)
  PROVE  Prefix(r, t)
BY DEF Prefix

LEMMA PrefixSame ==
  ASSUME NEW s \in Seq(Block)
  PROVE  Prefix(s, s)
BY DEF Prefix

LEMMA PrefixAppend ==
  ASSUME NEW s \in Seq(Block), NEW b \in Block
  PROVE  /\ Prefix(s, Append(s, b)) /\ Append(s, b) \in Seq(Block)
         /\ Len(Append(s, b)) = Len(s) + 1 /\ Append(s, b)[Len(s) + 1] = b
         /\ \A i \in 1..Len(s) : Append(s, b)[i] = s[i]
         /\ DOMAIN s \subseteq DOMAIN Append(s, b)
BY DEF Prefix

(* The log that repeats the last block does not continue the chain.          *)
LEMMA RepeatsNotFits ==
  ASSUME NEW n \in 0..MaxBlocks, NEW s \in Shelf(n), Linked(s), NEW b, Repeats(s, b)
  PROVE  ~Fits(s, b) /\ b.height = Len(s)
<1>1. s \in Seq(Block) /\ Len(s) \in Nat /\ DOMAIN s = 1..Len(s)
  BY LinkedIsChain
<1>2. Len(s) \in DOMAIN s /\ b = s[Len(s)]
  <2>1. s # <<>> /\ b = s[Len(s)]
    BY DEF Repeats
  <2>2. Len(s) # 0
    BY <1>1, <2>1
  <2> QED
    BY <1>1, <2>1, <2>2
<1>3. b.height = Len(s)
  BY <1>2, ShelfIs
<1>4. Len(s) # Len(s) + 1
  <2>1. \A k \in Nat : k # k + 1
    OBVIOUS
  <2> QED
    BY <1>1, <2>1, Zenon
<1> QED
  BY <1>3, <1>4, Zenon DEF Fits

(* A block that continues a linked chain, in memory and on disk *)
LEMMA Continued ==
  ASSUME NEW n \in 0..MaxBlocks, NEW s \in Shelf(n), Linked(s), NEW b \in Block,
         b.height <= n, Fits(s, b)
  PROVE  /\ Append(s, b) = Add(s, b) /\ Append(s, b) \in Seq(Block) /\ Append(s, b) \in Shelf(n)
         /\ Linked(Append(s, b)) /\ Repeats(Append(s, b), b) /\ ~Fits(Append(s, b), b)
         /\ Prefix(s, Append(s, b)) /\ DOMAIN s \subseteq DOMAIN Append(s, b)
<1> DEFINE a == Append(s, b)
<1>1. s \in Seq(Block) /\ Len(s) \in Nat /\ DOMAIN s = 1..Len(s)
  BY LinkedIsChain
<1>2. b.height = Len(s) + 1 /\ b.prev = LastId(s)
  BY DEF Fits
<1>3. a = Add(s, b) /\ a \in Seq(Block) /\ a \in Shelf(n)
  BY <1>1, <1>2, AppendIsAdd
<1>4. /\ Prefix(s, a) /\ Len(a) = Len(s) + 1 /\ a[Len(s) + 1] = b
      /\ \A i \in 1..Len(s) : a[i] = s[i]
      /\ DOMAIN s \subseteq DOMAIN a
  BY <1>1, PrefixAppend
<1> HIDE DEF a
<1>5. Repeats(a, b)
  <2>1. a # <<>>
    BY <1>1, <1>3, <1>4
  <2> QED
    BY <1>4, <2>1 DEF Repeats
<1>6. ASSUME NEW h \in DOMAIN a
      PROVE  IF h = 1 THEN a[h].prev = 0
                      ELSE h - 1 \in DOMAIN a /\ a[h].prev = a[h - 1].id
  <2>0. DOMAIN a = 1..(Len(s) + 1)
    BY <1>3, <1>4
  <2>1. CASE h = Len(s) + 1
    <3>1. CASE Len(s) = 0
      <4>1. LastId(s) = 0
        BY <1>1, <3>1, LastIdIs
      <4>2. h = 1 /\ a[h] = b
        BY <1>4, <2>1, <3>1
      <4> QED
        BY <1>2, <4>1, <4>2
    <3>2. CASE Len(s) # 0
      <4>1. LastId(s) = s[Len(s)].id /\ Len(s) \in 1..Len(s)
        BY <1>1, <3>2, LastIdIs
      <4>2. h # 1 /\ h - 1 = Len(s) /\ h - 1 \in DOMAIN a
        BY <1>1, <2>0, <2>1, <3>2
      <4> QED
        BY <1>2, <1>4, <2>1, <4>1, <4>2
    <3> QED
      BY <3>1, <3>2
  <2>2. CASE h # Len(s) + 1
    <3>1. h \in 1..Len(s)
      BY <1>1, <2>0, <2>2
    <3>2. IF h = 1 THEN s[h].prev = 0
                   ELSE h - 1 \in DOMAIN s /\ s[h].prev = s[h - 1].id
      BY <1>1, <3>1 DEF Linked
    <3> QED
      BY <1>1, <1>4, <3>1, <3>2
  <2> QED
    BY <2>1, <2>2
<1>7. Linked(a)
  BY <1>6 DEF Linked
<1>8. ~Fits(a, b)
  BY <1>3, <1>5, <1>7, RepeatsNotFits
<1> QED
  BY <1>3, <1>4, <1>5, <1>7, <1>8 DEF a

(* What Open makes of a restored directory *)
LEMMA OpenedIs ==
  ASSUME NEW n \in 0..MaxBlocks, NEW a \in [data : Shelf(n), wal : Block \cup {NoBlock}]
  PROVE  /\ Opened(a) \in Seq(Block) \cup {Rejected}
         /\ Opens(a.data, a.wal) => Opened(a) # Rejected
         /\ Opened(a) # Rejected =>
              /\ Linked(a.data) /\ a.data \in Seq(Block)
              /\ \/ Opened(a) = a.data
                 \/ /\ a.wal # NoBlock /\ Fits(a.data, a.wal)
                    /\ Opened(a) = Append(a.data, a.wal)
<1>1. Linked(a.data) => a.data \in Seq(Block)
  BY LinkedIsChain
<1>2. a.wal # NoBlock => a.wal \in Block
  OBVIOUS
<1>3. Linked(a.data) /\ a.wal # NoBlock => Append(a.data, a.wal) \in Seq(Block)
  BY <1>1, <1>2, PrefixAppend
<1>4. Opened(a) \in Seq(Block) \cup {Rejected}
  BY <1>1, <1>3 DEF Opened
<1>5. Opens(a.data, a.wal) => Opened(a) # Rejected
  BY <1>1, <1>3, RejectedAssumption DEF Opens, Joins, Opened
<1> QED
  BY <1>1, <1>4, <1>5 DEF Opened

(* The block of a commit has its type, continues the chain and is counted.   *)
LEMMA NewBlockType ==
  ASSUME Typed, made < MaxBlocks
  PROVE  /\ made + 1 \in 0..MaxBlocks
         /\ NewBlock \in Block /\ NewBlock # NoBlock /\ Fits(mem, NewBlock)
         /\ NewBlock.height <= made + 1
<1>1. made \in Nat /\ made + 1 \in 1..MaxBlocks /\ mem \in Seq(Block) /\ mem \in Shelf(made)
  BY MaxBlocksAssumption DEF Typed
<1>2. Len(mem) \in Nat /\ DOMAIN mem = 1..Len(mem) /\ DOMAIN mem \subseteq 1..made
      /\ LastId(mem) \in 0..MaxBlocks
  BY <1>1, ShelfIs, LastIdIs DEF Typed
<1>3. Len(mem) <= made
  BY <1>1, <1>2
<1>4. Len(mem) + 1 \in 1..MaxBlocks
  BY <1>1, <1>2, <1>3, MaxBlocksAssumption
<1>5. NewBlock \in Block
  BY <1>1, <1>2, <1>4 DEF NewBlock, Block
<1> QED
  BY <1>1, <1>2, <1>3, <1>5, NoBlockAssumption DEF NewBlock, Fits

(* The source's history is a chain that begins with what is on disk.         *)
LEMMA HistoryType ==
  Typed /\ SourceInv /\ ~spoiled =>
    History \in Seq(Block) /\ Prefix(disk, History) /\ DOMAIN disk \subseteq DOMAIN History
<1> SUFFICES ASSUME Typed, SourceInv, ~spoiled
             PROVE  /\ History \in Seq(Block) /\ Prefix(disk, History)
                    /\ DOMAIN disk \subseteq DOMAIN History
  OBVIOUS
<1>1. disk \in Seq(Block) /\ wal \in Block \cup {NoBlock}
  BY LinkedIsChain DEF Typed, SourceInv
<1> QED
  BY <1>1, PrefixSame, PrefixAppend DEF History

(* The log is the last block of the source's history.                        *)
LEMMA LogIsLast ==
  ASSUME Typed, SourceInv, ~spoiled, wal # NoBlock
  PROVE  wal = History[Len(History)] /\ wal.height = Len(History) /\ wal \in Block
<1>1. disk \in Seq(Block) /\ wal \in Block /\ Linked(disk) /\ made \in 0..MaxBlocks /\ disk \in Shelf(made)
  BY LinkedIsChain DEF Typed, SourceInv
<1>2. CASE Fits(disk, wal)
  <2>1. History = Append(disk, wal)
    BY <1>2 DEF History
  <2>2. Len(History) = Len(disk) + 1 /\ History[Len(disk) + 1] = wal
    BY <1>1, <2>1, PrefixAppend
  <2> QED
    BY <1>1, <1>2, <2>2 DEF Fits
<1>3. CASE ~Fits(disk, wal)
  <2>1. Repeats(disk, wal) /\ History = disk
    BY <1>3 DEF SourceInv, Joins, History
  <2> QED
    BY <1>1, <2>1, RepeatsNotFits DEF Repeats
<1> QED
  BY <1>2, <1>3

(* What Open makes of a copied chain of the source and the source's log of a *)
(* later moment is again part of the source's history.                       *)
LEMMA ArchiveOfSource ==
  ASSUME Typed, SourceInv, ~spoiled, NEW chain \in Seq(Block), Prefix(chain, History),
         wal # NoBlock, Fits(chain, wal)
  PROVE  Prefix(Append(chain, wal), History)
<1> DEFINE hist == History
           longer == Append(chain, wal)
<1>1. wal = hist[Len(hist)] /\ wal.height = Len(hist) /\ wal \in Block
  BY LogIsLast
<1>2. hist \in Seq(Block) /\ Prefix(chain, hist)
  BY HistoryType
<1>3. Len(hist) = Len(chain) + 1 /\ Len(chain) \in Nat
  BY <1>1 DEF Fits
<1>4. /\ Len(longer) = Len(chain) + 1
      /\ \A i \in 1..Len(chain) : longer[i] = chain[i]
      /\ longer[Len(chain) + 1] = wal
  BY <1>1, PrefixAppend
<1> HIDE DEF hist, longer
<1>5. ASSUME NEW i \in 1..(Len(chain) + 1) PROVE longer[i] = hist[i]
  <2>1. CASE i = Len(chain) + 1
    BY <1>1, <1>3, <1>4, <2>1
  <2>2. CASE i # Len(chain) + 1
    <3>1. i \in 1..Len(chain)
      BY <1>3, <2>2
    <3> QED
      BY <1>2, <1>4, <3>1 DEF Prefix
  <2> QED
    BY <2>1, <2>2
<1>6. Prefix(longer, hist)
  BY <1>2, <1>3, <1>4, <1>5 DEF Prefix
<1> QED
  BY <1>6 DEF hist, longer
-------------------------------------------------------------------------------
(* Types *)

LEMMA InitTyped == Init => Typed /\ Flags
<1> SUFFICES ASSUME Init PROVE Typed /\ Flags
  OBVIOUS
<1>1. made \in 0..MaxBlocks /\ faults \in 0..MaxFaults
  BY MaxBlocksAssumption DEF Init
<1>2. <<>> \in Shelf(made) /\ <<>> \in Seq(Block)
  BY <1>1, EmptyIs
<1>3. copy \in [data : Shelf(made), wal : Block \cup {NoBlock}]
  BY <1>2 DEF Init
<1>4. Typed
  BY <1>1, <1>2, <1>3 DEF Init, Typed
<1> QED
  BY <1>4 DEF Init, Flags

LEMMA NextFlags == Flags /\ [Next]_vars => Flags'
<1> SUFFICES ASSUME Flags, [Next]_vars PROVE Flags'
  OBVIOUS
<1> USE DEF Flags, sourceVars, backupVars
<1>1. CASE WriteLog \/ AppendBlock \/ ClearLog \/ Crash
  BY <1>1 DEF WriteLog, AppendBlock, ClearLog, Crash
<1>2. CASE AppendFails
  BY <1>2 DEF AppendFails
<1>3. CASE Reopen \/ Replay \/ ReopenFails
  BY <1>3 DEF Reopen, Replay, ReopenFails
<1>4. CASE StartBackup \/ CopyData \/ ListWal \/ CopyWal \/ BackupFails \/ Restore \/ RestoreRefused
  BY <1>4 DEF StartBackup, CopyData, ListWal, CopyWal, BackupFails, Restore, RestoreRefused
<1>5. CASE UNCHANGED vars
  BY <1>5 DEF vars
<1> QED
  BY <1>1, <1>2, <1>3, <1>4, <1>5 DEF Next

(* The log on the shelf of what is on disk *)
LEMMA LogOnDisk ==
  ASSUME Typed, wal # NoBlock
  PROVE  /\ wal \in Block /\ Add(disk, wal) \in Shelf(made)
         /\ DOMAIN disk \subseteq DOMAIN Add(disk, wal)
<1>1. made \in 0..MaxBlocks /\ disk \in Shelf(made) /\ wal \in Block /\ wal.height <= made
  BY DEF Typed
<1>2. Add(disk, wal) \in Shelf(made)
  BY <1>1, AddIs
<1>3. DOMAIN disk \subseteq DOMAIN Add(disk, wal)
  BY DEF Add
<1> QED
  BY <1>1, <1>2, <1>3

LEMMA FaultCounted == Typed /\ Fault => faults' \in 0..MaxFaults
BY MaxBlocksAssumption DEF Typed, Fault

LEMMA ClearWALTyped ==
  Typed /\ ClearWAL => faults' \in 0..MaxFaults /\ wal' \in {wal, NoBlock}
BY FaultCounted DEF Typed, ClearWAL

LEMMA WriteLogTyped == Typed /\ WriteLog => Typed'
<1> SUFFICES ASSUME Typed, WriteLog PROVE Typed'
  OBVIOUS
<1>1. /\ wal' = NewBlock /\ made' = made + 1 /\ pc' = "logged"
      /\ UNCHANGED <<disk, mem, faults, bpc, copy, replica, since>>
      /\ made + 1 \in 0..MaxBlocks
      /\ NewBlock \in Block /\ NewBlock # NoBlock /\ Fits(mem, NewBlock)
      /\ NewBlock.height <= made + 1
  BY NewBlockType DEF WriteLog
<1>2. made <= made + 1
  BY MaxBlocksAssumption DEF Typed
<1>3. \A d \in Shelf(made) : d \in Shelf(made + 1)
  BY <1>1, <1>2, ShelfGrows DEF Typed
<1>4. disk' \in Shelf(made') /\ mem' \in Shelf(made')
  BY <1>1, <1>3 DEF Typed
<1>5. copy' \in [data : Shelf(made'), wal : Block \cup {NoBlock}]
  BY <1>1, <1>3 DEF Typed
<1>6. Fits(mem, wal)'
  BY <1>1 DEF Fits, LastId
<1> QED
  BY <1>1, <1>4, <1>5, <1>6 DEF Typed

LEMMA AppendBlockTyped == Typed /\ AppendBlock => Typed'
<1> SUFFICES ASSUME Typed, AppendBlock PROVE Typed'
  OBVIOUS
<1>1. /\ pc = "logged" /\ wal # NoBlock /\ Fits(mem, wal)
      /\ disk' \in {disk, Add(disk, wal)} /\ mem' = Append(mem, wal) /\ pc' = "appended"
      /\ UNCHANGED <<wal, made, faults, bpc, copy, replica, since>>
  BY DEF AppendBlock, Typed, backupVars
<1>2. /\ wal \in Block /\ wal.height <= made /\ mem \in Seq(Block) /\ mem \in Shelf(made)
      /\ made \in 0..MaxBlocks /\ Add(disk, wal) \in Shelf(made)
  BY <1>1, LogOnDisk DEF Typed
<1>3. mem' \in Seq(Block) /\ mem' \in Shelf(made)
  BY <1>1, <1>2, AppendIsAdd DEF Fits
<1> QED
  BY <1>1, <1>2, <1>3 DEF Typed

LEMMA AppendFailsTyped == Typed /\ AppendFails => Typed'
<1> SUFFICES ASSUME Typed, AppendFails PROVE Typed'
  OBVIOUS
<1>1. /\ pc = "logged" /\ wal # NoBlock
      /\ disk' \in {disk, Add(disk, wal)} /\ pc' = "ready"
      /\ UNCHANGED <<wal, mem, made, bpc, copy, replica, since>>
      /\ faults' \in 0..MaxFaults
  BY FaultCounted DEF AppendFails, Typed, backupVars
<1>2. Add(disk, wal) \in Shelf(made)
  BY <1>1, LogOnDisk
<1> QED
  BY <1>1, <1>2 DEF Typed

LEMMA ClearLogTyped == Typed /\ ClearLog => Typed'
<1> SUFFICES ASSUME Typed, ClearLog PROVE Typed'
  OBVIOUS
<1>1. /\ pc' = "ready" /\ UNCHANGED <<disk, mem, made, bpc, copy, replica, since>>
      /\ faults' \in 0..MaxFaults /\ wal' \in {wal, NoBlock}
  BY ClearWALTyped DEF ClearLog, backupVars
<1> QED
  BY <1>1 DEF Typed

LEMMA CrashTyped == Typed /\ Crash => Typed'
<1> SUFFICES ASSUME Typed, Crash PROVE Typed'
  OBVIOUS
<1>1. /\ pc' = "down" /\ UNCHANGED <<disk, wal, mem, made, bpc, copy, replica, since>>
      /\ faults' \in 0..MaxFaults
  BY FaultCounted DEF Crash, backupVars
<1> QED
  BY <1>1 DEF Typed

LEMMA ReopenTyped == Typed /\ Reopen => Typed'
<1> SUFFICES ASSUME Typed, Reopen PROVE Typed'
  OBVIOUS
<1>1. /\ mem' = disk /\ Linked(disk) /\ pc' = "ready"
      /\ UNCHANGED <<disk, made, bpc, copy, replica, since>>
      /\ faults' \in 0..MaxFaults /\ wal' \in {wal, NoBlock}
  BY ClearWALTyped DEF Reopen, backupVars
<1>2. disk \in Seq(Block)
  BY <1>1, LinkedIsChain DEF Typed
<1> QED
  BY <1>1, <1>2 DEF Typed

LEMMA ReplayTyped == Typed /\ Replay => Typed'
<1> SUFFICES ASSUME Typed, Replay PROVE Typed'
  OBVIOUS
<1>1. /\ wal # NoBlock /\ Linked(disk) /\ Fits(disk, wal)
      /\ disk' = Add(disk, wal) /\ mem' = Append(disk, wal) /\ pc' = "ready"
      /\ UNCHANGED <<made, bpc, copy, replica, since>>
      /\ faults' \in 0..MaxFaults /\ wal' \in {wal, NoBlock}
  BY ClearWALTyped DEF Replay, backupVars
<1>2. /\ made \in 0..MaxBlocks /\ disk \in Shelf(made) /\ wal \in Block /\ wal.height <= made
      /\ Add(disk, wal) \in Shelf(made)
  BY <1>1, LogOnDisk DEF Typed
<1>3. Append(disk, wal) \in Seq(Block) /\ Append(disk, wal) \in Shelf(made)
  BY <1>1, <1>2, Continued
<1> QED
  BY <1>1, <1>2, <1>3 DEF Typed

LEMMA ReopenFailsTyped == Typed /\ ReopenFails => Typed'
<1> SUFFICES ASSUME Typed, ReopenFails PROVE Typed'
  OBVIOUS
<1>1. /\ disk' = disk \/ (wal # NoBlock /\ disk' = Add(disk, wal))
      /\ UNCHANGED <<wal, mem, pc, made, bpc, copy, replica, since>>
  BY DEF ReopenFails, backupVars
<1>2. disk' \in Shelf(made)
  BY <1>1, LogOnDisk DEF Typed
<1>3. faults' = faults \/ Fault
  BY DEF ReopenFails
<1>4. faults' \in 0..MaxFaults
  BY <1>3, FaultCounted DEF Typed
<1>5. pc' = "logged" => Fits(mem, wal)'
  BY <1>1 DEF Typed, Fits, LastId
<1> QED
  BY <1>1, <1>2, <1>4, <1>5 DEF Typed

(* The steps of the backup leave the source alone. *)
LEMMA BackupTyped ==
  ASSUME Typed, UNCHANGED sourceVars,
         bpc' \in {"idle", "walking", "copied", "listed", "archived", "restored", "failed"},
         copy' \in [data : Shelf(made), wal : Block \cup {NoBlock}],
         replica' \in Seq(Block) \cup {Rejected, NoBlock},
         since' \subseteq 1..MaxBlocks
  PROVE  Typed'
<1>1. UNCHANGED <<disk, wal, mem, pc, made, faults>>
  BY DEF sourceVars
<1>2. pc' = "logged" => Fits(mem, wal)'
  BY <1>1 DEF Typed, Fits, LastId
<1> QED
  BY <1>1, <1>2 DEF Typed

LEMMA StartBackupTyped == Typed /\ StartBackup => Typed'
<1> SUFFICES ASSUME Typed, StartBackup PROVE Typed'
  OBVIOUS
<1>1. <<>> \in Shelf(made)
  BY EmptyIs DEF Typed
<1>2. copy' \in [data : Shelf(made), wal : Block \cup {NoBlock}]
  BY <1>1 DEF StartBackup
<1>3. DOMAIN disk \subseteq 1..made /\ 1..made \subseteq 1..MaxBlocks
  <2>1. made \in 0..MaxBlocks /\ disk \in Shelf(made)
    BY DEF Typed
  <2> QED
    BY <2>1, ShelfIs, MaxBlocksAssumption
<1>4. /\ bpc' = "walking" /\ replica' = NoBlock /\ since' = DOMAIN disk
      /\ UNCHANGED sourceVars
  BY DEF StartBackup
<1> QED
  BY <1>2, <1>3, <1>4, BackupTyped

LEMMA CopyDataTyped == Typed /\ CopyData => Typed'
<1> SUFFICES ASSUME Typed, CopyData PROVE Typed'
  OBVIOUS
<1>1. PICK index \in {disk} \cup (IF pc = "logged" THEN {Add(disk, wal)} ELSE {}) :
        copy' = [copy EXCEPT !.data = index]
  BY DEF CopyData
<1>2. index \in Shelf(made)
  BY <1>1, LogOnDisk DEF Typed
<1>3. copy' \in [data : Shelf(made), wal : Block \cup {NoBlock}]
  BY <1>1, <1>2 DEF Typed
<1>4. bpc' = "copied" /\ UNCHANGED <<replica, since>> /\ UNCHANGED sourceVars
  BY DEF CopyData
<1>5. replica' \in Seq(Block) \cup {Rejected, NoBlock} /\ since' \subseteq 1..MaxBlocks
  BY <1>4 DEF Typed
<1> QED
  BY <1>3, <1>4, <1>5, BackupTyped

LEMMA CopyWalTyped == Typed /\ CopyWal => Typed'
<1> SUFFICES ASSUME Typed, CopyWal PROVE Typed'
  OBVIOUS
<1>1. copy' \in [data : Shelf(made), wal : Block \cup {NoBlock}]
  BY DEF Typed, CopyWal
<1>2. bpc' = "archived" /\ UNCHANGED <<replica, since>> /\ UNCHANGED sourceVars
  BY DEF CopyWal
<1>3. replica' \in Seq(Block) \cup {Rejected, NoBlock} /\ since' \subseteq 1..MaxBlocks
  BY <1>2 DEF Typed
<1> QED
  BY <1>1, <1>2, <1>3, BackupTyped

LEMMA RestoreTyped == Typed /\ Restore => Typed'
<1> SUFFICES ASSUME Typed, Restore PROVE Typed'
  OBVIOUS
<1>1. /\ bpc' = "restored" /\ replica' = Opened(copy) /\ UNCHANGED <<copy, since>>
      /\ UNCHANGED sourceVars
  BY DEF Restore
<1>2. replica' \in Seq(Block) \cup {Rejected}
  BY <1>1, OpenedIs DEF Typed
<1>3. /\ copy' \in [data : Shelf(made), wal : Block \cup {NoBlock}]
      /\ since' \subseteq 1..MaxBlocks
  BY <1>1 DEF Typed
<1> QED
  BY <1>1, <1>2, <1>3, BackupTyped

LEMMA OtherTyped == Typed /\ (ListWal \/ BackupFails \/ RestoreRefused) => Typed'
<1> SUFFICES ASSUME Typed, ListWal \/ BackupFails \/ RestoreRefused PROVE Typed'
  OBVIOUS
<1>1. bpc' \in {"listed", "failed"} /\ UNCHANGED <<copy, replica, since>> /\ UNCHANGED sourceVars
  BY DEF ListWal, BackupFails, RestoreRefused
<1>2. /\ copy' \in [data : Shelf(made), wal : Block \cup {NoBlock}]
      /\ replica' \in Seq(Block) \cup {Rejected, NoBlock} /\ since' \subseteq 1..MaxBlocks
  BY <1>1 DEF Typed
<1> QED
  BY <1>1, <1>2, BackupTyped

LEMMA NextTyped == Typed /\ [Next]_vars => Typed'
<1>1. Typed /\ UNCHANGED vars => Typed'
  <2> SUFFICES ASSUME Typed, UNCHANGED vars PROVE Typed'
    OBVIOUS
  <2>1. UNCHANGED sourceVars /\ UNCHANGED <<bpc, copy, replica, since>>
    BY DEF vars, backupVars
  <2>2. /\ copy' \in [data : Shelf(made), wal : Block \cup {NoBlock}]
        /\ replica' \in Seq(Block) \cup {Rejected, NoBlock} /\ since' \subseteq 1..MaxBlocks
        /\ bpc' \in {"idle", "walking", "copied", "listed", "archived", "restored", "failed"}
    BY <2>1 DEF Typed
  <2> QED
    BY <2>1, <2>2, BackupTyped
<1> QED
  BY <1>1, WriteLogTyped, AppendBlockTyped, AppendFailsTyped, ClearLogTyped, CrashTyped,
     ReopenTyped, ReplayTyped, ReopenFailsTyped, StartBackupTyped, CopyDataTyped,
     CopyWalTyped, RestoreTyped, OtherTyped DEF Next
-------------------------------------------------------------------------------
(* The source: what recovery finds only grows, and its history too unless an *)
(* append fails.                                                             *)

Grows ==
  /\ DOMAIN disk \subseteq DOMAIN disk'
  /\ ~spoiled' => ~spoiled
  /\ ~forked' => ~forked /\ Prefix(History, History')

(* Once something was left by a failed append nothing more is claimed.       *)
LEMMA SpoiledSource ==
  ASSUME spoiled', forked', DOMAIN disk \subseteq DOMAIN disk'
  PROVE  SourceInv' /\ Grows
BY DEF SourceInv, Grows

(* Facts about a source that is not spoiled *)
LEMMA Unspoiled ==
  ASSUME Typed, SourceInv, ~spoiled
  PROVE  /\ made \in 0..MaxBlocks /\ disk \in Shelf(made) /\ Linked(disk) /\ disk \in Seq(Block)
         /\ History \in Seq(Block) /\ Prefix(History, History)
         /\ Repeats(disk, wal) => ~Fits(disk, wal)
         /\ wal = NoBlock \/ Repeats(disk, wal) => History = disk
<1>1. made \in 0..MaxBlocks /\ disk \in Shelf(made) /\ Linked(disk)
  BY DEF Typed, SourceInv
<1>2. disk \in Seq(Block) /\ History \in Seq(Block)
  BY <1>1, LinkedIsChain, HistoryType
<1>3. Prefix(History, History)
  BY <1>2, PrefixSame
<1>4. Repeats(disk, wal) => ~Fits(disk, wal)
  BY <1>1, RepeatsNotFits
<1> QED
  BY <1>1, <1>2, <1>3, <1>4 DEF History

LEMMA WriteLogSource == Typed /\ SourceInv /\ WriteLog => SourceInv' /\ Grows
<1> SUFFICES ASSUME Typed, SourceInv, WriteLog PROVE SourceInv' /\ Grows
  OBVIOUS
<1>1. /\ pc = "ready" /\ wal' = NewBlock /\ pc' = "logged"
      /\ UNCHANGED <<disk, torn, mem, forked, spoiled>>
  BY DEF WriteLog
<1>2. NewBlock \in Block /\ NewBlock # NoBlock /\ Fits(mem, NewBlock)
  BY NewBlockType DEF WriteLog
<1>3. CASE spoiled
  BY <1>1, <1>3, SpoiledSource DEF SourceInv
<1>4. CASE ~spoiled
  <2>1. mem = disk /\ ~torn /\ Linked(disk) /\ disk \in Seq(Block)
    BY <1>1, <1>4, Unspoiled DEF SourceInv
  <2>2. Fits(disk, wal)' /\ Linked(disk)'
    BY <1>1, <1>2, <2>1 DEF Fits, LastId, Linked
  <2>3. SourceInv'
    BY <1>1, <1>4, <2>1, <2>2 DEF SourceInv, Joins
  <2>4. History' = Append(disk, NewBlock)
    BY <1>1, <1>2, <2>2 DEF History
  <2>5. ~forked => History = disk
    BY <1>1, <1>4, Unspoiled DEF SourceInv
  <2>6. ~forked => Prefix(History, History')
    BY <1>2, <2>1, <2>4, <2>5, PrefixAppend
  <2> QED
    BY <1>1, <1>4, <2>3, <2>6 DEF Grows
<1> QED
  BY <1>3, <1>4

(* The log goes to the end of the chain, by an append or by a replay.        *)
LEMMA LogApplied ==
  ASSUME Typed, SourceInv, ~spoiled, wal # NoBlock, Fits(disk, wal), disk' = Add(disk, wal)
  PROVE  /\ disk' = Append(disk, wal) /\ Linked(disk') /\ Repeats(disk', wal)
         /\ ~Fits(disk', wal) /\ History = disk' /\ DOMAIN disk \subseteq DOMAIN disk'
         /\ Prefix(History, disk')
<1>1. /\ made \in 0..MaxBlocks /\ disk \in Shelf(made) /\ Linked(disk)
      /\ wal \in Block /\ wal.height <= made /\ Prefix(History, History)
  BY Unspoiled DEF Typed
<1>2. History = Append(disk, wal)
  BY DEF History
<1> DEFINE a == Append(disk, wal)
<1>3. /\ a = Add(disk, wal) /\ Linked(a) /\ Repeats(a, wal) /\ ~Fits(a, wal)
      /\ DOMAIN disk \subseteq DOMAIN a
  BY <1>1, Continued
<1>4. disk' = a
  BY <1>3
<1> HIDE DEF a
<1>5. Linked(disk') /\ Repeats(disk', wal) /\ ~Fits(disk', wal) /\ DOMAIN disk \subseteq DOMAIN disk'
  BY <1>3, <1>4
<1> QED
  BY <1>1, <1>2, <1>4, <1>5 DEF a

(* A log that does not continue the chain adds nothing to the history.       *)
LEMMA NothingMore ==
  ASSUME wal' \in {wal, NoBlock}, ~Fits(disk', wal)
  PROVE  History' = disk'
BY DEF History, Fits, LastId

LEMMA AppendBlockSource == Typed /\ SourceInv /\ AppendBlock => SourceInv' /\ Grows
<1> SUFFICES ASSUME Typed, SourceInv, AppendBlock PROVE SourceInv' /\ Grows
  OBVIOUS
<1>1. /\ pc = "logged" /\ wal # NoBlock /\ Fits(mem, wal)
      /\ disk' = Add(disk, wal) \/ (torn /\ disk' = disk)
      /\ mem' = Append(mem, wal) /\ pc' = "appended"
      /\ UNCHANGED <<torn, wal, forked, spoiled>>
  BY DEF AppendBlock, Typed
<1>2. CASE spoiled
  <2>1. DOMAIN disk \subseteq DOMAIN disk'
    BY <1>1, LogOnDisk
  <2> QED
    BY <1>1, <1>2, <2>1, SpoiledSource DEF SourceInv
<1>3. CASE ~spoiled
  <2>1. mem = disk /\ ~torn
    BY <1>1, <1>3 DEF SourceInv
  <2>2. disk' = Add(disk, wal) /\ Fits(disk, wal)
    BY <1>1, <2>1
  <2>3. /\ disk' = Append(disk, wal) /\ Linked(disk') /\ Repeats(disk', wal)
        /\ ~Fits(disk', wal) /\ DOMAIN disk \subseteq DOMAIN disk' /\ Prefix(History, disk')
    BY <1>1, <1>3, <2>2, LogApplied
  <2>4. Linked(disk)' /\ Repeats(disk, wal)'
    BY <1>1, <2>3 DEF Linked, Repeats
  <2>5. SourceInv'
    BY <1>1, <1>3, <2>1, <2>3, <2>4 DEF SourceInv, Joins
  <2>6. History' = disk'
    BY <1>1, <2>3, NothingMore
  <2> QED
    BY <1>1, <1>3, <2>3, <2>5, <2>6 DEF Grows
<1> QED
  BY <1>2, <1>3

LEMMA AppendFailsSource == Typed /\ SourceInv /\ AppendFails => SourceInv' /\ Grows
<1> SUFFICES ASSUME Typed, SourceInv, AppendFails PROVE SourceInv' /\ Grows
  OBVIOUS
<1>1. /\ pc = "logged" /\ wal # NoBlock /\ pc' = "ready" /\ forked' /\ UNCHANGED <<wal, mem>>
      /\ \/ UNCHANGED <<disk, torn, spoiled>>
         \/ disk' = Add(disk, wal) /\ spoiled'
         \/ disk' = disk /\ spoiled'
  BY DEF AppendFails, Typed
<1>2. CASE spoiled'
  <2>1. DOMAIN disk \subseteq DOMAIN disk'
    BY <1>1, LogOnDisk
  <2> QED
    BY <1>1, <1>2, <2>1, SpoiledSource
<1>3. CASE ~spoiled'
  <2>1. UNCHANGED <<disk, torn, spoiled, wal, mem>> /\ ~spoiled
    BY <1>1, <1>3
  <2>2. Linked(disk)' /\ Joins(disk, wal)'
    BY <2>1 DEF SourceInv, Linked, Joins, Repeats, Fits, LastId
  <2> QED
    BY <1>1, <2>1, <2>2 DEF SourceInv, Grows
<1> QED
  BY <1>2, <1>3

LEMMA ClearLogSource == Typed /\ SourceInv /\ ClearLog => SourceInv' /\ Grows
<1> SUFFICES ASSUME Typed, SourceInv, ClearLog PROVE SourceInv' /\ Grows
  OBVIOUS
<1>1. /\ pc = "appended" /\ wal' \in {wal, NoBlock} /\ pc' = "ready"
      /\ UNCHANGED <<disk, torn, mem, forked, spoiled>>
  BY ClearWALTyped DEF ClearLog
<1>2. CASE spoiled
  BY <1>1, <1>2, SpoiledSource DEF SourceInv
<1>3. CASE ~spoiled
  <2>1. Repeats(disk, wal) /\ ~Fits(disk, wal) /\ History = disk /\ Prefix(History, History)
    BY <1>1, <1>3, Unspoiled DEF SourceInv
  <2>2. Linked(disk)' /\ (wal' = NoBlock \/ Repeats(disk, wal)')
    BY <1>1, <1>3, <2>1 DEF SourceInv, Linked, Repeats
  <2>3. SourceInv'
    BY <1>1, <1>3, <2>2 DEF SourceInv, Joins
  <2>4. History' = disk'
    BY <1>1, <2>1, NothingMore
  <2> QED
    BY <1>1, <1>3, <2>1, <2>3, <2>4 DEF Grows
<1> QED
  BY <1>2, <1>3

(* Nothing on disk changes, and the source is down or where it was.          *)
LEMMA SourceAtRest ==
  ASSUME Typed, SourceInv, UNCHANGED <<disk, torn, wal, mem, forked, spoiled>>,
         pc' \in {pc, "down"}
  PROVE  SourceInv' /\ Grows
<1>1. CASE spoiled
  BY <1>1, SpoiledSource DEF SourceInv
<1>2. CASE ~spoiled
  <2>1. Linked(disk)' /\ Joins(disk, wal)' /\ Repeats(disk, wal)' = Repeats(disk, wal)
    BY <1>2 DEF SourceInv, Linked, Joins, Repeats, Fits, LastId
  <2>2. SourceInv'
    BY <1>2, <2>1 DEF SourceInv
  <2>3. History' = History
    BY DEF History, Fits, LastId
  <2>4. Prefix(History, History')
    BY <1>2, <2>3, Unspoiled
  <2> QED
    BY <1>2, <2>2, <2>4 DEF Grows
<1> QED
  BY <1>1, <1>2

LEMMA CrashSource == Typed /\ SourceInv /\ Crash => SourceInv' /\ Grows
BY SourceAtRest DEF Crash

LEMMA ReopenSource == Typed /\ SourceInv /\ Reopen => SourceInv' /\ Grows
<1> SUFFICES ASSUME Typed, SourceInv, Reopen PROVE SourceInv' /\ Grows
  OBVIOUS
<1>1. /\ wal = NoBlock \/ Repeats(disk, wal)
      /\ mem' = disk /\ ~torn' /\ wal' \in {wal, NoBlock} /\ pc' = "ready"
      /\ UNCHANGED <<disk, forked, spoiled>>
  BY ClearWALTyped DEF Reopen
<1>2. CASE spoiled
  BY <1>1, <1>2, SpoiledSource DEF SourceInv
<1>3. CASE ~spoiled
  <2>1. History = disk /\ Prefix(History, History)
    BY <1>1, <1>3, Unspoiled DEF SourceInv
  <2>2. Linked(disk)' /\ (wal' = NoBlock \/ Repeats(disk, wal)')
    BY <1>1, <1>3 DEF SourceInv, Linked, Repeats
  <2>3. SourceInv'
    BY <1>1, <1>3, <2>2 DEF SourceInv, Joins
  <2>4. History' = disk'
    <3>1. CASE wal = NoBlock
      BY <1>1, <3>1 DEF History
    <3>2. CASE Repeats(disk, wal)
      <4>1. ~Fits(disk', wal)
        BY <1>1, <1>3, <3>2, Unspoiled
      <4> QED
        BY <1>1, <4>1, NothingMore
    <3> QED
      BY <1>1, <3>1, <3>2
  <2> QED
    BY <1>1, <1>3, <2>1, <2>3, <2>4 DEF Grows
<1> QED
  BY <1>2, <1>3

LEMMA ReplaySource == Typed /\ SourceInv /\ Replay => SourceInv' /\ Grows
<1> SUFFICES ASSUME Typed, SourceInv, Replay PROVE SourceInv' /\ Grows
  OBVIOUS
<1>1. /\ wal # NoBlock /\ Fits(disk, wal) /\ disk' = Add(disk, wal)
      /\ mem' = Append(disk, wal) /\ ~torn' /\ wal' \in {wal, NoBlock} /\ pc' = "ready"
      /\ UNCHANGED <<forked, spoiled>>
  BY ClearWALTyped DEF Replay
<1>2. CASE spoiled
  <2>1. DOMAIN disk \subseteq DOMAIN disk'
    BY <1>1, LogOnDisk
  <2> QED
    BY <1>1, <1>2, <2>1, SpoiledSource DEF SourceInv
<1>3. CASE ~spoiled
  <2>1. /\ disk' = Append(disk, wal) /\ Linked(disk') /\ Repeats(disk', wal)
        /\ ~Fits(disk', wal) /\ DOMAIN disk \subseteq DOMAIN disk' /\ Prefix(History, disk')
    BY <1>1, <1>3, LogApplied
  <2>2. Linked(disk)' /\ (wal' = NoBlock \/ Repeats(disk, wal)')
    BY <1>1, <2>1 DEF Linked, Repeats
  <2>3. SourceInv'
    BY <1>1, <1>3, <2>1, <2>2 DEF SourceInv, Joins
  <2>4. History' = disk'
    BY <1>1, <2>1, NothingMore
  <2> QED
    BY <1>1, <1>3, <2>1, <2>3, <2>4 DEF Grows
<1> QED
  BY <1>2, <1>3

LEMMA ReopenFailsSource == Typed /\ SourceInv /\ ReopenFails => SourceInv' /\ Grows
<1> SUFFICES ASSUME Typed, SourceInv, ReopenFails PROVE SourceInv' /\ Grows
  OBVIOUS
<1>1. /\ \/ ~Linked(disk) /\ disk' = disk
         \/ /\ wal # NoBlock /\ ~Repeats(disk, wal)
            /\ \/ ~Fits(disk, wal) /\ disk' = Add(disk, wal)
               \/ disk' \in {disk, Add(disk, wal)}
      /\ pc = "down" /\ ~torn' /\ UNCHANGED <<wal, mem, pc, forked, spoiled>>
  BY DEF ReopenFails
<1>2. CASE spoiled
  <2>1. DOMAIN disk \subseteq DOMAIN disk'
    BY <1>1, LogOnDisk
  <2> QED
    BY <1>1, <1>2, <2>1, SpoiledSource DEF SourceInv
<1>3. CASE ~spoiled
  <2>1. wal # NoBlock /\ Fits(disk, wal) /\ disk' \in {disk, Add(disk, wal)}
    BY <1>1, <1>3 DEF SourceInv, Joins
  <2>2. CASE disk' = disk
    <3>1. ~torn
      BY <1>3 DEF SourceInv
    <3>2. Linked(disk)' /\ Joins(disk, wal)'
      BY <1>1, <1>3, <2>2 DEF SourceInv, Linked, Joins, Repeats, Fits, LastId
    <3>3. SourceInv'
      BY <1>1, <1>3, <3>2 DEF SourceInv
    <3>4. History' = History
      BY <1>1, <2>2 DEF History, Fits, LastId
    <3>5. Prefix(History, History')
      BY <1>3, <3>4, Unspoiled
    <3> QED
      BY <1>1, <1>3, <2>2, <3>3, <3>5 DEF Grows
  <2>3. CASE disk' = Add(disk, wal)
    <3>1. /\ Linked(disk') /\ Repeats(disk', wal) /\ ~Fits(disk', wal)
          /\ DOMAIN disk \subseteq DOMAIN disk' /\ Prefix(History, disk')
      BY <1>3, <2>1, <2>3, LogApplied
    <3>2. Linked(disk)' /\ Joins(disk, wal)'
      BY <1>1, <3>1 DEF Linked, Joins, Repeats
    <3>3. SourceInv'
      BY <1>1, <1>3, <3>2 DEF SourceInv
    <3>4. History' = disk'
      BY <1>1, <3>1, NothingMore
    <3> QED
      BY <1>1, <1>3, <3>1, <3>3, <3>4 DEF Grows
  <2> QED
    BY <2>1, <2>2, <2>3
<1> QED
  BY <1>2, <1>3
-------------------------------------------------------------------------------
(* The archive *)

(* What was part of the source's history stays part of it.                   *)
LEMMA StaysOfSource ==
  ASSUME Typed, SourceInv, Typed', SourceInv', Grows, ~forked', since' = since
  PROVE  \A chain : OfSource(chain) => Part(chain, History', since')
<1> DEFINE old == History
           next == History'
<1>1. ~forked /\ ~spoiled /\ ~spoiled' /\ Prefix(old, next)
  BY DEF Grows, SourceInv
<1>2. old \in Seq(Block)
  BY <1>1, HistoryType
<1>3. (Typed /\ SourceInv /\ ~spoiled => History \in Seq(Block))'
  BY HistoryType, PTL
<1>4. next \in Seq(Block)
  BY <1>1, <1>3
<1>5. \A chain : Part(chain, old, since) => Part(chain, next, since)
  <2> HIDE DEF old, next
  <2> QED
    BY <1>1, <1>2, <1>4, PrefixTrans DEF Part
<1> QED
  BY <1>5 DEF OfSource

(* A step of the source leaves what the backup has in place; a log that is   *)
(* written between the two copies is remembered by still.                    *)
LEMMA SourceArchive ==
  ASSUME IInv, Typed', SourceInv', Grows, UNCHANGED <<bpc, copy, replica, since>>,
         still' => still,
         still' /\ bpc \in {"copied", "listed"} => wal' \in {wal, NoBlock}
  PROVE  ArchiveInv'
<1>1. Typed /\ SourceInv /\ ArchiveInv
  BY DEF IInv
<1>2. ~forked' => ~forked
  BY DEF Grows
<1>3. ~spoiled' => ~spoiled
  BY DEF Grows
<1>4. \A chain : OfSource(chain) /\ ~forked' => Part(chain, History', since')
  BY <1>1, StaysOfSource
<1>5. bpc' = "walking" => since' \subseteq DOMAIN disk'
  BY <1>1 DEF ArchiveInv, Grows
<1>6. ASSUME bpc' \in {"copied", "listed"}
      PROVE  /\ still' /\ ~spoiled' => Opens(copy'.data, wal')
             /\ ~forked' => Part(copy'.data, History', since')
  <2>1. still' /\ ~spoiled' => Opens(copy'.data, wal')
    BY <1>1, <1>3, <1>6 DEF ArchiveInv, Opens, Joins
  <2>2. ~forked' => Part(copy'.data, History', since')
    BY <1>1, <1>2, <1>4, <1>6 DEF ArchiveInv
  <2> QED
    BY <2>1, <2>2
<1>7. Opened(copy') = Opened(copy)
  OBVIOUS
<1>8. ASSUME bpc' = "archived"
      PROVE  /\ still' /\ ~spoiled' => Opens(copy'.data, copy'.wal)
             /\ ~forked' /\ Opened(copy') # Rejected => Part(Opened(copy'), History', since')
  <2>1. still' /\ ~spoiled' => Opens(copy'.data, copy'.wal)
    BY <1>1, <1>3, <1>8 DEF ArchiveInv
  <2>2. ~forked' /\ Opened(copy) # Rejected => Part(Opened(copy), History', since')
    BY <1>1, <1>2, <1>4, <1>8 DEF ArchiveInv
  <2> QED
    BY <1>7, <2>1, <2>2
<1>9. ASSUME bpc' = "restored"
      PROVE  /\ still' /\ ~spoiled' => replica' # Rejected
             /\ ~forked' /\ replica' # Rejected => Part(replica', History', since')
  BY <1>1, <1>2, <1>3, <1>4, <1>9 DEF ArchiveInv
<1> QED
  BY <1>5, <1>6, <1>8, <1>9 DEF ArchiveInv, OfSource

LEMMA SameHistory == UNCHANGED sourceVars => History' = History
BY DEF sourceVars, History, Fits, LastId

(* The data are copied while the log joins them.                             *)
LEMMA CopyDataArchive == IInv /\ CopyData => ArchiveInv'
<1> SUFFICES ASSUME IInv, CopyData PROVE ArchiveInv'
  OBVIOUS
<1>1. Typed /\ SourceInv /\ since \subseteq DOMAIN disk
  BY DEF IInv, ArchiveInv, CopyData
<1>2. UNCHANGED <<wal, forked, spoiled, since>> /\ bpc' = "copied" /\ History' = History
  BY SameHistory DEF CopyData, sourceVars
<1>3. PICK index \in {disk} \cup (IF pc = "logged" THEN {Add(disk, wal)} ELSE {}) :
        copy' = [copy EXCEPT !.data = index]
  BY DEF CopyData
<1>4. copy'.data = index
  BY <1>1, <1>3 DEF Typed
<1>5. SUFFICES ASSUME ~spoiled
               PROVE  Opens(index, wal) /\ Part(index, History, since)
  BY <1>1, <1>2, <1>4 DEF ArchiveInv, OfSource, SourceInv
<1>6. /\ Linked(disk) /\ Joins(disk, wal) /\ disk \in Seq(Block) /\ disk \in Shelf(made)
      /\ made \in 0..MaxBlocks /\ Prefix(History, History) /\ Prefix(disk, History)
  BY <1>1, <1>5, Unspoiled, HistoryType DEF SourceInv
<1>7. CASE index = disk
  BY <1>1, <1>6, <1>7 DEF Opens, Part
<1>8. CASE index = Add(disk, wal) /\ pc = "logged"
  <2>1. mem = disk /\ wal # NoBlock /\ wal \in Block /\ wal.height <= made /\ Fits(disk, wal)
    BY <1>1, <1>5, <1>8 DEF SourceInv, Typed
  <2> DEFINE a == Append(disk, wal)
  <2>2. /\ a = Add(disk, wal) /\ a \in Seq(Block) /\ Linked(a) /\ Repeats(a, wal)
        /\ DOMAIN disk \subseteq DOMAIN a
    BY <1>6, <2>1, Continued
  <2>3. History = a
    BY <2>1 DEF History
  <2>4. index = a
    BY <1>8, <2>2
  <2> HIDE DEF a
  <2>5. Opens(a, wal)
    BY <2>2 DEF Opens, Joins
  <2>6. Part(a, History, since)
    BY <1>1, <1>6, <2>2, <2>3 DEF Part
  <2> QED
    BY <2>4, <2>5, <2>6
<1> QED
  BY <1>3, <1>7, <1>8

(* The log that is read may be a later one than at the time of the data: it  *)
(* is refused, or makes a later part of the source's history.                *)
LEMMA CopyWalArchive == IInv /\ CopyWal => ArchiveInv'
<1> SUFFICES ASSUME IInv, CopyWal PROVE ArchiveInv'
  OBVIOUS
<1>1. Typed /\ SourceInv /\ ArchiveInv /\ bpc = "listed" /\ made \in 0..MaxBlocks
  BY DEF IInv, CopyWal, Typed
<1>2. UNCHANGED <<wal, forked, spoiled, since, still>> /\ bpc' = "archived" /\ History' = History
  BY SameHistory DEF CopyWal, sourceVars
<1>3. /\ copy' \in [data : Shelf(made), wal : Block \cup {NoBlock}]
      /\ copy'.data = copy.data /\ copy'.wal \in {wal, NoBlock}
  BY <1>1 DEF CopyWal, Typed
<1>4. still' /\ ~spoiled' => Opens(copy'.data, copy'.wal)
  BY <1>1, <1>2, <1>3 DEF ArchiveInv, Opens, Joins
<1>5. ASSUME ~forked, Opened(copy') # Rejected
      PROVE  Part(Opened(copy'), History, since)
  <2>1. Part(copy.data, History, since) /\ ~spoiled
    BY <1>1, <1>5 DEF ArchiveInv, OfSource, SourceInv
  <2>2. CASE Opened(copy') = copy.data
    BY <2>1, <2>2
  <2>3. CASE /\ copy'.wal # NoBlock /\ Fits(copy.data, copy'.wal)
             /\ Opened(copy') = Append(copy.data, copy'.wal)
    <3>1. copy'.wal = wal /\ wal \in Block
      BY <1>1, <1>3, <2>3 DEF Typed
    <3>2. copy.data \in Seq(Block) /\ Prefix(copy.data, History) /\ since \subseteq DOMAIN copy.data
      BY <2>1 DEF Part
    <3>3. Prefix(Append(copy.data, wal), History)
      BY <1>1, <2>1, <2>3, <3>1, <3>2, ArchiveOfSource
    <3>4. /\ Append(copy.data, wal) \in Seq(Block)
          /\ DOMAIN copy.data \subseteq DOMAIN Append(copy.data, wal)
      BY <3>1, <3>2, PrefixAppend
    <3> QED
      BY <2>3, <3>1, <3>2, <3>3, <3>4 DEF Part
  <2>4. \/ Opened(copy') = copy.data
        \/ /\ copy'.wal # NoBlock /\ Fits(copy.data, copy'.wal)
           /\ Opened(copy') = Append(copy.data, copy'.wal)
    BY <1>1, <1>3, <1>5, OpenedIs
  <2> QED
    BY <2>2, <2>3, <2>4
<1> QED
  BY <1>2, <1>4, <1>5 DEF ArchiveInv, OfSource

LEMMA RestoreArchive == IInv /\ Restore => ArchiveInv'
<1> SUFFICES ASSUME IInv, Restore PROVE ArchiveInv'
  OBVIOUS
<1>1. /\ ArchiveInv /\ bpc = "archived" /\ made \in 0..MaxBlocks
      /\ copy \in [data : Shelf(made), wal : Block \cup {NoBlock}]
  BY DEF IInv, Restore, Typed
<1>2. /\ UNCHANGED <<forked, spoiled, since, still>> /\ bpc' = "restored" /\ History' = History
      /\ replica' = Opened(copy)
  BY SameHistory DEF Restore, sourceVars
<1>3. still' /\ ~spoiled' => replica' # Rejected
  BY <1>1, <1>2, OpenedIs DEF ArchiveInv
<1> QED
  BY <1>1, <1>2, <1>3 DEF ArchiveInv, OfSource

LEMMA ListWalArchive == IInv /\ ListWal => ArchiveInv'
<1> SUFFICES ASSUME IInv, ListWal PROVE ArchiveInv'
  OBVIOUS
<1>1. /\ bpc = "copied" /\ bpc' = "listed" /\ UNCHANGED <<copy, since, still, wal, forked, spoiled>>
      /\ History' = History
  BY SameHistory DEF ListWal, sourceVars
<1> QED
  BY <1>1 DEF IInv, ArchiveInv, OfSource

(* The inductive invariant holds. *)
THEOREM BackupInvariant == Spec => []IInv
<1>1. Init => IInv
  <2> SUFFICES ASSUME Init PROVE SourceInv /\ ArchiveInv
    BY InitTyped DEF IInv
  <2>1. Linked(<<>>)
    BY DEF Linked
  <2> QED
    BY <2>1 DEF Init, SourceInv, ArchiveInv, Joins
<1>2. IInv /\ [Next]_vars => IInv'
  <2> SUFFICES ASSUME IInv, [Next]_vars PROVE SourceInv' /\ ArchiveInv'
    BY NextTyped, NextFlags DEF IInv
  <2>1. Typed /\ SourceInv /\ Typed'
    BY NextTyped DEF IInv
  <2>2. CASE WriteLog
    <3>1. SourceInv' /\ Grows
      BY <2>1, <2>2, WriteLogSource
    <3>2. /\ UNCHANGED <<bpc, copy, replica, since>>
          /\ still' => still
          /\ still' => bpc \notin {"copied", "listed"}
      BY <2>2 DEF WriteLog
    <3> QED
      BY <2>1, <3>1, <3>2, SourceArchive
  <2>3. CASE \/ AppendBlock \/ AppendFails \/ ClearLog \/ Crash
             \/ Reopen \/ Replay \/ ReopenFails
    <3>1. SourceInv' /\ Grows
      BY <2>1, <2>3, AppendBlockSource, AppendFailsSource, ClearLogSource, CrashSource,
         ReopenSource, ReplaySource, ReopenFailsSource
    <3>2. UNCHANGED <<bpc, copy, replica, since, still>> /\ wal' \in {wal, NoBlock}
      BY <2>1, <2>3, ClearWALTyped
         DEF AppendBlock, AppendFails, ClearLog, Crash, Reopen, Replay, ReopenFails, backupVars
    <3> QED
      BY <2>1, <3>1, <3>2, SourceArchive
  <2>4. ASSUME UNCHANGED sourceVars PROVE SourceInv' /\ Grows
    BY <2>1, <2>4, SourceAtRest DEF sourceVars
  <2>5. CASE StartBackup
    <3>1. SourceInv'
      BY <2>4, <2>5 DEF StartBackup
    <3>2. bpc' = "walking" /\ since' = DOMAIN disk /\ disk' = disk
      BY <2>5 DEF StartBackup, sourceVars
    <3> QED
      BY <3>1, <3>2 DEF ArchiveInv
  <2>6. CASE CopyData \/ ListWal \/ CopyWal \/ Restore
    BY <2>4, <2>6, CopyDataArchive, ListWalArchive, CopyWalArchive, RestoreArchive
       DEF CopyData, ListWal, CopyWal, Restore
  <2>7. CASE BackupFails \/ RestoreRefused
    <3>1. SourceInv' /\ bpc' = "failed"
      BY <2>4, <2>7 DEF BackupFails, RestoreRefused
    <3> QED
      BY <3>1 DEF ArchiveInv
  <2>8. CASE UNCHANGED vars
    <3>1. UNCHANGED sourceVars /\ UNCHANGED <<bpc, copy, replica, since, still, wal>>
      BY <2>8 DEF vars, sourceVars, backupVars
    <3>2. SourceInv' /\ Grows
      BY <2>4, <3>1
    <3> QED
      BY <2>1, <3>1, <3>2, SourceArchive
  <2> QED
    BY <2>2, <2>3, <2>5, <2>6, <2>7, <2>8 DEF Next
<1> QED
  BY <1>1, <1>2, PTL DEF Spec

(* Every variable of the source, the backup and the replica keeps its type,  *)
(* whatever fails: no segment, archive or memory ever holds a block above    *)
(* the number of blocks logged.                                              *)
THEOREM BackupTypeCorrect == Spec => []TypeOK
<1>1. IInv => TypeOK
  <2> SUFFICES ASSUME IInv PROVE TypeOK
    OBVIOUS
  <2>1. Typed /\ Flags /\ made \in 0..MaxBlocks /\ 1..made \subseteq 1..MaxBlocks
    BY MaxBlocksAssumption DEF IInv, Typed
  <2>2. \A d \in Shelf(made) : IsIndex(d)
    BY <2>1, ShelfIs DEF IsIndex
  <2>3. IsIndex(disk) /\ IsIndex(copy.data) /\ copy.wal \in Block \cup {NoBlock}
    BY <2>1, <2>2 DEF Typed
  <2>4. {torn, listed, still, forked, spoiled} \subseteq BOOLEAN
    BY <2>1 DEF Flags
  <2> QED
    BY <2>1, <2>3, <2>4 DEF Typed, TypeOK
<1> QED
  BY <1>1, BackupInvariant, PTL

(* A replica that opens is a prefix of the source's chain and has every      *)
(* block that was there when its backup began, as long as no append of the   *)
(* source has failed.                                                        *)
THEOREM ReplicaIsOfSource == Spec => []ReplicaOfSource
<1>1. IInv => ReplicaOfSource
  <2> SUFFICES ASSUME IInv, Restored, ~forked
               PROVE  IsPrefix(replica, History) /\ since \subseteq DOMAIN replica
    BY DEF ReplicaOfSource
  <2>1. replica \in Seq(Block) /\ Prefix(replica, History) /\ since \subseteq DOMAIN replica
    BY DEF IInv, ArchiveInv, Restored, OfSource, Part
  <2>2. History \in Seq(Block)
    BY HistoryType DEF IInv, SourceInv
  <2>3. SubSeq(replica, 1, Len(replica)) = SubSeq(History, 1, Len(replica))
    BY <2>1, <2>2 DEF Prefix
  <2> QED
    BY <2>1, <2>3 DEF IsPrefix, Prefix
<1> QED
  BY <1>1, BackupInvariant, PTL

(* A backup during which no log was written between the copies of data and   *)
(* of the log restores to a database that opens, as long as no failed append *)
(* has left its record or a part of it in the source's segments; appends     *)
(* that failed and left nothing, crashes and failed openings do no harm.     *)
THEOREM RestoresOpen == Spec => []RestoreOpens
<1>1. IInv => RestoreOpens
  BY DEF IInv, ArchiveInv, RestoreOpens
<1> QED
  BY <1>1, BackupInvariant, PTL
===============================================================================
