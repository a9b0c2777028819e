--------------------------- MODULE CompactionProofs ---------------------------
(*****************************************************************************)
(* What Compaction keeps for every number of processes, compactions, blocks  *)
(* and faults: LOCK excludes; data holds a linked chain as long as no two    *)
(* compactions are past their Close at a time and no swap finds LOCK or a    *)
(* log; and every block served is in place while compactions are left alone. *)
(*****************************************************************************)
EXTENDS Compaction, NaturalsInduction, WellFoundedInduction, TLAPS

Phase == {"off", "locked", "loaded", "open", "logged", "copied", "wiped", "rebuilt",
          "checked", "moved", "swapped"}

(* The indexes of blocks that lie at their heights, none above n *)
Shelf(n) == {d \in Index : DOMAIN d \subseteq 1..n /\ \A h \in DOMAIN d : d[h].height = h}

(* Whatever was copied, mixed and moved, no directory and no process has a   *)
(* block higher than the number of blocks ever built.                        *)
Typed ==
  /\ data \in Shelf(made) \cup {NoDir}
  /\ old \in Shelf(made) \cup {NoDir}
  /\ tmp \in Shelf(made) \cup {NoDir}
  /\ wal \in Block \cup {NoBlock} /\ wal.height <= made
  /\ lock \in BOOLEAN
  /\ pc \in [Process -> Phase]
  /\ mem \in [Process -> Seq(Block)]
  /\ \A p \in Process : mem[p] \in Shelf(made)
  /\ home \in [Process -> {"data", "old", "gone", "closed"}]
  /\ made \in 0..MaxBlocks /\ faults \in 0..MaxFaults /\ served \subseteq Block
  /\ calm \in BOOLEAN /\ single \in BOOLEAN /\ clear \in BOOLEAN

(* A segment file that is open is in a directory that is there.              *)
Attached ==
  \A p \in Process : /\ home[p] = "data" => data # NoDir
                     /\ home[p] = "old" => old # NoDir

(* A process between TakeLock and Close finds LOCK in place, so nobody else  *)
(* gets in, and the log is its own; Unlock waits until nobody is inside.     *)
Guarded ==
  /\ \A p \in Process : Inside(p) => lock
  /\ Exclusive
  /\ \A p \in Process : pc[p] = "logged" =>
       p \notin Compactor /\ wal \in Block /\ Continues(wal, mem[p])

Base == Typed /\ Attached /\ Guarded

(* The block of the log is the top of the chain, or may become it: nothing   *)
(* lies above it and it links to what lies below it.                         *)
Fits(b, d) ==
  b # NoBlock =>
    /\ \A h \in DOMAIN d : h <= b.height
    /\ IF b.height = 1 THEN b.prev = 0
                       ELSE b.height - 1 \in DOMAIN d /\ b.prev = d[b.height - 1].id

Working(p) == pc[p] \in {"loaded", "open", "logged"}

(* An open process works on data and holds its chain, except for one block   *)
(* that a failed append may have left on top.                                *)
InStep(p) ==
  /\ home[p] = "data"
  /\ pc[p] = "loaded" \/ p \in Compactor => mem[p] = data
  /\ \A i \in DOMAIN mem[p] : i \in DOMAIN data /\ data[i] = mem[p][i]
  /\ \A h \in DOMAIN data : h <= Len(mem[p]) + 1

(* The directory is worked on by one process at a time *)
Sound == calm \/ (single /\ clear)

Steady ==
  Sound =>
    /\ Linked(Chain(data)) /\ Linked(Chain(old))
    /\ data # NoDir => Fits(wal, data)
    /\ \A p \in Process : Inside(p) => data # NoDir
    /\ \A p \in Process : Working(p) => InStep(p)

(* The scratch directory of the one compaction at work is what was checked,  *)
(* and between its renames there is no log.                                  *)
Unmixed ==
  single /\ clear =>
    /\ data = NoDir => wal = NoBlock
    /\ \A c, d \in Compactor : Unlocked(c) /\ Unlocked(d) => c = d
    /\ \A c \in Compactor : pc[c] \in {"checked", "moved"} => Linked(Chain(tmp))

Moved == \E c \in Compactor : pc[c] = "moved"
Here == IF Moved THEN old ELSE data

(* A compaction past its Close has a copy of what is in place *)
Copying(c) ==
  /\ mem[c] = IF pc[c] = "moved" THEN old ELSE data
  /\ pc[c] = "wiped" => tmp = NoDir
  /\ pc[c] \in {"rebuilt", "checked", "moved"} => tmp = mem[c]
  /\ pc[c] = "moved" => data = NoDir /\ Fits(wal, old)

(* A compaction left alone is the only process at work; what was served is   *)
(* in place, and no log holds another block of a height that was served.     *)
Undisturbed ==
  calm =>
    /\ \A c \in Compactor : Unlocked(c) =>
         /\ Copying(c)
         /\ \A p \in Process : p = c \/ ~Inside(p)
         /\ \A d \in Compactor : d = c \/ ~Unlocked(d)
    /\ Moved \/ data # NoDir \/ wal = NoBlock
    /\ Holds(Here, served)
    /\ \A b \in served : b.height = wal.height => b = wal
    /\ \A p \in Process : pc[p] \in {"open", "logged"} =>
         \A b \in served : b.height <= Len(mem[p])

IInv == Base /\ Steady /\ Unmixed /\ Undisturbed
-------------------------------------------------------------------------------
(* Indexes and chains *)

(* A function from heights to blocks is an index, and an index is one.       *)
LEMMA IndexesAre ==
  /\ \A heights \in SUBSET (1..MaxBlocks) : \A f \in [heights -> Block] : f \in Index
  /\ \A d \in Index : DOMAIN d \subseteq 1..MaxBlocks /\ d \in [DOMAIN d -> Block]
<1>1. ASSUME NEW heights \in SUBSET (1..MaxBlocks), NEW f \in [heights -> Block]
      PROVE  f \in Index
  BY DEF Index
<1>2. ASSUME NEW d \in Index
      PROVE  DOMAIN d \subseteq 1..MaxBlocks /\ d \in [DOMAIN d -> Block]
  <2>1. PICK heights \in SUBSET (1..MaxBlocks) : d \in [heights -> Block]
    BY DEF Index
  <2> QED
    BY <2>1
<1> QED
  BY <1>1, <1>2

(* What is on a shelf *)
LEMMA ShelfIs ==
  ASSUME NEW n \in 0..MaxBlocks, NEW d \in Shelf(n)
  PROVE  /\ DOMAIN d \subseteq 1..n /\ d = [h \in DOMAIN d |-> d[h]]
         /\ \A h \in DOMAIN d : d[h] \in Block /\ d[h].height = h /\ h \in Nat /\ h >= 1
         /\ d # NoDir /\ Chain(d) = d
<1>1. d \in Index /\ DOMAIN d \subseteq 1..n /\ \A h \in DOMAIN d : d[h].height = h
  BY DEF Shelf
<1>2. d \in [DOMAIN d -> Block]
  BY <1>1, IndexesAre
<1>3. d # NoDir /\ Chain(d) = d
  BY <1>1, NoDirIsNoIndex DEF Chain
<1>4. \A h \in 1..n : h \in Nat /\ h >= 1
  BY BoundsAssumption
<1> QED
  BY <1>1, <1>2, <1>3, <1>4

(* How something gets on a shelf *)
LEMMA OnShelf ==
  ASSUME NEW n \in 0..MaxBlocks, NEW H \in SUBSET (1..n), NEW f \in [H -> Block],
         \A h \in H : f[h].height = h
  PROVE  f \in Shelf(n)
<1>1. 1..n \subseteq 1..MaxBlocks
  BY BoundsAssumption
<1>2. f \in Index
  BY <1>1, IndexesAre
<1> QED
  BY <1>2 DEF Shelf

(* A higher shelf holds more. *)
LEMMA ShelfGrows ==
  ASSUME NEW n \in 0..MaxBlocks, NEW m \in 0..MaxBlocks, n <= m, NEW d \in Shelf(n)
  PROVE  d \in Shelf(m)
<1>1. 1..n \subseteq 1..m
  BY BoundsAssumption
<1> QED
  BY <1>1 DEF Shelf

(* Appending a block: the index keeps its other heights.                     *)
LEMMA AddIs ==
  ASSUME NEW n \in 0..MaxBlocks, NEW d \in Shelf(n), NEW b \in Block, b.height <= n
  PROVE  /\ Add(d, b) \in Shelf(n)
         /\ DOMAIN Add(d, b) = DOMAIN d \cup {b.height}
         /\ Add(d, b)[b.height] = b
         /\ \A h \in DOMAIN d : h # b.height => Add(d, b)[h] = d[h]
<1>1. b.height \in 1..n
  BY BoundsAssumption DEF Block
<1> DEFINE H == DOMAIN d \cup {b.height}
<1>2. /\ DOMAIN Add(d, b) = H
      /\ Add(d, b)[b.height] = b
      /\ \A h \in DOMAIN d : h # b.height => Add(d, b)[h] = d[h]
  BY DEF Add
<1>3. H \in SUBSET (1..n) /\ \A h \in DOMAIN d : d[h] \in Block /\ d[h].height = h
  BY <1>1, ShelfIs
<1>4. Add(d, b) \in [H -> Block] /\ \A h \in H : Add(d, b)[h].height = h
  BY <1>3 DEF Add
<1>5. Add(d, b) \in Shelf(n)
  BY <1>3, <1>4, OnShelf
<1> QED
  BY <1>2, <1>5

(* A block that fits leaves a linked index linked, and fits it again.        *)
LEMMA AddLinked ==
  ASSUME NEW n \in 0..MaxBlocks, NEW d \in Shelf(n), NEW b \in Block, b.height <= n,
         Linked(d), Fits(b, d)
  PROVE  Linked(Add(d, b)) /\ Fits(b, Add(d, b))
<1> DEFINE a == Add(d, b)
<1>1. /\ DOMAIN a = DOMAIN d \cup {b.height}
      /\ a[b.height] = b
      /\ \A h \in DOMAIN d : h # b.height => a[h] = d[h]
  <2>1. /\ DOMAIN Add(d, b) = DOMAIN d \cup {b.height}
        /\ Add(d, b)[b.height] = b
        /\ \A h \in DOMAIN d : h # b.height => Add(d, b)[h] = d[h]
    BY DEF Add
  <2> QED
    BY <2>1
<1>2. b.height \in Nat /\ b.height >= 1 /\ b # NoBlock
  BY BoundsAssumption DEF Block, NoBlock
<1>3. \A h \in DOMAIN d : h \in Nat /\ h >= 1
  BY ShelfIs
<1>4. /\ \A h \in DOMAIN d : h <= b.height
      /\ IF b.height = 1 THEN b.prev = 0
                         ELSE b.height - 1 \in DOMAIN d /\ b.prev = d[b.height - 1].id
  BY <1>2 DEF Fits
<1> HIDE DEF a
<1>5. b.height # 1 => b.height - 1 \in DOMAIN a /\ b.prev = a[b.height - 1].id
  <2>1. b.height - 1 # b.height
    BY <1>2
  <2> QED
    BY <1>1, <1>4, <2>1
<1>6. Fits(b, a)
  BY <1>1, <1>2, <1>4, <1>5 DEF Fits
<1>7. ASSUME NEW h \in DOMAIN a
      PROVE  IF h = 1 THEN a[h].prev = 0
                      ELSE h - 1 \in DOMAIN a /\ a[h].prev = a[h - 1].id
  <2>1. CASE h = b.height
    BY <1>1, <1>4, <1>5, <2>1
  <2>2. CASE h # b.height
    <3>1. h \in DOMAIN d /\ a[h] = d[h] /\ h < b.height
      BY <1>1, <1>2, <1>3, <1>4, <2>2
    <3>2. IF h = 1 THEN d[h].prev = 0
                   ELSE h - 1 \in DOMAIN d /\ d[h].prev = d[h - 1].id
      BY <3>1 DEF Linked
    <3>3. h - 1 # b.height
      BY <1>2, <1>3, <3>1
    <3> QED
      BY <1>1, <3>1, <3>2, <3>3
  <2> QED
    BY <2>1, <2>2
<1> QED
  BY <1>6, <1>7 DEF Linked, a

(* Every non-empty bounded set of natural numbers has a greatest element. *)
LEMMA Greatest ==
  ASSUME NEW T, T \subseteq Nat, T # {}, NEW m \in Nat, \A x \in T : x <= m
  PROVE  \E x \in T : \A y \in T : y <= x
<1> DEFINE Less == OpToRel(<, Nat)
           U == {m - x : x \in T}
<1>1. IsWellFoundedOn(Less, Nat)
  BY NatLessThanWellFounded
<1>2. \A x, y \in Nat : y < x => <<y, x>> \in Less
  BY DEF OpToRel
<1>3. \A x \in T : x \in Nat /\ x <= m /\ m - x \in Nat
  OBVIOUS
<1>4. U \subseteq Nat /\ U # {}
  BY <1>3
<1> HIDE DEF Less
<1>5. PICK u \in U : \A y \in U : ~(<<y, u>> \in Less)
  BY <1>1, <1>4, WFMin
<1>6. PICK x \in T : u = m - x
  OBVIOUS
<1>7. ASSUME NEW y \in T PROVE y <= x
  <2>1. ~(m - y < m - x)
    BY <1>2, <1>3, <1>5, <1>6
  <2> QED
    BY <1>3, <2>1
<1> QED
  BY <1>7

(* A linked index has no gaps: it is the chain that Open reads.              *)
LEMMA LinkedIsChain ==
  ASSUME NEW n \in 0..MaxBlocks, NEW d \in Shelf(n), Linked(d)
  PROVE  d \in Seq(Block) /\ Len(d) \in Nat /\ Len(d) <= n /\ DOMAIN d = 1..Len(d)
<1> DEFINE H == DOMAIN d
<1>1. H \subseteq 1..n /\ n \in Nat
  BY ShelfIs, BoundsAssumption
<1>2. \A h \in H : h = 1 \/ h - 1 \in H
  BY DEF Linked
<1>3. d = [h \in H |-> d[h]] /\ \A h \in H : d[h] \in Block
  BY ShelfIs
<1> HIDE DEF H
<1>4. \E g \in 0..n : H = 1..g
  <2>1. CASE H = {}
    <3>1. H = 1..0 /\ 0 \in 0..n
      BY <1>1, <2>1
    <3> QED
      BY <3>1
  <2>2. CASE H # {}
    <3>1. H \subseteq Nat /\ \A x \in H : x <= n
      BY <1>1
    <3>2. PICK g \in H : \A y \in H : y <= g
      BY <1>1, <2>2, <3>1, Greatest
    <3> DEFINE T == {x \in 1..g : x \notin H}
    <3>3. T = {}
      <4> SUFFICES ASSUME T # {} PROVE FALSE
        OBVIOUS
      <4>1. g \in Nat /\ T \subseteq Nat /\ \A x \in T : x <= g
        BY <3>1
      <4> HIDE DEF T
      <4>2. PICK m \in T : \A y \in T : y <= m
        BY <4>1, Greatest
      <4>3. m \in 1..g /\ m \notin H
        BY <4>2 DEF T
      <4>4. m + 1 \in 1..g
        BY <4>1, <4>3, <3>2
      <4>5. m + 1 \in H
        BY <4>1, <4>2, <4>4 DEF T
      <4>6. m + 1 # 1 /\ (m + 1) - 1 = m
        BY <4>1, <4>3
      <4> QED
        BY <1>2, <4>3, <4>5, <4>6
    <3>4. \A x \in H : x \in 1..g
      BY <1>1, <3>1, <3>2
    <3>5. \A x \in 1..g : x \in H
      BY <3>3
    <3>6. g \in 0..n
      BY <1>1, <3>2
    <3> QED
      BY <3>4, <3>5, <3>6
  <2> QED
    BY <2>1, <2>2
<1>5. PICK g \in 0..n : H = 1..g
  BY <1>4
<1>6. g \in Nat /\ g <= n
  BY <1>1
<1>7. d \in [1..g -> Block]
  BY <1>3, <1>5
<1>8. d \in Seq(Block) /\ DOMAIN d = 1..g
  BY <1>6, <1>7
<1>9. Len(d) = g
  BY <1>6, <1>8
<1> QED
  BY <1>6, <1>8, <1>9

(* The last identity of a chain is in range. *)
LEMMA LastIdIs ==
  ASSUME NEW s \in Seq(Block)
  PROVE  /\ Len(s) \in Nat /\ DOMAIN s = 1..Len(s)
         /\ LastId(s) \in 0..MaxBlocks
         /\ Len(s) = 0 => LastId(s) = 0
         /\ Len(s) # 0 => Len(s) \in DOMAIN s /\ LastId(s) = s[Len(s)].id
<1>1. Len(s) \in Nat /\ DOMAIN s = 1..Len(s)
  OBVIOUS
<1>2. CASE Len(s) = 0
  <2>1. s = <<>>
    BY <1>2
  <2> QED
    BY <1>1, <1>2, <2>1, BoundsAssumption DEF LastId
<1>3. CASE Len(s) # 0
  <2>1. s # <<>> /\ Len(s) \in 1..Len(s)
    BY <1>1, <1>3
  <2>2. s[Len(s)] \in Block
    BY <2>1
  <2> QED
    BY <1>1, <1>3, <2>1, <2>2, BoundsAssumption DEF LastId, Block
<1> QED
  BY <1>2, <1>3

(* Appending the block that continues a chain is the same in memory and on   *)
(* disk.                                                                     *)
LEMMA AppendIsAdd ==
  ASSUME NEW n \in 0..MaxBlocks, NEW s \in Seq(Block), s \in Shelf(n),
         NEW b \in Block, b.height <= n, b.height = Len(s) + 1
  PROVE  /\ Append(s, b) \in Seq(Block) /\ Append(s, b) \in Shelf(n)
         /\ Append(s, b) = Add(s, b)
         /\ Len(Append(s, b)) = Len(s) + 1
<1>1. Len(s) \in Nat /\ DOMAIN s = 1..Len(s)
  OBVIOUS
<1>2. Append(s, b) \in Seq(Block) /\ Len(Append(s, b)) = Len(s) + 1
  BY <1>1
<1>3. 1..(Len(s) + 1) = DOMAIN s \cup {b.height}
  BY <1>1
<1>4. Append(s, b) = [h \in 1..(Len(s) + 1) |-> IF h = Len(s) + 1 THEN b ELSE s[h]]
  <2> DEFINE t == Append(s, b)
             m == Len(s) + 1
  <2>1. t \in Seq(Block) /\ Len(t) = m /\ m \in Nat
    BY <1>1, <1>2
  <2>2. t = [h \in 1..m |-> t[h]]
    <3> HIDE DEF t, m
    <3> QED
      BY <2>1
  <2>3. \A h \in 1..m : t[h] = IF h = m THEN b ELSE s[h]
    BY <1>1
  <2> HIDE DEF t, m
  <2>4. t = [h \in 1..m |-> IF h = m THEN b ELSE s[h]]
    BY <2>2, <2>3
  <2> QED
    BY <2>4 DEF t, m
<1>5. Append(s, b) = Add(s, b)
  BY <1>3, <1>4 DEF Add
<1>6. Add(s, b) \in Shelf(n)
  BY AddIs
<1> QED
  BY <1>2, <1>5, <1>6

(* Blocks written over what a scratch directory holds stay on the shelf.     *)
LEMMA OverlaidIs ==
  ASSUME NEW n \in 0..MaxBlocks, NEW d \in Shelf(n) \cup {NoDir}, NEW s \in Shelf(n)
  PROVE  /\ Overlaid(d, s) \in Shelf(n)
         /\ d = NoDir => Overlaid(d, s) = s
<1> DEFINE H == DOMAIN Chain(d) \cup DOMAIN s
<1>1. DOMAIN s \subseteq 1..n /\ \A h \in DOMAIN s : s[h] \in Block /\ s[h].height = h
  BY ShelfIs
<1>2. CASE d # NoDir
  <2>1. Chain(d) = d /\ DOMAIN d \subseteq 1..n
        /\ \A h \in DOMAIN d : d[h] \in Block /\ d[h].height = h
    BY <1>2, ShelfIs
  <2>2. /\ H \in SUBSET (1..n) /\ Overlaid(d, s) \in [H -> Block]
        /\ \A h \in H : Overlaid(d, s)[h].height = h
    BY <1>1, <2>1 DEF Overlaid
  <2> QED
    BY <1>2, <2>2, OnShelf
<1>3. CASE d = NoDir
  <2>1. DOMAIN Chain(d) = {}
    BY <1>3 DEF Chain
  <2>2. Overlaid(d, s) = [h \in DOMAIN s |-> s[h]]
    BY <2>1 DEF Overlaid
  <2>3. s = [h \in DOMAIN s |-> s[h]]
    BY ShelfIs
  <2> QED
    BY <2>2, <2>3
<1> QED
  BY <1>2, <1>3

(* The beginning of a chain stays on its shelf. *)
LEMMA PartOnShelf ==
  ASSUME NEW n \in 0..MaxBlocks, NEW s \in Seq(Block), s \in Shelf(n), NEW m \in 0..Len(s)
  PROVE  SubSeq(s, 1, m) \in Shelf(n)
<1> DEFINE t == SubSeq(s, 1, m)
<1>1. Len(s) \in Nat /\ DOMAIN s = 1..Len(s) /\ m \in Nat /\ m <= Len(s)
  OBVIOUS
<1>2. t \in Seq(Block) /\ Len(t) = m /\ \A i \in 1..m : t[i] = s[i]
  BY <1>1
<1>3. DOMAIN s \subseteq 1..n /\ \A h \in DOMAIN s : s[h] \in Block /\ s[h].height = h
  BY ShelfIs
<1> HIDE DEF t
<1>4. 1..m \subseteq DOMAIN s
  BY <1>1
<1>5. 1..m \in SUBSET (1..n) /\ t \in [1..m -> Block] /\ \A h \in 1..m : t[h].height = h
  BY <1>2, <1>3, <1>4
<1>6. t \in Shelf(n)
  BY <1>5, OnShelf
<1> QED
  BY <1>6 DEF t

(* The empty index *)
LEMMA EmptyIs ==
  ASSUME NEW n \in 0..MaxBlocks
  PROVE  /\ <<>> \in Shelf(n) /\ <<>> \in Seq(Block) /\ Len(<<>>) = 0
         /\ Linked(<<>>) /\ Chain(NoDir) = <<>> /\ NoDir \notin Shelf(n)
<1>1. <<>> \in [{} -> Block] /\ DOMAIN <<>> = {}
  OBVIOUS
<1>2. <<>> \in Shelf(n)
  BY <1>1, OnShelf
<1>3. Linked(<<>>)
  BY <1>1 DEF Linked
<1>4. NoDir \notin Shelf(n)
  BY NoDirIsNoIndex DEF Shelf
<1> QED
  BY <1>2, <1>3, <1>4 DEF Chain

-------------------------------------------------------------------------------
(* Types, files and LOCK *)

(* Facts about the directories that every step uses *)
LEMMA Known ==
  ASSUME Typed
  PROVE  /\ made \in 0..MaxBlocks
         /\ Chain(data) \in Shelf(made) /\ Chain(tmp) \in Shelf(made)
         /\ <<>> \in Shelf(made) /\ <<>> \in Seq(Block)
         /\ NoDir \notin Shelf(made)
         /\ data # NoDir => Chain(data) = data
<1>1. made \in 0..MaxBlocks
  BY DEF Typed
<1>2. <<>> \in Shelf(made) /\ <<>> \in Seq(Block) /\ NoDir \notin Shelf(made)
  BY <1>1, EmptyIs
<1>3. Chain(data) \in Shelf(made) /\ Chain(tmp) \in Shelf(made)
  BY <1>2 DEF Typed, Chain
<1> QED
  BY <1>1, <1>2, <1>3 DEF Chain

(* The empty database, with no process started *)
LEMMA InitBase == Init => Base
<1> SUFFICES ASSUME Init PROVE Base
  OBVIOUS
<1>1. 0 \in 0..MaxBlocks /\ 0 \in 0..MaxFaults
  BY BoundsAssumption
<1>2. <<>> \in Shelf(0) /\ <<>> \in Seq(Block)
  BY <1>1, EmptyIs
<1>3. Typed
  <2>1. NoBlock.height = 0
    BY DEF NoBlock
  <2>2. \A p \in Process : mem[p] = <<>>
    BY DEF Init
  <2>3. mem \in [Process -> Seq(Block)] /\ \A p \in Process : mem[p] \in Shelf(made)
    BY <1>2, <2>2 DEF Init
  <2>4. pc \in [Process -> Phase] /\ home \in [Process -> {"data", "old", "gone", "closed"}]
    BY DEF Init, Phase
  <2>5. lock \in BOOLEAN /\ calm \in BOOLEAN /\ single \in BOOLEAN /\ clear \in BOOLEAN
    BY DEF Init
  <2>6. /\ data = NoDir /\ old = NoDir /\ tmp = NoDir /\ served \subseteq Block
        /\ wal = NoBlock /\ made = 0 /\ faults = 0
    BY DEF Init
  <2>7. wal \in Block \cup {NoBlock} /\ wal.height <= made
    BY <2>1, <2>6
  <2> QED
    BY <1>1, <2>3, <2>4, <2>5, <2>6, <2>7 DEF Typed
<1>4. Attached
  BY DEF Init, Attached
<1>5. Guarded
  BY DEF Init, Guarded, Inside, Exclusive
<1> QED
  BY <1>3, <1>4, <1>5 DEF Base

(* A record goes to a directory that is there and stays within its bounds.   *)
LEMMA WritesBase ==
  ASSUME Typed, Attached, NEW p \in Process, NEW place \in Places(p),
         wal \in Block, Writes(wal, place)
  PROVE  /\ data' \in Shelf(made) \cup {NoDir} /\ old' \in Shelf(made) \cup {NoDir}
         /\ data' = NoDir <=> data = NoDir
         /\ old' = NoDir <=> old = NoDir
         /\ place \in {"data", "old", "gone"}
         /\ place = "data" => data # NoDir
         /\ place = "old" => old # NoDir
<1>1. /\ place \in {"data", "old", "gone"}
      /\ place = "data" => data # NoDir
      /\ place = "old" => old # NoDir
  BY DEF Places, Typed, Attached
<1>2. made \in 0..MaxBlocks /\ wal.height <= made /\ NoDir \notin Shelf(made)
  BY Known DEF Typed
<1>3. ASSUME NEW d \in Shelf(made) PROVE Add(d, wal) \in Shelf(made)
  BY <1>2, AddIs
<1>4. /\ data \in Shelf(made) \cup {NoDir} /\ old \in Shelf(made) \cup {NoDir}
      /\ data' = IF place = "data" THEN Add(data, wal) ELSE data
      /\ old' = IF place = "old" THEN Add(old, wal) ELSE old
  BY DEF Typed, Writes
<1> QED
  BY <1>1, <1>2, <1>3, <1>4

(* The same for a record that may be left or not *)
LEMMA LeftBase ==
  ASSUME Typed, Attached, NEW p \in Process, wal \in Block, Left(p, wal)
  PROVE  /\ data' \in Shelf(made) \cup {NoDir} /\ old' \in Shelf(made) \cup {NoDir}
         /\ data' = NoDir <=> data = NoDir
         /\ old' = NoDir <=> old = NoDir
<1>1. CASE UNCHANGED <<data, old>>
  BY <1>1 DEF Typed
<1>2. CASE \E place \in Places(p) : Writes(wal, place)
  BY <1>2, WritesBase
<1> QED
  BY <1>1, <1>2 DEF Left

(* What a fault and the removal of the log do to their variables *)
LEMMA CountsAndLogs ==
  ASSUME Typed
  PROVE  /\ Fault => faults' \in 0..MaxFaults
         /\ ClearWAL => /\ faults' \in 0..MaxFaults
                        /\ wal' \in Block \cup {NoBlock} /\ wal'.height <= made
                        /\ wal' = NoBlock \/ wal' = wal
<1>1. Fault => faults' \in 0..MaxFaults
  BY BoundsAssumption DEF Fault, Typed
<1>2. NoBlock.height <= made
  BY BoundsAssumption DEF NoBlock, Typed
<1> QED
  BY <1>1, <1>2 DEF ClearWAL, Typed

(* Commit's block continues the chain of its process, within the bounds.     *)
LEMMA NewBlockIs ==
  ASSUME Typed, made < MaxBlocks, NEW p \in Process
  PROVE  /\ NewBlock(p) \in Block /\ NewBlock(p).height <= made + 1
         /\ NewBlock(p).height = Len(mem[p]) + 1
         /\ NewBlock(p).prev = LastId(mem[p])
         /\ made + 1 \in 0..MaxBlocks
<1>1. mem[p] \in Seq(Block) /\ mem[p] \in Shelf(made) /\ made \in 0..MaxBlocks
  BY DEF Typed
<1>2. DOMAIN mem[p] \subseteq 1..made
  BY <1>1, ShelfIs
<1>3. /\ Len(mem[p]) \in Nat /\ DOMAIN mem[p] = 1..Len(mem[p])
      /\ LastId(mem[p]) \in 0..MaxBlocks
  BY <1>1, LastIdIs
<1>4. Len(mem[p]) <= made
  <2>1. CASE Len(mem[p]) = 0
    BY <1>1, <2>1, BoundsAssumption
  <2>2. CASE Len(mem[p]) # 0
    <3>1. Len(mem[p]) \in DOMAIN mem[p]
      BY <1>3, <2>2
    <3> QED
      BY <1>1, <1>2, <3>1, BoundsAssumption
  <2> QED
    BY <2>1, <2>2
<1>5. made + 1 \in 1..MaxBlocks /\ Len(mem[p]) + 1 \in 1..MaxBlocks /\ made + 1 \in 0..MaxBlocks
  BY <1>1, <1>3, <1>4, BoundsAssumption
<1>6. Len(mem[p]) + 1 <= made + 1
  BY <1>1, <1>3, <1>4, BoundsAssumption
<1> QED
  BY <1>3, <1>5, <1>6 DEF NewBlock, Block

(* The log's block joins the memory of a process that it continues.          *)
LEMMA GrownMemory ==
  ASSUME Typed, NEW p \in Process, wal \in Block, Continues(wal, mem[p])
  PROVE  /\ Append(mem[p], wal) \in Seq(Block) /\ Append(mem[p], wal) \in Shelf(made)
         /\ Append(mem[p], wal) = Add(mem[p], wal)
         /\ Len(Append(mem[p], wal)) = Len(mem[p]) + 1
<1>1. /\ mem[p] \in Seq(Block) /\ mem[p] \in Shelf(made) /\ made \in 0..MaxBlocks
      /\ wal.height <= made /\ wal.height = Len(mem[p]) + 1
  BY DEF Typed, Continues
<1> QED
  BY <1>1, AppendIsAdd

(* Open takes LOCK when nobody is inside.                                  *)
LEMMA TakeLockBase ==
  ASSUME Base, NEW p \in Process, TakeLock(p)
  PROVE  Base'
<1>1. Typed'
  BY Known DEF Base, Typed, Phase, TakeLock, Starts, MakeData
<1>2. Attached'
  BY Known DEF Base, Typed, Attached, TakeLock, Starts, MakeData
<1>3. Guarded'
  BY DEF Base, Typed, Guarded, Inside, Exclusive, TakeLock, Starts, MakeData
<1> QED
  BY <1>1, <1>2, <1>3 DEF Base

(* An Open that finds LOCK may create an empty data directory.             *)
LEMMA LockRefusedBase ==
  ASSUME Base, NEW p \in Process, LockRefused(p)
  PROVE  Base'
<1>1. Typed'
  BY Known DEF Base, Typed, Phase, LockRefused, Starts, MakeData
<1>2. Attached'
  BY Known DEF Base, Typed, Attached, LockRefused, Starts, MakeData
<1>3. Guarded'
  BY DEF Base, Typed, Guarded, Inside, Exclusive, LockRefused, Starts, MakeData
<1> QED
  BY <1>1, <1>2, <1>3 DEF Base

(* The process that holds LOCK reads the chain that data holds.               *)
LEMMA LoadBase ==
  ASSUME Base, NEW p \in Process, Load(p)
  PROVE  Base'
<1>0. data \in Shelf(made) /\ data \in Seq(Block)
  <2>1. data \in Shelf(made) /\ Linked(data) /\ made \in 0..MaxBlocks
    BY DEF Base, Typed, Load
  <2> QED
    BY <2>1, LinkedIsChain
<1>1. Typed'
  BY <1>0 DEF Base, Typed, Phase, Load, Goes, hist, dirs
<1>2. Attached'
  BY <1>0 DEF Base, Typed, Attached, Load, Goes, hist, dirs
<1>3. Guarded'
  BY DEF Base, Typed, Guarded, Inside, Exclusive, Load, Goes, hist, dirs
<1> QED
  BY <1>1, <1>2, <1>3 DEF Base

(* An Open that is refused what it reads ends.                             *)
LEMMA LoadFailsBase ==
  ASSUME Base, NEW p \in Process, LoadFails(p)
  PROVE  Base'
<1>1. Typed'
  BY Known DEF Base, Typed, Phase, LoadFails, Ends, hist, dirs
<1>2. Attached'
  BY Known DEF Base, Typed, Attached, LoadFails, Ends, hist, dirs
<1>3. Guarded'
  BY DEF Base, Typed, Guarded, Inside, Exclusive, LoadFails, Ends, hist, dirs
<1> QED
  BY <1>1, <1>2, <1>3 DEF Base

(* A process whose log says nothing new starts to serve.                     *)
LEMMA ReplayNothingBase ==
  ASSUME Base, NEW p \in Process, ReplayNothing(p)
  PROVE  Base'
<1>0. /\ faults' \in 0..MaxFaults /\ wal' \in Block \cup {NoBlock} /\ wal'.height <= made
      /\ Range(mem[p]) \subseteq Block
  <2>1. mem[p] \in Seq(Block)
    BY DEF Base, Typed
  <2>2. Range(mem[p]) \subseteq Block
    BY <2>1 DEF Range
  <2> QED
    BY <2>2, CountsAndLogs DEF Base, ReplayNothing
<1>1. Typed'
  BY <1>0 DEF Base, Typed, Phase, ReplayNothing, Serves, hist, dirs
<1>2. Attached'
  BY DEF Base, Typed, Attached, ReplayNothing, Serves, hist, dirs
<1>3. Guarded'
  BY DEF Base, Typed, Guarded, Inside, Exclusive, ReplayNothing, Serves, hist, dirs
<1> QED
  BY <1>1, <1>2, <1>3 DEF Base

(* The log joins the chain on disk and in memory.                          *)
LEMMA ReplayAppliesBase ==
  ASSUME Base, NEW p \in Process, ReplayApplies(p)
  PROVE  Base'
<1> DEFINE s == Append(mem[p], wal)
<1>0. /\ faults' \in 0..MaxFaults /\ wal' \in Block \cup {NoBlock} /\ wal'.height <= made
      /\ s \in Seq(Block) /\ s \in Shelf(made) /\ Range(s) \subseteq Block
      /\ wal \in Block
  <2>1. wal \in Block /\ Continues(wal, mem[p]) /\ ClearWAL
    BY DEF Base, Typed, ReplayApplies, MustReplay
  <2>2. s \in Seq(Block) /\ s \in Shelf(made)
    BY <2>1, GrownMemory DEF Base
  <2>3. Range(s) \subseteq Block
    BY <2>2 DEF Range
  <2> QED
    BY <2>1, <2>2, <2>3, CountsAndLogs DEF Base
<1>4. PICK place \in Places(p) : Writes(wal, place) /\ home' = [home EXCEPT ![p] = place]
  BY DEF ReplayApplies, Appends
<1>5. /\ data' \in Shelf(made) \cup {NoDir} /\ old' \in Shelf(made) \cup {NoDir}
      /\ data' = NoDir <=> data = NoDir
      /\ old' = NoDir <=> old = NoDir
      /\ place \in {"data", "old", "gone"}
      /\ place = "data" => data # NoDir
      /\ place = "old" => old # NoDir
  BY <1>0, <1>4, WritesBase DEF Base
<1>6. /\ pc' = [pc EXCEPT ![p] = "open"] /\ mem' = [mem EXCEPT ![p] = s]
      /\ served' = served \cup Range(s)
      /\ UNCHANGED <<tmp, lock, made, calm, single, clear>>
      /\ Inside(p)
  BY DEF ReplayApplies, Serves, hist, Inside, MustReplay
<1> HIDE DEF s
<1>1. Typed'
  BY <1>0, <1>4, <1>5, <1>6 DEF Base, Typed, Phase
<1>2. Attached'
  BY <1>4, <1>5, <1>6 DEF Base, Typed, Attached
<1>3. Guarded'
  BY <1>6 DEF Base, Typed, Guarded, Inside, Exclusive
<1> QED
  BY <1>1, <1>2, <1>3 DEF Base

(* So does the block of a commit.                                          *)
LEMMA CommitBase ==
  ASSUME Base, NEW p \in Process, Commit(p)
  PROVE  Base'
<1> DEFINE s == Append(mem[p], wal)
<1>0. /\ faults' \in 0..MaxFaults /\ wal' \in Block \cup {NoBlock} /\ wal'.height <= made
      /\ s \in Seq(Block) /\ s \in Shelf(made) /\ Range(s) \subseteq Block
      /\ wal \in Block
  <2>1. wal \in Block /\ Continues(wal, mem[p]) /\ ClearWAL
    BY DEF Base, Guarded, Commit
  <2>2. s \in Seq(Block) /\ s \in Shelf(made)
    BY <2>1, GrownMemory DEF Base
  <2>3. Range(s) \subseteq Block
    BY <2>2 DEF Range
  <2> QED
    BY <2>1, <2>2, <2>3, CountsAndLogs DEF Base
<1>4. PICK place \in Places(p) : Writes(wal, place) /\ home' = [home EXCEPT ![p] = place]
  BY DEF Commit, Appends
<1>5. /\ data' \in Shelf(made) \cup {NoDir} /\ old' \in Shelf(made) \cup {NoDir}
      /\ data' = NoDir <=> data = NoDir
      /\ old' = NoDir <=> old = NoDir
      /\ place \in {"data", "old", "gone"}
      /\ place = "data" => data # NoDir
      /\ place = "old" => old # NoDir
  BY <1>0, <1>4, WritesBase DEF Base
<1>6. /\ pc' = [pc EXCEPT ![p] = "open"] /\ mem' = [mem EXCEPT ![p] = s]
      /\ served' = served \cup Range(s)
      /\ UNCHANGED <<tmp, lock, made, calm, single, clear>>
      /\ Inside(p)
  BY DEF Commit, Serves, hist, Inside, MustReplay
<1> HIDE DEF s
<1>1. Typed'
  BY <1>0, <1>4, <1>5, <1>6 DEF Base, Typed, Phase
<1>2. Attached'
  BY <1>4, <1>5, <1>6 DEF Base, Typed, Attached
<1>3. Guarded'
  BY <1>6 DEF Base, Typed, Guarded, Inside, Exclusive
<1> QED
  BY <1>1, <1>2, <1>3 DEF Base

(* The log is appended, not accepted, and the process ends.                *)
LEMMA ReplayRejectedBase ==
  ASSUME Base, NEW p \in Process, ReplayRejected(p)
  PROVE  Base'
<1>0. /\ data' \in Shelf(made) \cup {NoDir} /\ old' \in Shelf(made) \cup {NoDir}
      /\ data' = NoDir <=> data = NoDir
      /\ old' = NoDir <=> old = NoDir
      /\ faults' \in 0..MaxFaults
  <2>1. wal \in Block
    BY DEF Base, Typed, ReplayRejected, MustReplay
  <2>2. PICK place \in Places(p) : Writes(wal, place)
    BY DEF ReplayRejected
  <2> QED
    BY <2>1, <2>2, WritesBase DEF Base, Typed, ReplayRejected
<1>4. /\ pc' = [pc EXCEPT ![p] = "off"] /\ mem' = [mem EXCEPT ![p] = <<>>]
      /\ home' = [home EXCEPT ![p] = "gone"]
      /\ calm' \in BOOLEAN
      /\ UNCHANGED <<tmp, wal, lock, made, served, single, clear>>
  BY DEF Base, Typed, ReplayRejected, Leaves, Ends, hist
<1>1. Typed'
  BY <1>0, <1>4, Known DEF Base, Typed, Phase
<1>2. Attached'
  BY <1>0, <1>4 DEF Base, Typed, Attached
<1>3. Guarded'
  BY <1>4 DEF Base, Typed, Guarded, Inside, Exclusive
<1> QED
  BY <1>1, <1>2, <1>3 DEF Base

(* The log is not appended, or only in part, and the process ends.         *)
LEMMA ReplayFailsBase ==
  ASSUME Base, NEW p \in Process, ReplayFails(p)
  PROVE  Base'
<1>0. /\ data' \in Shelf(made) \cup {NoDir} /\ old' \in Shelf(made) \cup {NoDir}
      /\ data' = NoDir <=> data = NoDir
      /\ old' = NoDir <=> old = NoDir
      /\ faults' \in 0..MaxFaults
  <2>1. wal \in Block
    BY DEF Base, Typed, ReplayFails, MustReplay
  <2>2. CASE Fault /\ Left(p, wal)
    BY <2>1, <2>2, LeftBase, CountsAndLogs DEF Base
  <2>3. CASE UNCHANGED <<data, old, faults>>
    BY <2>3 DEF Base, Typed
  <2> QED
    BY <2>2, <2>3 DEF ReplayFails
<1>4. /\ pc' = [pc EXCEPT ![p] = "off"] /\ mem' = [mem EXCEPT ![p] = <<>>]
      /\ home' = [home EXCEPT ![p] = "gone"]
      /\ calm' \in BOOLEAN
      /\ UNCHANGED <<tmp, wal, lock, made, served, single, clear>>
  BY DEF Base, Typed, ReplayFails, Leaves, Ends, hist
<1>1. Typed'
  BY <1>0, <1>4, Known DEF Base, Typed, Phase
<1>2. Attached'
  BY <1>0, <1>4 DEF Base, Typed, Attached
<1>3. Guarded'
  BY <1>4 DEF Base, Typed, Guarded, Inside, Exclusive
<1> QED
  BY <1>1, <1>2, <1>3 DEF Base

(* The log is written by the process that holds LOCK.                        *)
LEMMA WriteWALBase ==
  ASSUME Base, NEW p \in Process, WriteWAL(p)
  PROVE  Base'
<1>0. /\ wal' \in Block /\ wal'.height <= made + 1
      /\ wal'.height = Len(mem[p]) + 1 /\ wal'.prev = LastId(mem[p])
      /\ made' = made + 1 /\ made + 1 \in 0..MaxBlocks /\ made \in 0..MaxBlocks
      /\ made <= made + 1
  <2>1. wal' = NewBlock(p) /\ made' = made + 1 /\ made < MaxBlocks
    BY DEF WriteWAL
  <2>2. made \in 0..MaxBlocks /\ made <= made + 1
    BY BoundsAssumption DEF Base, Typed
  <2> QED
    BY <2>1, <2>2, NewBlockIs DEF Base
<1>4. \A d \in Shelf(made) : d \in Shelf(made')
  BY <1>0, ShelfGrows
<1>5. /\ pc[p] = "open" /\ pc' = [pc EXCEPT ![p] = "logged"]
      /\ UNCHANGED <<data, old, tmp, lock, mem, home, faults, served, calm, single, clear>>
  BY DEF WriteWAL, Goes, hist, dirs
<1>1. Typed'
  <2>1. data' \in Shelf(made') \cup {NoDir} /\ old' \in Shelf(made') \cup {NoDir}
        /\ tmp' \in Shelf(made') \cup {NoDir} /\ \A q \in Process : mem'[q] \in Shelf(made')
    BY <1>4, <1>5 DEF Base, Typed
  <2>2. wal' \in Block \cup {NoBlock} /\ wal'.height <= made' /\ made' \in 0..MaxBlocks
    BY <1>0
  <2>3. pc' \in [Process -> Phase]
    BY <1>5 DEF Base, Typed, Phase
  <2> QED
    BY <1>5, <2>1, <2>2, <2>3 DEF Base, Typed
<1>2. Attached'
  BY <1>5 DEF Base, Attached
<1>3. Guarded'
  <2>1. \A q \in Process : Inside(q)' => Inside(q)
    BY <1>5 DEF Base, Typed, Inside
  <2>2. \A q \in Process : pc'[q] = "logged" => q = p
    BY <1>5, <2>1 DEF Base, Typed, Guarded, Exclusive, Inside
  <2>3. Continues(wal, mem[p])'
    BY <1>0, <1>5 DEF Continues, LastId
  <2>4. p \notin Compactor
    BY RolesAreApart DEF WriteWAL
  <2> QED
    BY <1>0, <1>5, <2>1, <2>2, <2>3, <2>4 DEF Base, Guarded, Exclusive
<1> QED
  BY <1>1, <1>2, <1>3 DEF Base

(* A commit that fails leaves its log and may leave its record.              *)
LEMMA CommitFailsBase ==
  ASSUME Base, NEW p \in Process, CommitFails(p)
  PROVE  Base'
<1>0. wal \in Block /\ pc[p] = "logged"
  BY DEF Base, Guarded, CommitFails, Goes
<1>4. \E place \in {"data", "old", "gone", "closed"} :
        /\ home' = [home EXCEPT ![p] = place]
        /\ data' \in Shelf(made) \cup {NoDir} /\ old' \in Shelf(made) \cup {NoDir}
        /\ data' = NoDir <=> data = NoDir
        /\ old' = NoDir <=> old = NoDir
        /\ place = "data" => data # NoDir
        /\ place = "old" => old # NoDir
        /\ faults' \in 0..MaxFaults
  <2>1. CASE home[p] = "closed" /\ UNCHANGED <<data, old, home, faults>>
    BY <2>1 DEF Base, Typed
  <2>2. CASE /\ data = NoDir
             /\ home' = [home EXCEPT ![p] = "closed"] /\ UNCHANGED <<data, old, faults>>
    BY <2>2 DEF Base, Typed
  <2>3. CASE /\ Fault
             /\ \E place \in Places(p) :
                  /\ Writes(wal, place) \/ UNCHANGED <<data, old>>
                  /\ home' = [home EXCEPT ![p] = place]
    <3>1. PICK place \in Places(p) : /\ Writes(wal, place) \/ UNCHANGED <<data, old>>
                                     /\ home' = [home EXCEPT ![p] = place]
      BY <2>3
    <3>2. faults' \in 0..MaxFaults
      BY <2>3, CountsAndLogs DEF Base
    <3>3. /\ place \in {"data", "old", "gone"}
          /\ place = "data" => data # NoDir
          /\ place = "old" => old # NoDir
      BY DEF Places, Base, Typed, Attached
    <3>4. CASE Writes(wal, place)
      BY <1>0, <3>1, <3>2, <3>4, WritesBase DEF Base
    <3>5. CASE UNCHANGED <<data, old>>
      BY <3>1, <3>2, <3>3, <3>5 DEF Base, Typed
    <3> QED
      BY <3>1, <3>4, <3>5
  <2> QED
    BY <2>1, <2>2, <2>3 DEF CommitFails, AppendFails
<1>5. /\ pc' = [pc EXCEPT ![p] = "open"]
      /\ UNCHANGED <<tmp, wal, lock, mem, made, served, calm, single, clear>>
  BY DEF CommitFails, Goes, hist
<1>1. Typed'
  BY <1>4, <1>5 DEF Base, Typed, Phase
<1>2. Attached'
  BY <1>4, <1>5 DEF Base, Typed, Attached
<1>3. Guarded'
  BY <1>0, <1>5 DEF Base, Typed, Guarded, Inside, Exclusive
<1> QED
  BY <1>1, <1>2, <1>3 DEF Base

(* Close removes LOCK: the process was the only one inside.                *)
LEMMA CloseBase ==
  ASSUME Base, NEW p \in Process, Close(p)
  PROVE  Base'
<1>1. Typed'
  BY Known DEF Base, Typed, Phase, Close, Leaves, Ends, hist, dirs
<1>2. Attached'
  BY Known DEF Base, Typed, Attached, Close, Leaves, Ends, hist, dirs
<1>3. Guarded'
  BY DEF Base, Typed, Guarded, Inside, Exclusive, Close, Leaves, Ends, hist, dirs
<1> QED
  BY <1>1, <1>2, <1>3 DEF Base

(* A dead process holds nothing; LOCK and the log stay.                    *)
LEMMA CrashBase ==
  ASSUME Base, NEW p \in Process, Crash(p)
  PROVE  Base'
<1>0. /\ data' \in Shelf(made) \cup {NoDir} /\ old' \in Shelf(made) \cup {NoDir}
      /\ data' = NoDir <=> data = NoDir
      /\ old' = NoDir <=> old = NoDir
      /\ faults' \in 0..MaxFaults
  <2>1. Fault
    BY DEF Crash
  <2>2. CASE MustReplay(p) \/ pc[p] = "logged"
    <3>1. wal \in Block
      BY <2>2 DEF Base, Typed, Guarded, MustReplay
    <3>2. Left(p, wal)
      BY <2>2 DEF Crash
    <3> QED
      BY <2>1, <3>1, <3>2, LeftBase, CountsAndLogs DEF Base
  <2>3. CASE ~(MustReplay(p) \/ pc[p] = "logged")
    <3>1. UNCHANGED <<data, old>>
      BY <2>3 DEF Crash
    <3> QED
      BY <2>1, <3>1, CountsAndLogs DEF Base, Typed
  <2> QED
    BY <2>2, <2>3
<1>4. /\ pc' = [pc EXCEPT ![p] = "off"] /\ mem' = [mem EXCEPT ![p] = <<>>]
      /\ home' = [home EXCEPT ![p] = "gone"]
      /\ calm' \in BOOLEAN
      /\ UNCHANGED <<tmp, wal, lock, made, served, single, clear>>
  BY DEF Base, Typed, Crash, Leaves, Ends, hist
<1>1. Typed'
  BY <1>0, <1>4, Known DEF Base, Typed, Phase
<1>2. Attached'
  BY <1>0, <1>4 DEF Base, Typed, Attached
<1>3. Guarded'
  BY <1>4 DEF Base, Typed, Guarded, Inside, Exclusive
<1> QED
  BY <1>1, <1>2, <1>3 DEF Base

(* A compaction leaves the inside and removes LOCK.                        *)
LEMMA CopyBlocksBase ==
  ASSUME Base, NEW c \in Compactor, CopyBlocks(c)
  PROVE  Base'
<1>0. c \in Process
  BY DEF Process
<1>1. Typed'
  BY <1>0, Known DEF Base, Typed, Phase, CopyBlocks, Goes, hist, dirs
<1>2. Attached'
  BY <1>0, Known DEF Base, Typed, Attached, CopyBlocks, Goes, hist, dirs
<1>3. Guarded'
  BY <1>0 DEF Base, Typed, Guarded, Inside, Exclusive, CopyBlocks, Goes, hist, dirs
<1> QED
  BY <1>1, <1>2, <1>3 DEF Base

(* The scratch directory is removed.                                       *)
LEMMA WipeBase ==
  ASSUME Base, NEW c \in Compactor, Wipe(c)
  PROVE  Base'
<1>0. c \in Process
  BY DEF Process
<1>1. Typed'
  BY <1>0, Known DEF Base, Typed, Phase, Wipe, Goes, hist
<1>2. Attached'
  BY <1>0, Known DEF Base, Typed, Attached, Wipe, Goes, hist
<1>3. Guarded'
  BY <1>0 DEF Base, Typed, Guarded, Inside, Exclusive, Wipe, Goes, hist
<1> QED
  BY <1>1, <1>2, <1>3 DEF Base

(* It is filled with the blocks that were copied.                          *)
LEMMA RebuildBase ==
  ASSUME Base, NEW c \in Compactor, Rebuild(c)
  PROVE  Base'
<1>0. c \in Process
  BY DEF Process
<1>4. tmp' \in Shelf(made) \cup {NoDir} /\ faults' \in 0..MaxFaults
  BY <1>0, Known, OverlaidIs DEF Base, Typed, Rebuild
<1>1. Typed'
  BY <1>0, <1>4, Known DEF Base, Typed, Phase, Rebuild, Goes, hist
<1>2. Attached'
  BY <1>0 DEF Base, Typed, Attached, Rebuild, Goes, hist
<1>3. Guarded'
  BY <1>0 DEF Base, Typed, Guarded, Inside, Exclusive, Rebuild, Goes, hist
<1> QED
  BY <1>1, <1>2, <1>3 DEF Base

(* Or with the first of them.                                              *)
LEMMA RebuildFailsBase ==
  ASSUME Base, NEW c \in Compactor, RebuildFails(c)
  PROVE  Base'
<1>0. c \in Process
  BY DEF Process
<1>4. tmp' \in Shelf(made) \cup {NoDir} /\ faults' \in 0..MaxFaults
  <2>1. PICK n \in 0..Len(mem[c]) : tmp' = Overlaid(tmp, SubSeq(mem[c], 1, n))
    BY DEF RebuildFails
  <2>2. mem[c] \in Seq(Block) /\ mem[c] \in Shelf(made) /\ made \in 0..MaxBlocks
    BY <1>0 DEF Base, Typed
  <2>3. SubSeq(mem[c], 1, n) \in Shelf(made)
    BY <2>2, PartOnShelf
  <2>4. tmp' \in Shelf(made)
    BY <2>1, <2>2, <2>3, OverlaidIs DEF Base, Typed
  <2>5. faults' \in 0..MaxFaults
    BY CountsAndLogs DEF Base, RebuildFails
  <2> QED
    BY <2>4, <2>5
<1>1. Typed'
  BY <1>0, <1>4, Known DEF Base, Typed, Phase, RebuildFails, Ends, hist
<1>2. Attached'
  BY <1>0 DEF Base, Typed, Attached, RebuildFails, Ends, hist
<1>3. Guarded'
  BY <1>0 DEF Base, Typed, Guarded, Inside, Exclusive, RebuildFails, Ends, hist
<1> QED
  BY <1>1, <1>2, <1>3 DEF Base

(* What is there is checked, and created if it is not there.               *)
LEMMA CheckBase ==
  ASSUME Base, NEW c \in Compactor, Check(c)
  PROVE  Base'
<1>0. c \in Process
  BY DEF Process
<1>4. tmp' \in Shelf(made) \cup {NoDir} /\ faults' \in 0..MaxFaults
  BY Known DEF Base, Typed, Check
<1>1. Typed'
  BY <1>0, <1>4, Known DEF Base, Typed, Phase, Check, Goes, hist
<1>2. Attached'
  BY <1>0 DEF Base, Typed, Attached, Check, Goes, hist
<1>3. Guarded'
  BY <1>0 DEF Base, Typed, Guarded, Inside, Exclusive, Check, Goes, hist
<1> QED
  BY <1>1, <1>2, <1>3 DEF Base

(* Or it is refused, and the compaction ends.                              *)
LEMMA CheckFailsBase ==
  ASSUME Base, NEW c \in Compactor, CheckFails(c)
  PROVE  Base'
<1>0. c \in Process
  BY DEF Process
<1>1. Typed'
  BY <1>0, Known DEF Base, Typed, Phase, CheckFails, Ends, hist, dirs
<1>2. Attached'
  BY <1>0, Known DEF Base, Typed, Attached, CheckFails, Ends, hist, dirs
<1>3. Guarded'
  BY <1>0 DEF Base, Typed, Guarded, Inside, Exclusive, CheckFails, Ends, hist, dirs
<1> QED
  BY <1>1, <1>2, <1>3 DEF Base

(* The first rename takes the open files along.                            *)
LEMMA MoveAsideBase ==
  ASSUME Base, NEW c \in Compactor, MoveAside(c)
  PROVE  Base'
<1>0. c \in Process
  BY DEF Process
<1>1. Typed'
  BY <1>0, Known DEF Base, Typed, Phase, MoveAside, Goes
<1>2. Attached'
  BY <1>0, Known DEF Base, Typed, Attached, MoveAside, Goes
<1>3. Guarded'
  BY <1>0 DEF Base, Typed, Guarded, Inside, Exclusive, MoveAside, Goes
<1> QED
  BY <1>1, <1>2, <1>3 DEF Base

(* It fails, and data.precompact is gone.                                  *)
LEMMA MoveAsideFailsBase ==
  ASSUME Base, NEW c \in Compactor, MoveAsideFails(c)
  PROVE  Base'
<1>0. c \in Process
  BY DEF Process
<1>1. Typed'
  BY <1>0, Known, CountsAndLogs DEF Base, Typed, Phase, MoveAsideFails, Ends, Moves, hist
<1>2. Attached'
  BY <1>0, Known, CountsAndLogs DEF Base, Typed, Attached, MoveAsideFails, Ends, Moves, hist
<1>3. Guarded'
  BY <1>0 DEF Base, Typed, Guarded, Inside, Exclusive, MoveAsideFails, Ends, Moves, hist
<1> QED
  BY <1>1, <1>2, <1>3 DEF Base

(* The second rename: no file is open in a directory that is not there.    *)
LEMMA MoveInBase ==
  ASSUME Base, NEW c \in Compactor, MoveIn(c)
  PROVE  Base'
<1>0. c \in Process
  BY DEF Process
<1>1. Typed'
  BY <1>0, Known DEF Base, Typed, Phase, MoveIn, Goes, hist
<1>2. Attached'
  BY <1>0, Known DEF Base, Typed, Attached, MoveIn, Goes, hist
<1>3. Guarded'
  BY <1>0 DEF Base, Typed, Guarded, Inside, Exclusive, MoveIn, Goes, hist
<1> QED
  BY <1>1, <1>2, <1>3 DEF Base

(* It fails, and the first one is undone or not.                           *)
LEMMA MoveInFailsBase ==
  ASSUME Base, NEW c \in Compactor, MoveInFails(c)
  PROVE  Base'
<1>0. c \in Process
  BY DEF Process
<1>1. Typed'
  BY <1>0, Known, CountsAndLogs DEF Base, Typed, Phase, MoveInFails, Ends, Moves
<1>2. Attached'
  BY <1>0, Known, CountsAndLogs DEF Base, Typed, Attached, MoveInFails, Ends, Moves
<1>3. Guarded'
  BY <1>0 DEF Base, Typed, Guarded, Inside, Exclusive, MoveInFails, Ends, Moves
<1> QED
  BY <1>1, <1>2, <1>3 DEF Base

(* The directories that are not needed any more are removed.               *)
LEMMA CleanUpBase ==
  ASSUME Base, NEW c \in Compactor, CleanUp(c)
  PROVE  Base'
<1>0. c \in Process
  BY DEF Process
<1>1. Typed'
  BY <1>0, Known DEF Base, Typed, Phase, CleanUp, Ends, Moves, hist
<1>2. Attached'
  BY <1>0, Known DEF Base, Typed, Attached, CleanUp, Ends, Moves, hist
<1>3. Guarded'
  BY <1>0 DEF Base, Typed, Guarded, Inside, Exclusive, CleanUp, Ends, Moves, hist
<1> QED
  BY <1>1, <1>2, <1>3 DEF Base

(* agidb unlock is used when nobody is inside.                                *)
LEMMA UnlockBase ==
  ASSUME Base, Unlock \/ UNCHANGED vars
  PROVE  Base'
<1>1. Typed'
  BY DEF Base, Typed, Unlock, vars, hist, dirs
<1>2. Attached'
  BY DEF Base, Attached, Unlock, vars, hist, dirs
<1>3. Guarded'
  <2>1. CASE Unlock
    BY <2>1 DEF Base, Guarded, Inside, Exclusive, Continues, LastId, Unlock, hist, dirs
  <2>2. CASE UNCHANGED vars
    BY <2>2 DEF Base, Guarded, Inside, Exclusive, Continues, LastId, vars
  <2> QED
    BY <2>1, <2>2
<1> QED
  BY <1>1, <1>2, <1>3 DEF Base

(* Every step keeps types, files and LOCK in order.                          *)
LEMMA NextBase ==
  ASSUME Base, [Next]_vars
  PROVE  Base'
<1>1. ASSUME NEW p \in Process,
             TakeLock(p) \/ LockRefused(p) \/ Load(p) \/ LoadFails(p)
               \/ ReplayNothing(p) \/ ReplayApplies(p) \/ ReplayRejected(p) \/ ReplayFails(p)
               \/ WriteWAL(p) \/ Commit(p) \/ CommitFails(p) \/ Close(p) \/ Crash(p)
      PROVE  Base'
  BY <1>1, TakeLockBase, LockRefusedBase, LoadBase, LoadFailsBase, ReplayNothingBase,
     ReplayAppliesBase, ReplayRejectedBase, ReplayFailsBase, WriteWALBase, CommitBase,
     CommitFailsBase, CloseBase, CrashBase
<1>2. ASSUME NEW c \in Compactor,
             CopyBlocks(c) \/ Wipe(c) \/ Rebuild(c) \/ RebuildFails(c)
               \/ Check(c) \/ CheckFails(c) \/ MoveAside(c) \/ MoveAsideFails(c)
               \/ MoveIn(c) \/ MoveInFails(c) \/ CleanUp(c)
      PROVE  Base'
  BY <1>2, CopyBlocksBase, WipeBase, RebuildBase, RebuildFailsBase, CheckBase,
     CheckFailsBase, MoveAsideBase, MoveAsideFailsBase, MoveInBase, MoveInFailsBase,
     CleanUpBase
<1> QED
  BY <1>1, <1>2, UnlockBase DEF Next

-------------------------------------------------------------------------------
(* One process at a time *)

(* History only gets worse.                                                  *)
LEMMA HistoryShrinks ==
  ASSUME Typed, [Next]_vars
  PROVE  (calm' => calm) /\ (single' => single) /\ (clear' => clear) /\ (Sound' => Sound)
<1>1. calm' = calm \/ calm' = FALSE \/ \E e \in BOOLEAN : calm' = (calm /\ e)
  BY DEF Next, Starts, hist, vars, TakeLock, LockRefused, Load, LoadFails, ReplayNothing,
     ReplayApplies, ReplayRejected, ReplayFails, WriteWAL, Commit, CommitFails, Close,
     Crash, CopyBlocks, Wipe, Rebuild, RebuildFails, Check, CheckFails, MoveAside,
     MoveAsideFails, MoveIn, MoveInFails, CleanUp, Unlock
<1>2. single' = single \/ \E e \in BOOLEAN : single' = (single /\ e)
  BY DEF Next, Starts, hist, vars, TakeLock, LockRefused, Load, LoadFails, ReplayNothing,
     ReplayApplies, ReplayRejected, ReplayFails, WriteWAL, Commit, CommitFails, Close,
     Crash, CopyBlocks, Wipe, Rebuild, RebuildFails, Check, CheckFails, MoveAside,
     MoveAsideFails, MoveIn, MoveInFails, CleanUp, Unlock
<1>3. clear' = clear \/ \E e \in BOOLEAN : clear' = (clear /\ e)
  BY DEF Next, Starts, hist, vars, TakeLock, LockRefused, Load, LoadFails, ReplayNothing,
     ReplayApplies, ReplayRejected, ReplayFails, WriteWAL, Commit, CommitFails, Close,
     Crash, CopyBlocks, Wipe, Rebuild, RebuildFails, Check, CheckFails, MoveAside,
     MoveAsideFails, MoveIn, MoveInFails, CleanUp, Unlock
<1>4. (calm' => calm) /\ (single' => single) /\ (clear' => clear)
  BY <1>1, <1>2, <1>3 DEF Typed
<1> QED
  BY <1>4 DEF Sound

(* What the process that holds LOCK writes, or leaves when it dies, extends  *)
(* data by the block of the log.                                             *)
LEMMA TouchSteady ==
  ASSUME Base, Steady, Sound, NEW p \in Process, Working(p), wal \in Block, Left(p, wal)
  PROVE  /\ old' = old /\ data' \in {data, Add(data, wal)} /\ data' # NoDir
         /\ Linked(data') /\ Fits(wal, data') /\ Linked(Chain(old')) /\ Linked(Chain(data'))
<1>1. Inside(p) /\ InStep(p) /\ data # NoDir
  BY DEF Steady, Working, Inside
<1>2. /\ data \in Shelf(made) /\ made \in 0..MaxBlocks /\ wal.height <= made
      /\ Chain(data) = data
  BY <1>1, Known DEF Base, Typed
<1>3. Linked(data) /\ Fits(wal, data) /\ Linked(Chain(old))
  BY <1>1, <1>2 DEF Steady
<1>4. Places(p) = {"data"}
  BY <1>1 DEF InStep, Places
<1>5. old' = old /\ (data' = data \/ data' = Add(data, wal))
  BY <1>4 DEF Left, Writes
<1>6. Linked(Add(data, wal)) /\ Fits(wal, Add(data, wal))
  BY <1>2, <1>3, AddLinked
<1>7. Add(data, wal) \in Shelf(made)
  BY <1>2, AddIs
<1>8. data' \in Shelf(made) /\ Linked(data') /\ Fits(wal, data')
  BY <1>2, <1>3, <1>5, <1>6, <1>7
<1>9. data' # NoDir /\ Chain(data') = data'
  BY <1>2, <1>8, ShelfIs
<1> QED
  BY <1>3, <1>5, <1>8, <1>9

(* When the process that was inside ends, nobody is inside.                  *)
LEMMA LeavesNobody ==
  ASSUME Base, NEW p \in Process, Inside(p), pc' = [pc EXCEPT ![p] = "off"]
  PROVE  \A q \in Process : ~Inside(q)' /\ ~Working(q)'
BY DEF Base, Typed, Guarded, Exclusive, Inside, Working

(* Every block fits under an empty log. *)
LEMMA NoLogFits ==
  ASSUME NEW d
  PROVE  Fits(NoBlock, d)
BY DEF Fits

(* The empty database *)
LEMMA InitSteady == Init => Steady
<1> SUFFICES ASSUME Init PROVE Steady
  OBVIOUS
<1>1. Linked(Chain(NoDir))
  BY DEF Chain, Linked
<1> QED
  BY <1>1 DEF Init, Steady, Inside, Working

(* A new directory is empty, and there is no log then.                       *)
LEMMA TakeLockSteady ==
  ASSUME IInv, Base', NEW p \in Process, TakeLock(p), Sound', Sound
  PROVE  Steady'
<1>1. data = NoDir => wal = NoBlock
  <2>1. CASE single /\ clear
    BY <2>1 DEF IInv, Unmixed
  <2>2. CASE calm'
    <3>1. calm /\ \A c \in Compactor : ~Unlocked(c)
      BY <2>2 DEF TakeLock, Starts, IInv, Base, Typed
    <3>2. ~Moved
      BY <3>1 DEF Moved, Unlocked
    <3> QED
      BY <3>1, <3>2 DEF IInv, Undisturbed
  <2> QED
    BY <2>1, <2>2 DEF Sound, TakeLock, Starts
<1>2. /\ Linked(Chain(data)) /\ Linked(Chain(old)) /\ (data # NoDir => Fits(wal, data))
      /\ \A q \in Process : Inside(q) => data # NoDir
      /\ \A q \in Process : Working(q) => InStep(q)
  BY DEF IInv, Steady
<1>3. Chain(data) \in Shelf(made) /\ NoDir \notin Shelf(made) /\ (data # NoDir => Chain(data) = data)
  BY Known DEF IInv, Base
<1>4. data' = Chain(data) /\ data' # NoDir /\ Chain(data') = data'
  BY <1>3 DEF TakeLock, MakeData, Chain
<1>5. UNCHANGED <<old, wal, mem, home>> /\ \A q \in Process : Working(q)' => Working(q) /\ pc'[q] = pc[q]
  BY DEF TakeLock, Starts, Working, IInv, Base, Typed
<1>6. Fits(wal, data')
  BY <1>1, <1>2, <1>4, NoLogFits DEF Chain
<1>7. ASSUME NEW q \in Process, Working(q)' PROVE InStep(q)'
  <2>1. InStep(q) /\ data # NoDir /\ data' = data
    BY <1>2, <1>3, <1>4, <1>5, <1>7 DEF Working, Inside
  <2> QED
    BY <1>5, <1>7, <2>1 DEF InStep
<1> QED
  BY <1>2, <1>4, <1>5, <1>6, <1>7 DEF Steady

(* An Open that is refused leaves an empty directory, too.                   *)
LEMMA LockRefusedSteady ==
  ASSUME IInv, Base', NEW p \in Process, LockRefused(p), Sound', Sound
  PROVE  Steady'
<1>1. data = NoDir => wal = NoBlock
  <2>1. CASE single /\ clear
    BY <2>1 DEF IInv, Unmixed
  <2>2. CASE calm'
    <3>1. calm /\ \A c \in Compactor : ~Unlocked(c)
      BY <2>2 DEF LockRefused, Starts, IInv, Base, Typed
    <3>2. ~Moved
      BY <3>1 DEF Moved, Unlocked
    <3> QED
      BY <3>1, <3>2 DEF IInv, Undisturbed
  <2> QED
    BY <2>1, <2>2 DEF Sound, LockRefused, Starts
<1>2. /\ Linked(Chain(data)) /\ Linked(Chain(old)) /\ (data # NoDir => Fits(wal, data))
      /\ \A q \in Process : Inside(q) => data # NoDir
      /\ \A q \in Process : Working(q) => InStep(q)
  BY DEF IInv, Steady
<1>3. Chain(data) \in Shelf(made) /\ NoDir \notin Shelf(made) /\ (data # NoDir => Chain(data) = data)
  BY Known DEF IInv, Base
<1>4. data' = Chain(data) /\ data' # NoDir /\ Chain(data') = data'
  BY <1>3 DEF LockRefused, MakeData, Chain
<1>5. UNCHANGED <<old, wal, mem, home>> /\ \A q \in Process : Working(q)' => Working(q) /\ pc'[q] = pc[q]
  BY DEF LockRefused, Starts, Working, IInv, Base, Typed
<1>6. Fits(wal, data')
  BY <1>1, <1>2, <1>4, NoLogFits DEF Chain
<1>7. ASSUME NEW q \in Process, Working(q)' PROVE InStep(q)'
  <2>1. InStep(q) /\ data # NoDir /\ data' = data
    BY <1>2, <1>3, <1>4, <1>5, <1>7 DEF Working, Inside
  <2> QED
    BY <1>5, <1>7, <2>1 DEF InStep
<1> QED
  BY <1>2, <1>4, <1>5, <1>6, <1>7 DEF Steady

(* The process reads what the directory holds.                               *)
LEMMA LoadSteady ==
  ASSUME IInv, Base', NEW p \in Process, Load(p), Sound', Sound
  PROVE  Steady'
<1>1. /\ Linked(Chain(data)) /\ Linked(Chain(old)) /\ (data # NoDir => Fits(wal, data))
      /\ \A q \in Process : Inside(q) => data # NoDir
  BY DEF IInv, Steady
<1>2. /\ UNCHANGED <<data, old, wal>> /\ pc[p] = "locked" /\ pc' = [pc EXCEPT ![p] = "loaded"]
      /\ mem' = [mem EXCEPT ![p] = data] /\ home' = [home EXCEPT ![p] = "data"]
  BY DEF Load, Goes, dirs
<1>3. \A q \in Process : Inside(q)' => Inside(q)
  BY <1>2 DEF Inside, IInv, Base, Typed
<1>4. ASSUME NEW q \in Process, Working(q)' PROVE InStep(q)'
  <2>1. q = p
    BY <1>2, <1>4 DEF Working, Inside, IInv, Base, Typed, Guarded, Exclusive
  <2>2. mem'[p] = data' /\ home'[p] = "data"
    BY <1>2 DEF IInv, Base, Typed
  <2>3. \A h \in DOMAIN data : h <= Len(data) + 1
    <3>1. data \in Shelf(made) /\ Linked(data) /\ made \in 0..MaxBlocks
      BY DEF Load, IInv, Base, Typed
    <3>2. Len(data) \in Nat /\ DOMAIN data = 1..Len(data)
      BY <3>1, LinkedIsChain
    <3> QED
      BY <3>2
  <2> QED
    BY <1>2, <2>1, <2>2, <2>3 DEF InStep
<1> QED
  BY <1>1, <1>2, <1>3, <1>4 DEF Steady

(* A process that ends leaves things as they are.                            *)
LEMMA LoadFailsSteady ==
  ASSUME IInv, Base', NEW p \in Process, LoadFails(p), Sound', Sound
  PROVE  Steady'
<1>1. /\ UNCHANGED <<data, old, wal>> /\ Inside(p) /\ pc' = [pc EXCEPT ![p] = "off"]
  BY DEF LoadFails, Ends, dirs, Inside
<1>2. \A q \in Process : ~Inside(q)' /\ ~Working(q)'
  BY <1>1, LeavesNobody DEF IInv
<1>3. Linked(Chain(data)) /\ Linked(Chain(old)) /\ (data # NoDir => Fits(wal, data))
  BY DEF IInv, Steady
<1> QED
  BY <1>1, <1>2, <1>3 DEF Steady

(* The log says nothing new, and is removed or stays.                        *)
LEMMA ReplayNothingSteady ==
  ASSUME IInv, Base', NEW p \in Process, ReplayNothing(p), Sound', Sound
  PROVE  Steady'
<1>1. /\ Linked(Chain(data)) /\ Linked(Chain(old)) /\ (data # NoDir => Fits(wal, data))
      /\ \A q \in Process : Inside(q) => data # NoDir
      /\ \A q \in Process : Working(q) => InStep(q)
  BY DEF IInv, Steady
<1>2. /\ UNCHANGED <<data, old, home>> /\ pc[p] = "loaded" /\ pc' = [pc EXCEPT ![p] = "open"]
      /\ mem' = mem /\ (wal' = NoBlock \/ wal' = wal)
  BY DEF ReplayNothing, ClearWAL, Serves, dirs, IInv, Base, Typed
<1>3. \A q \in Process : (Inside(q)' => Inside(q)) /\ (Working(q)' => Working(q))
  BY <1>2 DEF Inside, Working, IInv, Base, Typed
<1>4. data' # NoDir => Fits(wal', data')
  BY <1>1, <1>2, NoLogFits
<1>5. ASSUME NEW q \in Process, Working(q)' PROVE InStep(q)'
  <2>1. InStep(q) /\ (pc'[q] = "loaded" => pc[q] = "loaded")
    BY <1>1, <1>2, <1>3, <1>5 DEF IInv, Base, Typed
  <2> QED
    BY <1>2, <2>1 DEF InStep
<1> QED
  BY <1>1, <1>2, <1>3, <1>4, <1>5 DEF Steady

(* The log joins the chain on disk and in memory.                            *)
LEMMA ReplayAppliesSteady ==
  ASSUME IInv, Base', NEW p \in Process, ReplayApplies(p), Sound', Sound
  PROVE  Steady'
<1>1. Working(p) /\ wal \in Block /\ Continues(wal, mem[p])
  BY DEF ReplayApplies, MustReplay, IInv, Base, Typed, Working
<1>2. Inside(p) /\ InStep(p) /\ data # NoDir
  BY <1>1 DEF IInv, Steady, Working, Inside
<1>3. Writes(wal, "data") /\ home' = [home EXCEPT ![p] = "data"] /\ Left(p, wal)
  <2>1. Places(p) = {"data"}
    BY <1>2 DEF InStep, Places
  <2> QED
    BY <2>1 DEF ReplayApplies, Appends, Left
<1>4. data' = Add(data, wal)
  BY <1>3 DEF Writes
<1>5. /\ mem' = [mem EXCEPT ![p] = Append(mem[p], wal)] /\ pc' = [pc EXCEPT ![p] = "open"]
      /\ Append(mem[p], wal) = Add(mem[p], wal)
      /\ Append(mem[p], wal) \in Seq(Block)
      /\ Len(Append(mem[p], wal)) = Len(mem[p]) + 1
      /\ wal' = NoBlock \/ wal' = wal
  BY <1>1, GrownMemory DEF ReplayApplies, Serves, ClearWAL, IInv, Base
<1>6. \A h \in DOMAIN data : h \in Nat
  BY <1>2, ShelfIs DEF IInv, Base, Typed
<1>7. /\ data' # NoDir /\ Fits(wal, data')
      /\ Linked(Chain(old')) /\ Linked(Chain(data'))
  BY <1>1, <1>3, TouchSteady DEF IInv
<1>8. Fits(wal', data')
  BY <1>5, <1>7, NoLogFits
<1>9. \A q \in Process : Working(q)' => q = p
  BY <1>2, <1>5 DEF Inside, Working, IInv, Base, Typed, Guarded, Exclusive
<1>10. InStep(p)'
  <2>1. mem[p] = data /\ home[p] = "data"
    BY <1>1, <1>2 DEF InStep, ReplayApplies, MustReplay
  <2>2. mem'[p] = data' /\ home'[p] = "data"
    BY <1>3, <1>4, <1>5, <2>1 DEF IInv, Base, Typed
  <2>3. Len(mem'[p]) \in Nat /\ DOMAIN mem'[p] = 1..Len(mem'[p])
    BY <1>5 DEF IInv, Base, Typed
  <2>4. \A h \in DOMAIN data' : h <= Len(mem'[p]) + 1
    BY <2>2, <2>3
  <2> QED
    BY <2>2, <2>4 DEF InStep
<1> QED
  BY <1>7, <1>8, <1>9, <1>10 DEF Steady

(* So does the block of a commit.                                            *)
LEMMA CommitSteady ==
  ASSUME IInv, Base', NEW p \in Process, Commit(p), Sound', Sound
  PROVE  Steady'
<1>1. Working(p) /\ wal \in Block /\ Continues(wal, mem[p])
  BY DEF Commit, IInv, Base, Guarded, Working
<1>2. Inside(p) /\ InStep(p) /\ data # NoDir
  BY <1>1 DEF IInv, Steady, Working, Inside
<1>3. Writes(wal, "data") /\ home' = [home EXCEPT ![p] = "data"] /\ Left(p, wal)
  <2>1. Places(p) = {"data"}
    BY <1>2 DEF InStep, Places
  <2> QED
    BY <2>1 DEF Commit, Appends, Left
<1>4. data' = Add(data, wal)
  BY <1>3 DEF Writes
<1>5. /\ mem' = [mem EXCEPT ![p] = Append(mem[p], wal)] /\ pc' = [pc EXCEPT ![p] = "open"]
      /\ Append(mem[p], wal) = Add(mem[p], wal)
      /\ Append(mem[p], wal) \in Seq(Block)
      /\ Len(Append(mem[p], wal)) = Len(mem[p]) + 1
      /\ wal' = NoBlock \/ wal' = wal
  BY <1>1, GrownMemory DEF Commit, Serves, ClearWAL, IInv, Base
<1>6. \A h \in DOMAIN data : h \in Nat
  BY <1>2, ShelfIs DEF IInv, Base, Typed
<1>7. /\ data' # NoDir /\ Fits(wal, data')
      /\ Linked(Chain(old')) /\ Linked(Chain(data'))
  BY <1>1, <1>3, TouchSteady DEF IInv
<1>8. Fits(wal', data')
  BY <1>5, <1>7, NoLogFits
<1>9. \A q \in Process : Working(q)' => q = p
  BY <1>2, <1>5 DEF Inside, Working, IInv, Base, Typed, Guarded, Exclusive
<1>10. InStep(p)'
  <2>1. home'[p] = "data" /\ mem'[p] = Add(mem[p], wal) /\ pc'[p] = "open" /\ p \notin Compactor
    BY <1>3, <1>5 DEF IInv, Base, Typed, Guarded, Commit
  <2>2. /\ \A i \in DOMAIN mem[p] : i \in DOMAIN data /\ data[i] = mem[p][i]
        /\ \A h \in DOMAIN data : h <= Len(mem[p]) + 1
    BY <1>2 DEF InStep
  <2>3. ASSUME NEW i \in DOMAIN mem'[p] PROVE i \in DOMAIN data' /\ data'[i] = mem'[p][i]
    BY <1>4, <2>1, <2>2, <2>3 DEF Add
  <2>4. mem[p] \in Seq(Block) /\ Len(mem[p]) \in Nat /\ Len(mem'[p]) = Len(mem[p]) + 1
    BY <1>5 DEF IInv, Base, Typed
  <2>5. wal.height = Len(mem[p]) + 1
    BY <1>1 DEF Continues
  <2>6. ASSUME NEW h \in DOMAIN data' PROVE h <= Len(mem'[p]) + 1
    <3>1. h \in DOMAIN data \/ h = wal.height
      BY <1>4, <2>6 DEF Add
    <3>2. h \in DOMAIN data => h \in Nat /\ h <= Len(mem[p]) + 1
      BY <1>6, <2>2
    <3> QED
      BY <2>4, <2>5, <3>1, <3>2
  <2> QED
    BY <2>1, <2>3, <2>6 DEF InStep
<1> QED
  BY <1>7, <1>8, <1>9, <1>10 DEF Steady

(* The log was appended before it was refused: it fits all the same.         *)
LEMMA ReplayRejectedSteady ==
  ASSUME IInv, Base', NEW p \in Process, ReplayRejected(p), Sound', Sound
  PROVE  Steady'
<1>1. /\ Working(p) /\ Inside(p) /\ wal \in Block /\ Left(p, wal) /\ wal' = wal
      /\ pc' = [pc EXCEPT ![p] = "off"]
  BY DEF ReplayRejected, MustReplay, Leaves, Ends, Left, IInv, Base, Typed, Working, Inside
<1>2. \A q \in Process : ~Inside(q)' /\ ~Working(q)'
  BY <1>1, LeavesNobody DEF IInv
<1>3. /\ data' # NoDir /\ Fits(wal, data')
      /\ Linked(Chain(old')) /\ Linked(Chain(data'))
  BY <1>1, TouchSteady DEF IInv
<1> QED
  BY <1>1, <1>2, <1>3 DEF Steady

(* An append that fails leaves the chain or extends it.                      *)
LEMMA ReplayFailsSteady ==
  ASSUME IInv, Base', NEW p \in Process, ReplayFails(p), Sound', Sound
  PROVE  Steady'
<1>1. /\ Working(p) /\ Inside(p) /\ wal \in Block /\ Left(p, wal) /\ wal' = wal
      /\ pc' = [pc EXCEPT ![p] = "off"]
  BY DEF ReplayFails, MustReplay, Leaves, Ends, Left, IInv, Base, Typed, Working, Inside
<1>2. \A q \in Process : ~Inside(q)' /\ ~Working(q)'
  BY <1>1, LeavesNobody DEF IInv
<1>3. /\ data' # NoDir /\ Fits(wal, data')
      /\ Linked(Chain(old')) /\ Linked(Chain(data'))
  BY <1>1, TouchSteady DEF IInv
<1> QED
  BY <1>1, <1>2, <1>3 DEF Steady

(* A new log continues what the process holds, and fits what is there.       *)
LEMMA WriteWALSteady ==
  ASSUME IInv, Base', NEW p \in Process, WriteWAL(p), Sound', Sound
  PROVE  Steady'
<1>1. /\ Linked(Chain(data)) /\ Linked(Chain(old))
      /\ \A q \in Process : Inside(q) => data # NoDir
      /\ \A q \in Process : Working(q) => InStep(q)
  BY DEF IInv, Steady
<1>2. /\ UNCHANGED <<data, old, mem, home>> /\ pc[p] = "open"
      /\ pc' = [pc EXCEPT ![p] = "logged"] /\ wal' = NewBlock(p) /\ made < MaxBlocks
  BY DEF WriteWAL, Goes, dirs
<1>3. \A q \in Process : (Inside(q)' => Inside(q)) /\ (Working(q)' => Working(q))
  BY <1>2 DEF Inside, Working, IInv, Base, Typed
<1>4. ASSUME NEW q \in Process, Working(q)' PROVE InStep(q)'
  <2>1. InStep(q) /\ (pc'[q] = "loaded" => pc[q] = "loaded")
    BY <1>1, <1>2, <1>3, <1>4 DEF IInv, Base, Typed
  <2> QED
    BY <1>2, <2>1 DEF InStep
<1>5. Fits(wal', data)
  <2>1. InStep(p)
    BY <1>1, <1>2 DEF Working
  <2>2. wal'.height = Len(mem[p]) + 1 /\ wal'.prev = LastId(mem[p])
    BY <1>2, NewBlockIs DEF IInv, Base
  <2>3. mem[p] \in Seq(Block)
    BY DEF IInv, Base, Typed
  <2>4. /\ Len(mem[p]) \in Nat
        /\ Len(mem[p]) = 0 => LastId(mem[p]) = 0
        /\ Len(mem[p]) # 0 => Len(mem[p]) \in DOMAIN mem[p] /\ LastId(mem[p]) = mem[p][Len(mem[p])].id
    BY <2>3, LastIdIs
  <2>5. \A h \in DOMAIN data : h <= wal'.height
    BY <2>1, <2>2 DEF InStep
  <2>6. CASE Len(mem[p]) = 0
    BY <2>2, <2>4, <2>5, <2>6 DEF Fits
  <2>7. CASE Len(mem[p]) # 0
    <3>1. wal'.height # 1 /\ wal'.height - 1 = Len(mem[p])
      BY <2>2, <2>4, <2>7
    <3>2. Len(mem[p]) \in DOMAIN data /\ data[Len(mem[p])] = mem[p][Len(mem[p])]
      BY <2>1, <2>4, <2>7 DEF InStep
    <3> QED
      BY <2>2, <2>4, <2>5, <2>7, <3>1, <3>2 DEF Fits
  <2> QED
    BY <2>6, <2>7
<1> QED
  BY <1>1, <1>2, <1>3, <1>4, <1>5 DEF Steady

(* A commit that fails may leave one block on top.                           *)
LEMMA CommitFailsSteady ==
  ASSUME IInv, Base', NEW p \in Process, CommitFails(p), Sound', Sound
  PROVE  Steady'
<1>1. Working(p) /\ wal \in Block /\ Continues(wal, mem[p]) /\ pc[p] = "logged" /\ p \notin Compactor
  BY DEF CommitFails, Goes, IInv, Base, Guarded, Working
<1>2. Inside(p) /\ InStep(p) /\ data # NoDir
  BY <1>1 DEF IInv, Steady, Working, Inside
<1>3. home' = [home EXCEPT ![p] = "data"] /\ Left(p, wal)
  <2>1. Places(p) = {"data"} /\ home[p] = "data"
    BY <1>2 DEF InStep, Places
  <2> QED
    BY <1>2, <2>1 DEF CommitFails, AppendFails, Left
<1>4. UNCHANGED <<wal, mem>> /\ pc' = [pc EXCEPT ![p] = "open"]
  BY DEF CommitFails, Goes
<1>5. /\ data' \in {data, Add(data, wal)} /\ data' # NoDir /\ Fits(wal, data')
      /\ Linked(Chain(old')) /\ Linked(Chain(data'))
  BY <1>1, <1>3, TouchSteady DEF IInv
<1>6. \A q \in Process : Working(q)' => q = p
  BY <1>2, <1>4 DEF Inside, Working, IInv, Base, Typed, Guarded, Exclusive
<1>7. InStep(p)'
  <2>1. /\ home'[p] = "data" /\ pc'[p] = "open" /\ mem'[p] = mem[p]
        /\ \A i \in DOMAIN mem[p] : i \in DOMAIN data /\ data[i] = mem[p][i]
        /\ \A h \in DOMAIN data : h <= Len(mem[p]) + 1
    BY <1>2, <1>3, <1>4 DEF InStep, IInv, Base, Typed
  <2>2. Len(mem[p]) \in Nat /\ DOMAIN mem[p] = 1..Len(mem[p]) /\ wal.height = Len(mem[p]) + 1
    BY <1>1 DEF Continues, IInv, Base, Typed
  <2>3. \A i \in DOMAIN mem[p] : i # wal.height
    BY <2>2
  <2>4. \A i \in DOMAIN mem[p] : i \in DOMAIN data' /\ data'[i] = mem[p][i]
    BY <1>5, <2>1, <2>3 DEF Add
  <2>5. \A h \in DOMAIN data' : h \in DOMAIN data \/ h = wal.height
    BY <1>5 DEF Add
  <2>6. \A h \in DOMAIN data' : h <= Len(mem[p]) + 1
    BY <2>1, <2>2, <2>5
  <2> QED
    BY <1>1, <2>1, <2>4, <2>6 DEF InStep
<1> QED
  BY <1>4, <1>5, <1>6, <1>7 DEF Steady

(* A process that closes leaves things as they are.                          *)
LEMMA CloseSteady ==
  ASSUME IInv, Base', NEW p \in Process, Close(p), Sound', Sound
  PROVE  Steady'
<1>1. /\ UNCHANGED <<data, old, wal>> /\ Inside(p) /\ pc' = [pc EXCEPT ![p] = "off"]
  BY DEF Close, Leaves, Ends, dirs, Inside
<1>2. \A q \in Process : ~Inside(q)' /\ ~Working(q)'
  BY <1>1, LeavesNobody DEF IInv
<1>3. Linked(Chain(data)) /\ Linked(Chain(old)) /\ (data # NoDir => Fits(wal, data))
  BY DEF IInv, Steady
<1> QED
  BY <1>1, <1>2, <1>3 DEF Steady

(* Whoever dies, the chain is as it was or has the block of the log.         *)
LEMMA CrashSteady ==
  ASSUME IInv, Base', NEW p \in Process, Crash(p), Sound', Sound
  PROVE  Steady'
<1>1. wal' = wal /\ pc' = [pc EXCEPT ![p] = "off"] /\ home' = [home EXCEPT ![p] = "gone"]
      /\ mem' = [mem EXCEPT ![p] = <<>>]
  BY DEF Crash, Leaves, Ends
<1>2. CASE MustReplay(p) \/ pc[p] = "logged"
  <2>1. Working(p) /\ Inside(p) /\ wal \in Block /\ Left(p, wal)
    BY <1>2 DEF Crash, MustReplay, IInv, Base, Typed, Guarded, Working, Inside
  <2>2. \A q \in Process : ~Inside(q)' /\ ~Working(q)'
    BY <1>1, <2>1, LeavesNobody DEF IInv
  <2>3. /\ data' # NoDir /\ Fits(wal, data')
        /\ Linked(Chain(old')) /\ Linked(Chain(data'))
    BY <2>1, TouchSteady DEF IInv
  <2> QED
    BY <1>1, <2>2, <2>3 DEF Steady
<1>3. CASE ~(MustReplay(p) \/ pc[p] = "logged")
  <2>1. UNCHANGED <<data, old>>
    BY <1>3 DEF Crash
  <2>2. \A q \in Process : (Inside(q)' => Inside(q)) /\ (Working(q)' => q # p /\ Working(q))
    BY <1>1 DEF Inside, Working, IInv, Base, Typed
  <2>3. ASSUME NEW q \in Process, Working(q)' PROVE InStep(q)'
    <3>1. InStep(q) /\ pc'[q] = pc[q] /\ mem'[q] = mem[q] /\ home'[q] = home[q]
      BY <1>1, <2>2, <2>3 DEF IInv, Steady, Base, Typed
    <3> QED
      BY <2>1, <3>1 DEF InStep
  <2> QED
    BY <1>1, <2>1, <2>2, <2>3 DEF IInv, Steady
<1> QED
  BY <1>2, <1>3

(* A compaction that closes is outside.                                      *)
LEMMA CopyBlocksSteady ==
  ASSUME IInv, Base', NEW c \in Compactor, CopyBlocks(c), Sound', Sound
  PROVE  Steady'
<1>0. c \in Process
  BY DEF Process
<1>1. /\ UNCHANGED <<data, wal>> /\ (old' = old \/ old' = NoDir)
      /\ \A q \in Process : home[q] = "data" /\ q # c => home'[q] = "data"
      /\ \A q \in Process : q # c => mem'[q] = mem[q] /\ pc'[q] = pc[q]
      /\ pc'[c] = "copied"
  BY <1>0 DEF CopyBlocks, Goes, dirs, IInv, Base, Typed
<1>2. \A q \in Process : (Inside(q)' => Inside(q)) /\ (Working(q)' => q # c /\ Working(q))
  BY <1>1 DEF Inside, Working
<1>3. ASSUME NEW q \in Process, Working(q)' PROVE InStep(q)'
  <2>1. InStep(q) /\ q # c
    BY <1>2, <1>3 DEF IInv, Steady
  <2> QED
    BY <1>1, <2>1 DEF InStep
<1>4. Linked(Chain(old'))
  <2>1. Linked(Chain(NoDir))
    BY DEF Linked, Chain
  <2> QED
    BY <1>1, <2>1 DEF IInv, Steady
<1> QED
  BY <1>1, <1>2, <1>3, <1>4 DEF IInv, Steady

(* The scratch directory is nobody's database.                               *)
LEMMA WipeSteady ==
  ASSUME IInv, Base', NEW c \in Compactor, Wipe(c), Sound', Sound
  PROVE  Steady'
<1>0. c \in Process
  BY DEF Process
<1>1. /\ UNCHANGED <<data, wal>> /\ (old' = old \/ old' = NoDir)
      /\ \A q \in Process : home[q] = "data" /\ q # c => home'[q] = "data"
      /\ \A q \in Process : q # c => mem'[q] = mem[q] /\ pc'[q] = pc[q]
      /\ pc'[c] = "wiped"
  BY <1>0 DEF Wipe, Goes, IInv, Base, Typed
<1>2. \A q \in Process : (Inside(q)' => Inside(q)) /\ (Working(q)' => q # c /\ Working(q))
  BY <1>1 DEF Inside, Working
<1>3. ASSUME NEW q \in Process, Working(q)' PROVE InStep(q)'
  <2>1. InStep(q) /\ q # c
    BY <1>2, <1>3 DEF IInv, Steady
  <2> QED
    BY <1>1, <2>1 DEF InStep
<1>4. Linked(Chain(old'))
  <2>1. Linked(Chain(NoDir))
    BY DEF Linked, Chain
  <2> QED
    BY <1>1, <2>1 DEF IInv, Steady
<1> QED
  BY <1>1, <1>2, <1>3, <1>4 DEF IInv, Steady

(* The same.                                                                 *)
LEMMA RebuildSteady ==
  ASSUME IInv, Base', NEW c \in Compactor, Rebuild(c), Sound', Sound
  PROVE  Steady'
<1>0. c \in Process
  BY DEF Process
<1>1. /\ UNCHANGED <<data, wal>> /\ (old' = old \/ old' = NoDir)
      /\ \A q \in Process : home[q] = "data" /\ q # c => home'[q] = "data"
      /\ \A q \in Process : q # c => mem'[q] = mem[q] /\ pc'[q] = pc[q]
      /\ pc'[c] = "rebuilt"
  BY <1>0 DEF Rebuild, Goes, IInv, Base, Typed
<1>2. \A q \in Process : (Inside(q)' => Inside(q)) /\ (Working(q)' => q # c /\ Working(q))
  BY <1>1 DEF Inside, Working
<1>3. ASSUME NEW q \in Process, Working(q)' PROVE InStep(q)'
  <2>1. InStep(q) /\ q # c
    BY <1>2, <1>3 DEF IInv, Steady
  <2> QED
    BY <1>1, <2>1 DEF InStep
<1>4. Linked(Chain(old'))
  <2>1. Linked(Chain(NoDir))
    BY DEF Linked, Chain
  <2> QED
    BY <1>1, <2>1 DEF IInv, Steady
<1> QED
  BY <1>1, <1>2, <1>3, <1>4 DEF IInv, Steady

(* The same.                                                                 *)
LEMMA RebuildFailsSteady ==
  ASSUME IInv, Base', NEW c \in Compactor, RebuildFails(c), Sound', Sound
  PROVE  Steady'
<1>0. c \in Process
  BY DEF Process
<1>1. /\ UNCHANGED <<data, wal>> /\ (old' = old \/ old' = NoDir)
      /\ \A q \in Process : home[q] = "data" /\ q # c => home'[q] = "data"
      /\ \A q \in Process : q # c => mem'[q] = mem[q] /\ pc'[q] = pc[q]
      /\ pc'[c] = "off"
  BY <1>0 DEF RebuildFails, Ends, IInv, Base, Typed
<1>2. \A q \in Process : (Inside(q)' => Inside(q)) /\ (Working(q)' => q # c /\ Working(q))
  BY <1>1 DEF Inside, Working
<1>3. ASSUME NEW q \in Process, Working(q)' PROVE InStep(q)'
  <2>1. InStep(q) /\ q # c
    BY <1>2, <1>3 DEF IInv, Steady
  <2> QED
    BY <1>1, <2>1 DEF InStep
<1>4. Linked(Chain(old'))
  <2>1. Linked(Chain(NoDir))
    BY DEF Linked, Chain
  <2> QED
    BY <1>1, <2>1 DEF IInv, Steady
<1> QED
  BY <1>1, <1>2, <1>3, <1>4 DEF IInv, Steady

(* The same.                                                                 *)
LEMMA CheckSteady ==
  ASSUME IInv, Base', NEW c \in Compactor, Check(c), Sound', Sound
  PROVE  Steady'
<1>0. c \in Process
  BY DEF Process
<1>1. /\ UNCHANGED <<data, wal>> /\ (old' = old \/ old' = NoDir)
      /\ \A q \in Process : home[q] = "data" /\ q # c => home'[q] = "data"
      /\ \A q \in Process : q # c => mem'[q] = mem[q] /\ pc'[q] = pc[q]
      /\ pc'[c] = "checked"
  BY <1>0 DEF Check, Goes, IInv, Base, Typed
<1>2. \A q \in Process : (Inside(q)' => Inside(q)) /\ (Working(q)' => q # c /\ Working(q))
  BY <1>1 DEF Inside, Working
<1>3. ASSUME NEW q \in Process, Working(q)' PROVE InStep(q)'
  <2>1. InStep(q) /\ q # c
    BY <1>2, <1>3 DEF IInv, Steady
  <2> QED
    BY <1>1, <2>1 DEF InStep
<1>4. Linked(Chain(old'))
  <2>1. Linked(Chain(NoDir))
    BY DEF Linked, Chain
  <2> QED
    BY <1>1, <2>1 DEF IInv, Steady
<1> QED
  BY <1>1, <1>2, <1>3, <1>4 DEF IInv, Steady

(* The same.                                                                 *)
LEMMA CheckFailsSteady ==
  ASSUME IInv, Base', NEW c \in Compactor, CheckFails(c), Sound', Sound
  PROVE  Steady'
<1>0. c \in Process
  BY DEF Process
<1>1. /\ UNCHANGED <<data, wal>> /\ (old' = old \/ old' = NoDir)
      /\ \A q \in Process : home[q] = "data" /\ q # c => home'[q] = "data"
      /\ \A q \in Process : q # c => mem'[q] = mem[q] /\ pc'[q] = pc[q]
      /\ pc'[c] = "off"
  BY <1>0 DEF CheckFails, Ends, dirs, IInv, Base, Typed
<1>2. \A q \in Process : (Inside(q)' => Inside(q)) /\ (Working(q)' => q # c /\ Working(q))
  BY <1>1 DEF Inside, Working
<1>3. ASSUME NEW q \in Process, Working(q)' PROVE InStep(q)'
  <2>1. InStep(q) /\ q # c
    BY <1>2, <1>3 DEF IInv, Steady
  <2> QED
    BY <1>1, <2>1 DEF InStep
<1>4. Linked(Chain(old'))
  <2>1. Linked(Chain(NoDir))
    BY DEF Linked, Chain
  <2> QED
    BY <1>1, <2>1 DEF IInv, Steady
<1> QED
  BY <1>1, <1>2, <1>3, <1>4 DEF IInv, Steady

(* data stays where it is.                                                   *)
LEMMA MoveAsideFailsSteady ==
  ASSUME IInv, Base', NEW c \in Compactor, MoveAsideFails(c), Sound', Sound
  PROVE  Steady'
<1>0. c \in Process
  BY DEF Process
<1>1. /\ UNCHANGED <<data, wal>> /\ (old' = old \/ old' = NoDir)
      /\ \A q \in Process : home[q] = "data" /\ q # c => home'[q] = "data"
      /\ \A q \in Process : q # c => mem'[q] = mem[q] /\ pc'[q] = pc[q]
      /\ pc'[c] = "off"
  BY <1>0 DEF MoveAsideFails, Ends, Moves, IInv, Base, Typed
<1>2. \A q \in Process : (Inside(q)' => Inside(q)) /\ (Working(q)' => q # c /\ Working(q))
  BY <1>1 DEF Inside, Working
<1>3. ASSUME NEW q \in Process, Working(q)' PROVE InStep(q)'
  <2>1. InStep(q) /\ q # c
    BY <1>2, <1>3 DEF IInv, Steady
  <2> QED
    BY <1>1, <2>1 DEF InStep
<1>4. Linked(Chain(old'))
  <2>1. Linked(Chain(NoDir))
    BY DEF Linked, Chain
  <2> QED
    BY <1>1, <2>1 DEF IInv, Steady
<1> QED
  BY <1>1, <1>2, <1>3, <1>4 DEF IInv, Steady

(* So it does at the end.                                                    *)
LEMMA CleanUpSteady ==
  ASSUME IInv, Base', NEW c \in Compactor, CleanUp(c), Sound', Sound
  PROVE  Steady'
<1>0. c \in Process
  BY DEF Process
<1>1. /\ UNCHANGED <<data, wal>> /\ (old' = old \/ old' = NoDir)
      /\ \A q \in Process : home[q] = "data" /\ q # c => home'[q] = "data"
      /\ \A q \in Process : q # c => mem'[q] = mem[q] /\ pc'[q] = pc[q]
      /\ pc'[c] = "off"
  BY <1>0 DEF CleanUp, Ends, Moves, IInv, Base, Typed
<1>2. \A q \in Process : (Inside(q)' => Inside(q)) /\ (Working(q)' => q # c /\ Working(q))
  BY <1>1 DEF Inside, Working
<1>3. ASSUME NEW q \in Process, Working(q)' PROVE InStep(q)'
  <2>1. InStep(q) /\ q # c
    BY <1>2, <1>3 DEF IInv, Steady
  <2> QED
    BY <1>1, <2>1 DEF InStep
<1>4. Linked(Chain(old'))
  <2>1. Linked(Chain(NoDir))
    BY DEF Linked, Chain
  <2> QED
    BY <1>1, <2>1 DEF IInv, Steady
<1> QED
  BY <1>1, <1>2, <1>3, <1>4 DEF IInv, Steady

(* The first rename finds nobody inside.                                     *)
LEMMA MoveAsideSteady ==
  ASSUME IInv, Base', NEW c \in Compactor, MoveAside(c), Sound', Sound
  PROVE  Steady'
<1>0. c \in Process
  BY DEF Process
<1>1. /\ pc[c] = "checked" /\ pc' = [pc EXCEPT ![c] = "moved"]
      /\ old' = data /\ data' = NoDir /\ UNCHANGED <<wal, calm, single, mem>>
      /\ clear' = (clear /\ ~lock /\ wal = NoBlock)
  BY DEF MoveAside, Goes
<1>2. \A q \in Process : ~Inside(q)
  <2>1. CASE calm
    BY <1>0, <1>1, <2>1 DEF IInv, Undisturbed, Unlocked, Inside
  <2>2. CASE clear'
    BY <1>1, <2>2 DEF IInv, Base, Typed, Guarded
  <2> QED
    BY <1>1, <2>1, <2>2 DEF Sound
<1>3. \A q \in Process : ~Inside(q)' /\ ~Working(q)'
  BY <1>1, <1>2 DEF Inside, Working, IInv, Base, Typed
<1>4. Linked(Chain(data')) /\ Linked(Chain(old'))
  BY <1>1 DEF IInv, Steady, Linked, Chain
<1> QED
  BY <1>1, <1>3, <1>4 DEF Steady

(* The second rename finds nobody inside, and no log but the chain's own.    *)
LEMMA MoveInSteady ==
  ASSUME IInv, Base', NEW c \in Compactor, MoveIn(c), Sound', Sound
  PROVE  Steady'
<1>0. c \in Process
  BY DEF Process
<1>1. /\ pc[c] = "moved" /\ pc' = [pc EXCEPT ![c] = "swapped"]
      /\ data = NoDir /\ tmp # NoDir /\ data' = tmp /\ UNCHANGED <<old, wal, calm, single, clear>>
  BY DEF MoveIn, Goes, hist
<1>2. \A q \in Process : ~Inside(q)' /\ ~Working(q)'
  BY <1>0, <1>1 DEF Inside, Working, IInv, Base, Typed, Steady
<1>3. Linked(Chain(tmp)) /\ Fits(wal, tmp)
  <2>1. CASE calm
    <3>1. tmp = old /\ Fits(wal, old)
      BY <1>0, <1>1, <2>1 DEF IInv, Undisturbed, Unlocked, Copying
    <3> QED
      BY <3>1 DEF IInv, Steady
  <2>2. CASE single /\ clear
    <3>1. Linked(Chain(tmp)) /\ wal = NoBlock
      BY <1>1, <2>2 DEF IInv, Unmixed
    <3> QED
      BY <3>1, NoLogFits
  <2> QED
    BY <2>1, <2>2 DEF Sound
<1> QED
  BY <1>1, <1>2, <1>3 DEF IInv, Steady

(* So does the rename that undoes the first one.                             *)
LEMMA MoveInFailsSteady ==
  ASSUME IInv, Base', NEW c \in Compactor, MoveInFails(c), Sound', Sound
  PROVE  Steady'
<1>0. c \in Process
  BY DEF Process
<1>1. /\ pc[c] = "moved" /\ pc' = [pc EXCEPT ![c] = "off"]
      /\ mem' = [mem EXCEPT ![c] = <<>>] /\ UNCHANGED <<wal, single, clear>>
  BY DEF MoveInFails, Ends
<1>2. CASE data = NoDir /\ data' = old /\ old' = NoDir /\ calm' = calm
  <2>1. \A q \in Process : ~Inside(q)' /\ ~Working(q)'
    BY <1>0, <1>1, <1>2 DEF Inside, Working, IInv, Base, Typed, Steady
  <2>2. Fits(wal, old)
    <3>1. CASE calm
      BY <1>0, <1>1, <3>1 DEF IInv, Undisturbed, Unlocked, Copying
    <3>2. CASE single /\ clear
      <4>1. wal = NoBlock
        BY <1>2, <3>2 DEF IInv, Unmixed
      <4> QED
        BY <4>1, NoLogFits
    <3> QED
      BY <3>1, <3>2 DEF Sound
  <2>3. Linked(Chain(NoDir)) /\ Linked(Chain(old))
    BY DEF IInv, Steady, Linked, Chain
  <2> QED
    BY <1>1, <1>2, <2>1, <2>2, <2>3 DEF Steady
<1>3. CASE UNCHANGED <<data, old, home>>
  <2>1. \A q \in Process : (Inside(q)' => Inside(q)) /\ (Working(q)' => q # c /\ Working(q))
    BY <1>0, <1>1 DEF Inside, Working, IInv, Base, Typed
  <2>2. ASSUME NEW q \in Process, Working(q)' PROVE InStep(q)'
    <3>1. InStep(q) /\ pc'[q] = pc[q] /\ mem'[q] = mem[q]
      BY <1>0, <1>1, <2>1, <2>2 DEF IInv, Steady, Base, Typed
    <3> QED
      BY <1>3, <3>1 DEF InStep
  <2> QED
    BY <1>1, <1>3, <2>1, <2>2 DEF IInv, Steady
<1> QED
  BY <1>2, <1>3 DEF MoveInFails

(* Every step of one process at a time keeps the chain and its log together. *)
LEMMA NextSteady ==
  ASSUME IInv, [Next]_vars
  PROVE  Steady'
<1>0. SUFFICES ASSUME Sound' PROVE Steady'
  BY DEF Steady
<1>4. Base' /\ Sound
  BY <1>0, NextBase, HistoryShrinks DEF IInv, Base
<1>1. ASSUME NEW p \in Process,
             TakeLock(p) \/ LockRefused(p) \/ Load(p) \/ LoadFails(p)
               \/ ReplayNothing(p) \/ ReplayApplies(p) \/ ReplayRejected(p) \/ ReplayFails(p)
               \/ WriteWAL(p) \/ Commit(p) \/ CommitFails(p) \/ Close(p) \/ Crash(p)
      PROVE  Steady'
  BY <1>0, <1>1, <1>4, TakeLockSteady, LockRefusedSteady, LoadSteady, LoadFailsSteady,
     ReplayNothingSteady, ReplayAppliesSteady, ReplayRejectedSteady, ReplayFailsSteady,
     WriteWALSteady, CommitSteady, CommitFailsSteady, CloseSteady, CrashSteady
<1>2. ASSUME NEW c \in Compactor,
             CopyBlocks(c) \/ Wipe(c) \/ Rebuild(c) \/ RebuildFails(c)
               \/ Check(c) \/ CheckFails(c) \/ MoveAside(c) \/ MoveAsideFails(c)
               \/ MoveIn(c) \/ MoveInFails(c) \/ CleanUp(c)
      PROVE  Steady'
  BY <1>0, <1>2, <1>4, CopyBlocksSteady, WipeSteady, RebuildSteady, RebuildFailsSteady,
     CheckSteady, CheckFailsSteady, MoveAsideSteady, MoveAsideFailsSteady, MoveInSteady,
     MoveInFailsSteady, CleanUpSteady
<1>3. CASE Unlock \/ UNCHANGED vars
  BY <1>0, <1>3 DEF Unlock, vars, hist, dirs, IInv, Steady, Sound, Inside, Working, InStep
<1> QED
  BY <1>1, <1>2, <1>3 DEF Next

-------------------------------------------------------------------------------
(* One compaction at a time *)

(* The empty database *)
LEMMA InitUnmixed == Init => Unmixed
BY DEF Init, Unmixed, Unlocked, Process

(* What a process that is not compacting does leaves the scratch directory   *)
(* alone, and data does not come or go under a log.                          *)
LEMMA ProcessUnmixed ==
  ASSUME IInv, NEW p \in Process, single' /\ clear' => single /\ clear,
         data' = NoDir => data = NoDir /\ (data = NoDir => wal' = wal \/ wal' = NoBlock),
         tmp' = tmp, NEW phase \in Phase, pc' = [pc EXCEPT ![p] = phase],
         phase \in {"off", "locked", "loaded", "open", "logged"}
  PROVE  Unmixed'
<1> SUFFICES ASSUME single', clear' PROVE Unmixed'
  BY DEF Unmixed
<1>1. /\ data = NoDir => wal = NoBlock
      /\ \A c, d \in Compactor : Unlocked(c) /\ Unlocked(d) => c = d
      /\ \A c \in Compactor : pc[c] \in {"checked", "moved"} => Linked(Chain(tmp))
  BY DEF IInv, Unmixed
<1>2. \A c \in Compactor : /\ Unlocked(c)' => Unlocked(c)
                           /\ pc'[c] \in {"checked", "moved"} => pc[c] \in {"checked", "moved"}
  BY DEF Unlocked, Process, IInv, Base, Typed
<1>3. data' = NoDir => wal' = NoBlock
  BY <1>1
<1>4. \A c, d \in Compactor : Unlocked(c)' /\ Unlocked(d)' => c = d
  BY <1>1, <1>2
<1>5. \A c \in Compactor : pc'[c] \in {"checked", "moved"} => Linked(Chain(tmp'))
  BY <1>1, <1>2
<1> QED
  BY <1>3, <1>4, <1>5 DEF Unmixed

(* data is created.                                                          *)
LEMMA TakeLockUnmixed ==
  ASSUME IInv, Base', NEW p \in Process, TakeLock(p), single' /\ clear' => single /\ clear
  PROVE  Unmixed'
<1>1. data' # NoDir /\ tmp' = tmp /\ pc' = [pc EXCEPT ![p] = "locked"]
  BY Known DEF TakeLock, MakeData, IInv, Base
<1> QED
  BY <1>1, ProcessUnmixed DEF Phase

(* data is created.                                                          *)
LEMMA LockRefusedUnmixed ==
  ASSUME IInv, Base', NEW p \in Process, LockRefused(p), single' /\ clear' => single /\ clear
  PROVE  Unmixed'
<1>1. data' # NoDir /\ tmp' = tmp /\ pc' = [pc EXCEPT ![p] = "off"]
  BY Known DEF LockRefused, Starts, MakeData, IInv, Base, Typed
<1> QED
  BY <1>1, ProcessUnmixed DEF Phase

(* data is read.                                                             *)
LEMMA LoadUnmixed ==
  ASSUME IInv, Base', NEW p \in Process, Load(p), single' /\ clear' => single /\ clear
  PROVE  Unmixed'
<1>1. /\ tmp' = tmp /\ data' = data /\ (wal' = wal \/ wal' = NoBlock)
      /\ pc' = [pc EXCEPT ![p] = "loaded"]
  BY DEF Load, Goes, dirs
<1> QED
  BY <1>1, ProcessUnmixed DEF Phase

(* Nothing changes on disk.                                                  *)
LEMMA LoadFailsUnmixed ==
  ASSUME IInv, Base', NEW p \in Process, LoadFails(p), single' /\ clear' => single /\ clear
  PROVE  Unmixed'
<1>1. /\ tmp' = tmp /\ data' = data /\ (wal' = wal \/ wal' = NoBlock)
      /\ pc' = [pc EXCEPT ![p] = "off"]
  BY DEF LoadFails, Ends, dirs
<1> QED
  BY <1>1, ProcessUnmixed DEF Phase

(* The log goes or stays.                                                    *)
LEMMA ReplayNothingUnmixed ==
  ASSUME IInv, Base', NEW p \in Process, ReplayNothing(p), single' /\ clear' => single /\ clear
  PROVE  Unmixed'
<1>1. /\ tmp' = tmp /\ data' = data /\ (wal' = wal \/ wal' = NoBlock)
      /\ pc' = [pc EXCEPT ![p] = "open"]
  BY DEF ReplayNothing, Serves, ClearWAL, dirs
<1> QED
  BY <1>1, ProcessUnmixed DEF Phase

(* The log goes or stays.                                                    *)
LEMMA ReplayAppliesUnmixed ==
  ASSUME IInv, Base', NEW p \in Process, ReplayApplies(p), single' /\ clear' => single /\ clear
  PROVE  Unmixed'
<1>1. /\ tmp' = tmp /\ (wal' = wal \/ wal' = NoBlock) /\ pc' = [pc EXCEPT ![p] = "open"]
  BY DEF ReplayApplies, Appends, Serves, ClearWAL
<1>2. data' = NoDir => data = NoDir
  <2>1. wal \in Block /\ \E place \in Places(p) : Writes(wal, place)
    BY DEF ReplayApplies, MustReplay, Appends, IInv, Base, Typed
  <2> QED
    BY <2>1, WritesBase DEF IInv, Base
<1> QED
  BY <1>1, <1>2, ProcessUnmixed DEF Phase

(* The log stays.                                                            *)
LEMMA ReplayRejectedUnmixed ==
  ASSUME IInv, Base', NEW p \in Process, ReplayRejected(p), single' /\ clear' => single /\ clear
  PROVE  Unmixed'
<1>1. /\ tmp' = tmp /\ (wal' = wal \/ wal' = NoBlock) /\ pc' = [pc EXCEPT ![p] = "off"]
  BY DEF ReplayRejected, Leaves, Ends
<1>2. data' = NoDir => data = NoDir
  <2>1. wal \in Block /\ \E place \in Places(p) : Writes(wal, place)
    BY DEF ReplayRejected, MustReplay, IInv, Base, Typed
  <2> QED
    BY <2>1, WritesBase DEF IInv, Base
<1> QED
  BY <1>1, <1>2, ProcessUnmixed DEF Phase

(* The log stays.                                                            *)
LEMMA ReplayFailsUnmixed ==
  ASSUME IInv, Base', NEW p \in Process, ReplayFails(p), single' /\ clear' => single /\ clear
  PROVE  Unmixed'
<1>1. /\ tmp' = tmp /\ (wal' = wal \/ wal' = NoBlock) /\ pc' = [pc EXCEPT ![p] = "off"]
  BY DEF ReplayFails, Leaves, Ends
<1>2. data' = NoDir => data = NoDir
  <2>1. wal \in Block /\ Left(p, wal)
    BY DEF ReplayFails, MustReplay, Left, IInv, Base, Typed
  <2> QED
    BY <2>1, LeftBase DEF IInv, Base
<1> QED
  BY <1>1, <1>2, ProcessUnmixed DEF Phase

(* A log is written in a directory that is there.                            *)
LEMMA WriteWALUnmixed ==
  ASSUME IInv, Base', NEW p \in Process, WriteWAL(p), single' /\ clear' => single /\ clear
  PROVE  Unmixed'
<1>1. tmp' = tmp /\ data' = data /\ pc' = [pc EXCEPT ![p] = "logged"] /\ Inside(p)
  BY DEF WriteWAL, Goes, dirs, Inside
<1>2. single' /\ clear' => data # NoDir
  BY <1>1 DEF IInv, Steady, Sound
<1> SUFFICES ASSUME single' /\ clear' PROVE Unmixed'
  BY DEF Unmixed
<1> QED
  BY <1>1, <1>2, ProcessUnmixed DEF Phase

(* The log goes or stays.                                                    *)
LEMMA CommitUnmixed ==
  ASSUME IInv, Base', NEW p \in Process, Commit(p), single' /\ clear' => single /\ clear
  PROVE  Unmixed'
<1>1. /\ tmp' = tmp /\ (wal' = wal \/ wal' = NoBlock) /\ pc' = [pc EXCEPT ![p] = "open"]
  BY DEF Commit, Appends, Serves, ClearWAL
<1>2. data' = NoDir => data = NoDir
  <2>1. wal \in Block /\ \E place \in Places(p) : Writes(wal, place)
    BY DEF Commit, Appends, IInv, Base, Guarded
  <2> QED
    BY <2>1, WritesBase DEF IInv, Base
<1> QED
  BY <1>1, <1>2, ProcessUnmixed DEF Phase

(* The log stays.                                                            *)
LEMMA CommitFailsUnmixed ==
  ASSUME IInv, Base', NEW p \in Process, CommitFails(p), single' /\ clear' => single /\ clear
  PROVE  Unmixed'
<1>1. /\ tmp' = tmp /\ (wal' = wal \/ wal' = NoBlock) /\ pc' = [pc EXCEPT ![p] = "open"]
  BY DEF CommitFails, Goes
<1>2. data' = NoDir => data = NoDir
  <2>1. wal \in Block
    BY DEF CommitFails, Goes, IInv, Base, Guarded
  <2>2. UNCHANGED data \/ \E place \in Places(p) : Writes(wal, place)
    BY DEF CommitFails, AppendFails
  <2> QED
    BY <2>1, <2>2, WritesBase DEF IInv, Base
<1> QED
  BY <1>1, <1>2, ProcessUnmixed DEF Phase

(* Nothing changes on disk but LOCK.                                         *)
LEMMA CloseUnmixed ==
  ASSUME IInv, Base', NEW p \in Process, Close(p), single' /\ clear' => single /\ clear
  PROVE  Unmixed'
<1>1. /\ tmp' = tmp /\ data' = data /\ (wal' = wal \/ wal' = NoBlock)
      /\ pc' = [pc EXCEPT ![p] = "off"]
  BY DEF Close, Leaves, Ends, dirs
<1> QED
  BY <1>1, ProcessUnmixed DEF Phase

(* The log stays.                                                            *)
LEMMA CrashUnmixed ==
  ASSUME IInv, Base', NEW p \in Process, Crash(p), single' /\ clear' => single /\ clear
  PROVE  Unmixed'
<1>1. /\ tmp' = tmp /\ (wal' = wal \/ wal' = NoBlock) /\ pc' = [pc EXCEPT ![p] = "off"]
  BY DEF Crash, Leaves, Ends
<1>2. data' = NoDir => data = NoDir
  <2>1. CASE MustReplay(p) \/ pc[p] = "logged"
    <3>1. wal \in Block /\ Left(p, wal)
      BY <2>1 DEF Crash, MustReplay, IInv, Base, Typed, Guarded
    <3> QED
      BY <3>1, LeftBase DEF IInv, Base
  <2>2. CASE ~(MustReplay(p) \/ pc[p] = "logged")
    BY <2>2 DEF Crash
  <2> QED
    BY <2>1, <2>2
<1> QED
  BY <1>1, <1>2, ProcessUnmixed DEF Phase

(* No other compaction is past its Close.                                    *)
LEMMA CopyBlocksUnmixed ==
  ASSUME IInv, Base', NEW c \in Compactor, CopyBlocks(c), single' /\ clear' => single /\ clear
  PROVE  Unmixed'
<1>0. c \in Process
  BY DEF Process
<1> SUFFICES ASSUME single', clear' PROVE Unmixed'
  BY DEF Unmixed
<1>1. pc[c] = "open" /\ pc' = [pc EXCEPT ![c] = "copied"]
  BY DEF CopyBlocks, Goes, dirs
<1>2. /\ data = NoDir => wal = NoBlock
      /\ \A d, e \in Compactor : Unlocked(d) /\ Unlocked(e) => d = e
      /\ \A d \in Compactor : pc[d] \in {"checked", "moved"} => Linked(Chain(tmp))
  BY DEF IInv, Unmixed
<1>3. \A d, e \in Compactor : Unlocked(d)' /\ Unlocked(e)' => d = e
  <2>1. \A d \in Compactor : ~Unlocked(d)
    BY DEF CopyBlocks, IInv, Base, Typed
  <2>2. \A d \in Compactor : Unlocked(d)' => d = c
    BY <1>0, <1>1, <2>1 DEF Unlocked, Process, IInv, Base, Typed
  <2> QED
    BY <2>2
<1>4. \A d \in Compactor : pc'[d] \in {"checked", "moved"} => Linked(Chain(tmp'))
  BY <1>0, <1>1, <1>2 DEF CopyBlocks, dirs, Process, IInv, Base, Typed
<1>5. data' = NoDir => wal' = NoBlock
  BY <1>2 DEF CopyBlocks, dirs
<1> QED
  BY <1>3, <1>4, <1>5 DEF Unmixed

(* The scratch directory is this compaction's.                               *)
LEMMA WipeUnmixed ==
  ASSUME IInv, Base', NEW c \in Compactor, Wipe(c), single' /\ clear' => single /\ clear
  PROVE  Unmixed'
<1>0. c \in Process
  BY DEF Process
<1> SUFFICES ASSUME single', clear' PROVE Unmixed'
  BY DEF Unmixed
<1>1. pc[c] = "copied" /\ pc' = [pc EXCEPT ![c] = "wiped"]
  BY DEF Wipe, Goes
<1>2. /\ data = NoDir => wal = NoBlock
      /\ \A d, e \in Compactor : Unlocked(d) /\ Unlocked(e) => d = e
      /\ \A d \in Compactor : pc[d] \in {"checked", "moved"} => Linked(Chain(tmp))
  BY DEF IInv, Unmixed
<1>3. \A d, e \in Compactor : Unlocked(d)' /\ Unlocked(e)' => d = e
  BY <1>0, <1>1, <1>2 DEF Unlocked, IInv, Base, Typed
<1>4. \A d \in Compactor : pc'[d] \in {"checked", "moved"} => Linked(Chain(tmp'))
  <2>1. \A d \in Compactor : pc'[d] \in {"checked", "moved"} => FALSE
    BY <1>0, <1>1, <1>2 DEF Unlocked, Process, IInv, Base, Typed
  <2> QED
    BY <2>1
<1>5. data' = NoDir => wal' = NoBlock
  BY <1>2 DEF Wipe, dirs
<1> QED
  BY <1>3, <1>4, <1>5 DEF Unmixed

(* It is not checked yet.                                                    *)
LEMMA RebuildUnmixed ==
  ASSUME IInv, Base', NEW c \in Compactor, Rebuild(c), single' /\ clear' => single /\ clear
  PROVE  Unmixed'
<1>0. c \in Process
  BY DEF Process
<1> SUFFICES ASSUME single', clear' PROVE Unmixed'
  BY DEF Unmixed
<1>1. pc[c] = "wiped" /\ pc' = [pc EXCEPT ![c] = "rebuilt"]
  BY DEF Rebuild, Goes
<1>2. /\ data = NoDir => wal = NoBlock
      /\ \A d, e \in Compactor : Unlocked(d) /\ Unlocked(e) => d = e
      /\ \A d \in Compactor : pc[d] \in {"checked", "moved"} => Linked(Chain(tmp))
  BY DEF IInv, Unmixed
<1>3. \A d, e \in Compactor : Unlocked(d)' /\ Unlocked(e)' => d = e
  BY <1>0, <1>1, <1>2 DEF Unlocked, IInv, Base, Typed
<1>4. \A d \in Compactor : pc'[d] \in {"checked", "moved"} => Linked(Chain(tmp'))
  <2>1. \A d \in Compactor : pc'[d] \in {"checked", "moved"} => FALSE
    BY <1>0, <1>1, <1>2 DEF Unlocked, Process, IInv, Base, Typed
  <2> QED
    BY <2>1
<1>5. data' = NoDir => wal' = NoBlock
  BY <1>2 DEF Rebuild, dirs
<1> QED
  BY <1>3, <1>4, <1>5 DEF Unmixed

(* Nor is it here.                                                           *)
LEMMA RebuildFailsUnmixed ==
  ASSUME IInv, Base', NEW c \in Compactor, RebuildFails(c), single' /\ clear' => single /\ clear
  PROVE  Unmixed'
<1>0. c \in Process
  BY DEF Process
<1> SUFFICES ASSUME single', clear' PROVE Unmixed'
  BY DEF Unmixed
<1>1. pc[c] = "wiped" /\ pc' = [pc EXCEPT ![c] = "off"]
  BY DEF RebuildFails, Ends
<1>2. /\ data = NoDir => wal = NoBlock
      /\ \A d, e \in Compactor : Unlocked(d) /\ Unlocked(e) => d = e
      /\ \A d \in Compactor : pc[d] \in {"checked", "moved"} => Linked(Chain(tmp))
  BY DEF IInv, Unmixed
<1>3. \A d, e \in Compactor : Unlocked(d)' /\ Unlocked(e)' => d = e
  BY <1>0, <1>1, <1>2 DEF Unlocked, IInv, Base, Typed
<1>4. \A d \in Compactor : pc'[d] \in {"checked", "moved"} => Linked(Chain(tmp'))
  <2>1. \A d \in Compactor : pc'[d] \in {"checked", "moved"} => FALSE
    BY <1>0, <1>1, <1>2 DEF Unlocked, Process, IInv, Base, Typed
  <2> QED
    BY <2>1
<1>5. data' = NoDir => wal' = NoBlock
  BY <1>2 DEF RebuildFails, dirs
<1> QED
  BY <1>3, <1>4, <1>5 DEF Unmixed

(* It is checked.                                                            *)
LEMMA CheckUnmixed ==
  ASSUME IInv, Base', NEW c \in Compactor, Check(c), single' /\ clear' => single /\ clear
  PROVE  Unmixed'
<1>0. c \in Process
  BY DEF Process
<1> SUFFICES ASSUME single', clear' PROVE Unmixed'
  BY DEF Unmixed
<1>1. pc[c] = "rebuilt" /\ pc' = [pc EXCEPT ![c] = "checked"]
  BY DEF Check, Goes
<1>2. /\ data = NoDir => wal = NoBlock
      /\ \A d, e \in Compactor : Unlocked(d) /\ Unlocked(e) => d = e
      /\ \A d \in Compactor : pc[d] \in {"checked", "moved"} => Linked(Chain(tmp))
  BY DEF IInv, Unmixed
<1>3. \A d, e \in Compactor : Unlocked(d)' /\ Unlocked(e)' => d = e
  BY <1>0, <1>1, <1>2 DEF Unlocked, IInv, Base, Typed
<1>4. \A d \in Compactor : pc'[d] \in {"checked", "moved"} => Linked(Chain(tmp'))
  <2>1. Linked(Chain(tmp)) /\ tmp' = Chain(tmp) /\ Chain(tmp) # NoDir
    BY Known DEF Check, IInv, Base
  <2> QED
    BY <2>1 DEF Chain
<1>5. data' = NoDir => wal' = NoBlock
  BY <1>2 DEF Check, dirs
<1> QED
  BY <1>3, <1>4, <1>5 DEF Unmixed

(* It is left behind.                                                        *)
LEMMA CheckFailsUnmixed ==
  ASSUME IInv, Base', NEW c \in Compactor, CheckFails(c), single' /\ clear' => single /\ clear
  PROVE  Unmixed'
<1>0. c \in Process
  BY DEF Process
<1> SUFFICES ASSUME single', clear' PROVE Unmixed'
  BY DEF Unmixed
<1>1. pc[c] = "rebuilt" /\ pc' = [pc EXCEPT ![c] = "off"]
  BY DEF CheckFails, Ends, dirs
<1>2. /\ data = NoDir => wal = NoBlock
      /\ \A d, e \in Compactor : Unlocked(d) /\ Unlocked(e) => d = e
      /\ \A d \in Compactor : pc[d] \in {"checked", "moved"} => Linked(Chain(tmp))
  BY DEF IInv, Unmixed
<1>3. \A d, e \in Compactor : Unlocked(d)' /\ Unlocked(e)' => d = e
  BY <1>0, <1>1, <1>2 DEF Unlocked, IInv, Base, Typed
<1>4. \A d \in Compactor : pc'[d] \in {"checked", "moved"} => Linked(Chain(tmp'))
  BY <1>0, <1>1, <1>2 DEF CheckFails, dirs, Process, IInv, Base, Typed
<1>5. data' = NoDir => wal' = NoBlock
  BY <1>2 DEF CheckFails, dirs
<1> QED
  BY <1>3, <1>4, <1>5 DEF Unmixed

(* No log is left behind.                                                    *)
LEMMA MoveAsideUnmixed ==
  ASSUME IInv, Base', NEW c \in Compactor, MoveAside(c), single' /\ clear' => single /\ clear
  PROVE  Unmixed'
<1>0. c \in Process
  BY DEF Process
<1> SUFFICES ASSUME single', clear' PROVE Unmixed'
  BY DEF Unmixed
<1>1. pc[c] = "checked" /\ pc' = [pc EXCEPT ![c] = "moved"]
  BY DEF MoveAside, Goes
<1>2. /\ data = NoDir => wal = NoBlock
      /\ \A d, e \in Compactor : Unlocked(d) /\ Unlocked(e) => d = e
      /\ \A d \in Compactor : pc[d] \in {"checked", "moved"} => Linked(Chain(tmp))
  BY DEF IInv, Unmixed
<1>3. \A d, e \in Compactor : Unlocked(d)' /\ Unlocked(e)' => d = e
  BY <1>0, <1>1, <1>2 DEF Unlocked, IInv, Base, Typed
<1>4. \A d \in Compactor : pc'[d] \in {"checked", "moved"} => Linked(Chain(tmp'))
  BY <1>0, <1>1, <1>2 DEF MoveAside, Process, IInv, Base, Typed
<1>5. data' = NoDir => wal' = NoBlock
  BY DEF MoveAside, IInv, Base, Typed
<1> QED
  BY <1>3, <1>4, <1>5 DEF Unmixed

(* data stays.                                                               *)
LEMMA MoveAsideFailsUnmixed ==
  ASSUME IInv, Base', NEW c \in Compactor, MoveAsideFails(c), single' /\ clear' => single /\ clear
  PROVE  Unmixed'
<1>0. c \in Process
  BY DEF Process
<1> SUFFICES ASSUME single', clear' PROVE Unmixed'
  BY DEF Unmixed
<1>1. pc[c] = "checked" /\ pc' = [pc EXCEPT ![c] = "off"]
  BY DEF MoveAsideFails, Ends
<1>2. /\ data = NoDir => wal = NoBlock
      /\ \A d, e \in Compactor : Unlocked(d) /\ Unlocked(e) => d = e
      /\ \A d \in Compactor : pc[d] \in {"checked", "moved"} => Linked(Chain(tmp))
  BY DEF IInv, Unmixed
<1>3. \A d, e \in Compactor : Unlocked(d)' /\ Unlocked(e)' => d = e
  BY <1>0, <1>1, <1>2 DEF Unlocked, IInv, Base, Typed
<1>4. \A d \in Compactor : pc'[d] \in {"checked", "moved"} => Linked(Chain(tmp'))
  BY <1>0, <1>1, <1>2 DEF MoveAsideFails, Process, IInv, Base, Typed
<1>5. data' = NoDir => wal' = NoBlock
  BY <1>2 DEF MoveAsideFails, dirs
<1> QED
  BY <1>3, <1>4, <1>5 DEF Unmixed

(* data comes back.                                                          *)
LEMMA MoveInUnmixed ==
  ASSUME IInv, Base', NEW c \in Compactor, MoveIn(c), single' /\ clear' => single /\ clear
  PROVE  Unmixed'
<1>0. c \in Process
  BY DEF Process
<1> SUFFICES ASSUME single', clear' PROVE Unmixed'
  BY DEF Unmixed
<1>1. pc[c] = "moved" /\ pc' = [pc EXCEPT ![c] = "swapped"]
  BY DEF MoveIn, Goes
<1>2. /\ data = NoDir => wal = NoBlock
      /\ \A d, e \in Compactor : Unlocked(d) /\ Unlocked(e) => d = e
      /\ \A d \in Compactor : pc[d] \in {"checked", "moved"} => Linked(Chain(tmp))
  BY DEF IInv, Unmixed
<1>3. \A d, e \in Compactor : Unlocked(d)' /\ Unlocked(e)' => d = e
  BY <1>0, <1>1, <1>2 DEF Unlocked, IInv, Base, Typed
<1>4. \A d \in Compactor : pc'[d] \in {"checked", "moved"} => Linked(Chain(tmp'))
  <2>1. \A d \in Compactor : pc'[d] \in {"checked", "moved"} => FALSE
    BY <1>0, <1>1, <1>2 DEF Unlocked, Process, IInv, Base, Typed
  <2> QED
    BY <2>1
<1>5. data' = NoDir => wal' = NoBlock
  BY DEF MoveIn
<1> QED
  BY <1>3, <1>4, <1>5 DEF Unmixed

(* data comes back, or stays away.                                           *)
LEMMA MoveInFailsUnmixed ==
  ASSUME IInv, Base', NEW c \in Compactor, MoveInFails(c), single' /\ clear' => single /\ clear
  PROVE  Unmixed'
<1>0. c \in Process
  BY DEF Process
<1> SUFFICES ASSUME single', clear' PROVE Unmixed'
  BY DEF Unmixed
<1>1. pc[c] = "moved" /\ pc' = [pc EXCEPT ![c] = "off"]
  BY DEF MoveInFails, Ends
<1>2. /\ data = NoDir => wal = NoBlock
      /\ \A d, e \in Compactor : Unlocked(d) /\ Unlocked(e) => d = e
      /\ \A d \in Compactor : pc[d] \in {"checked", "moved"} => Linked(Chain(tmp))
  BY DEF IInv, Unmixed
<1>3. \A d, e \in Compactor : Unlocked(d)' /\ Unlocked(e)' => d = e
  BY <1>0, <1>1, <1>2 DEF Unlocked, IInv, Base, Typed
<1>4. \A d \in Compactor : pc'[d] \in {"checked", "moved"} => Linked(Chain(tmp'))
  BY <1>0, <1>1, <1>2 DEF MoveInFails, Process, IInv, Base, Typed
<1>5. data' = NoDir => wal' = NoBlock
  BY <1>2 DEF MoveInFails
<1> QED
  BY <1>3, <1>4, <1>5 DEF Unmixed

(* The scratch directory goes.                                               *)
LEMMA CleanUpUnmixed ==
  ASSUME IInv, Base', NEW c \in Compactor, CleanUp(c), single' /\ clear' => single /\ clear
  PROVE  Unmixed'
<1>0. c \in Process
  BY DEF Process
<1> SUFFICES ASSUME single', clear' PROVE Unmixed'
  BY DEF Unmixed
<1>1. pc[c] = "swapped" /\ pc' = [pc EXCEPT ![c] = "off"]
  BY DEF CleanUp, Ends
<1>2. /\ data = NoDir => wal = NoBlock
      /\ \A d, e \in Compactor : Unlocked(d) /\ Unlocked(e) => d = e
      /\ \A d \in Compactor : pc[d] \in {"checked", "moved"} => Linked(Chain(tmp))
  BY DEF IInv, Unmixed
<1>3. \A d, e \in Compactor : Unlocked(d)' /\ Unlocked(e)' => d = e
  BY <1>0, <1>1, <1>2 DEF Unlocked, IInv, Base, Typed
<1>4. \A d \in Compactor : pc'[d] \in {"checked", "moved"} => Linked(Chain(tmp'))
  <2>1. \A d \in Compactor : pc'[d] \in {"checked", "moved"} => FALSE
    BY <1>0, <1>1, <1>2 DEF Unlocked, Process, IInv, Base, Typed
  <2> QED
    BY <2>1
<1>5. data' = NoDir => wal' = NoBlock
  BY <1>2 DEF CleanUp, dirs
<1> QED
  BY <1>3, <1>4, <1>5 DEF Unmixed

(* Every step keeps the scratch directory of the one compaction.             *)
LEMMA NextUnmixed ==
  ASSUME IInv, [Next]_vars
  PROVE  Unmixed'
<1>0. Base' /\ (single' /\ clear' => single /\ clear)
  BY NextBase, HistoryShrinks DEF IInv, Base
<1>1. ASSUME NEW p \in Process,
             TakeLock(p) \/ LockRefused(p) \/ Load(p) \/ LoadFails(p)
               \/ ReplayNothing(p) \/ ReplayApplies(p) \/ ReplayRejected(p) \/ ReplayFails(p)
               \/ WriteWAL(p) \/ Commit(p) \/ CommitFails(p) \/ Close(p) \/ Crash(p)
      PROVE  Unmixed'
  BY <1>0, <1>1, TakeLockUnmixed, LockRefusedUnmixed, LoadUnmixed, LoadFailsUnmixed,
     ReplayNothingUnmixed, ReplayAppliesUnmixed, ReplayRejectedUnmixed,
     ReplayFailsUnmixed, WriteWALUnmixed, CommitUnmixed, CommitFailsUnmixed, CloseUnmixed,
     CrashUnmixed
<1>2. ASSUME NEW c \in Compactor,
             CopyBlocks(c) \/ Wipe(c) \/ Rebuild(c) \/ RebuildFails(c)
               \/ Check(c) \/ CheckFails(c) \/ MoveAside(c) \/ MoveAsideFails(c)
               \/ MoveIn(c) \/ MoveInFails(c) \/ CleanUp(c)
      PROVE  Unmixed'
  BY <1>0, <1>2, CopyBlocksUnmixed, WipeUnmixed, RebuildUnmixed, RebuildFailsUnmixed,
     CheckUnmixed, CheckFailsUnmixed, MoveAsideUnmixed, MoveAsideFailsUnmixed,
     MoveInUnmixed, MoveInFailsUnmixed, CleanUpUnmixed
<1>3. CASE Unlock \/ UNCHANGED vars
  BY <1>3 DEF Unlock, vars, hist, dirs, IInv, Unmixed, Unlocked
<1> QED
  BY <1>1, <1>2, <1>3 DEF Next

-------------------------------------------------------------------------------
(* Compactions left alone *)

(* The empty database *)
LEMMA InitUndisturbed == Init => Undisturbed
<1> SUFFICES ASSUME Init PROVE Undisturbed
  OBVIOUS
<1>1. \A p \in Process : pc[p] = "off"
  BY DEF Init
<1>2. served = {} /\ wal = NoBlock
  BY DEF Init
<1> QED
  BY <1>1, <1>2 DEF Undisturbed, Unlocked, Holds, Process

(* While somebody is inside, no compaction is at work.                       *)
LEMMA InsideCalm ==
  ASSUME IInv, calm, NEW p \in Process, Inside(p)
  PROVE  /\ \A q \in Process : q \in Compactor => ~Unlocked(q)
         /\ ~Moved /\ Here = data /\ data # NoDir /\ Holds(data, served)
         /\ \A b \in served : b.height = wal.height => b = wal
<1>1. \A c \in Compactor : ~Unlocked(c)
  BY DEF IInv, Undisturbed, Unlocked, Inside
<1>2. ~Moved /\ Here = data
  BY <1>1 DEF Moved, Unlocked, Here
<1> QED
  BY <1>1, <1>2 DEF IInv, Undisturbed, Steady, Sound

(* What has to be shown of a step of the process inside                      *)
LEMMA InsideUndisturbed ==
  ASSUME IInv, calm, NEW p \in Process, Inside(p),
         NEW phase \in {"off", "loaded", "open", "logged"}, pc' = [pc EXCEPT ![p] = phase],
         data' # NoDir, Holds(data', served'),
         \A b \in served' : b.height = wal'.height => b = wal',
         phase \in {"open", "logged"} => \A b \in served' : b.height <= Len(mem'[p])
  PROVE  Undisturbed'
<1>1. \A c \in Compactor : ~Unlocked(c)'
  BY InsideCalm DEF Unlocked, Process, IInv, Base, Typed
<1>2. ~Moved' /\ Here' = data'
  BY <1>1 DEF Moved, Unlocked, Here
<1>3. \A q \in Process : pc'[q] \in {"open", "logged"} => q = p /\ phase = pc'[q]
  BY DEF IInv, Base, Typed, Guarded, Exclusive, Inside
<1> QED
  BY <1>1, <1>2, <1>3 DEF Undisturbed

(* An append keeps the blocks that were served: the log holds none of their  *)
(* heights, or the same block.                                               *)
LEMMA TouchHolds ==
  ASSUME IInv, calm, NEW p \in Process, Working(p), wal \in Block, Left(p, wal)
  PROVE  data' # NoDir /\ Holds(data', served)
<1>1. Inside(p) /\ Sound
  BY DEF Working, Inside, Sound
<1>2. data' \in {data, Add(data, wal)} /\ data' # NoDir
  BY <1>1, TouchSteady DEF IInv
<1>3. /\ data # NoDir /\ Holds(data, served)
      /\ \A b \in served : b.height = wal.height => b = wal
  BY <1>1, InsideCalm
<1>4. ASSUME NEW b \in served
      PROVE  b.height \in DOMAIN data' /\ data'[b.height] = b
  <2>1. b.height \in DOMAIN data /\ data[b.height] = b
    BY <1>3 DEF Holds, Chain
  <2> QED
    BY <1>2, <1>3, <2>1 DEF Add
<1> QED
  BY <1>2, <1>4 DEF Holds, Chain

(* The blocks a process has joined to its memory are in data.                *)
MemoryHeld ==
  \A p \in Process : Working(p) =>
    /\ Holds(data, Range(mem[p]))
    /\ \A b \in Range(mem[p]) : /\ b.height <= Len(mem[p]) /\ b.height \in DOMAIN mem[p]
                                /\ mem[p][b.height] = b

(* It follows from the invariant, before a step as after it.                 *)
LEMMA MemoryHolds == Base /\ Steady /\ Sound => MemoryHeld
<1> SUFFICES ASSUME Base, Steady, Sound, NEW p \in Process, Working(p)
             PROVE  /\ Holds(data, Range(mem[p]))
                    /\ \A b \in Range(mem[p]) :
                         /\ b.height <= Len(mem[p]) /\ b.height \in DOMAIN mem[p]
                         /\ mem[p][b.height] = b
  BY DEF MemoryHeld
<1>1. InStep(p) /\ data # NoDir
  BY DEF Steady, Working, Inside
<1>2. /\ mem[p] \in Seq(Block) /\ \A h \in DOMAIN mem[p] : mem[p][h].height = h
      /\ Len(mem[p]) \in Nat /\ DOMAIN mem[p] = 1..Len(mem[p])
  BY ShelfIs DEF Base, Typed
<1>3. ASSUME NEW b \in Range(mem[p])
      PROVE  /\ b.height \in DOMAIN mem[p] /\ mem[p][b.height] = b /\ b.height <= Len(mem[p])
             /\ b.height \in DOMAIN data /\ data[b.height] = b
  <2>1. PICK h \in DOMAIN mem[p] : b = mem[p][h]
    BY DEF Range
  <2>2. b.height = h /\ h \in DOMAIN data /\ data[h] = b
    BY <1>1, <1>2, <2>1 DEF InStep
  <2>3. h <= Len(mem[p])
    BY <1>2, <2>1
  <2> QED
    BY <2>1, <2>2, <2>3
<1> QED
  BY <1>1, <1>3 DEF Holds, Chain

(* A log that is empty holds no height that was served.                      *)
LEMMA NoLogServed ==
  ASSUME NEW S \in SUBSET Block
  PROVE  \A b \in S : b.height # NoBlock.height
BY BoundsAssumption DEF Block, NoBlock

(* No compaction is disturbed by a start that it does not meet.              *)
LEMMA TakeLockUndisturbed ==
  ASSUME IInv, Base', Steady', NEW p \in Process, TakeLock(p), calm', calm
  PROVE  Undisturbed'
<1>1. /\ \A c \in Compactor : ~Unlocked(c)
      /\ UNCHANGED <<wal, mem, served>> /\ pc[p] = "off" /\ data' = Chain(data)
      /\ pc' = [pc EXCEPT ![p] = "locked"]
  BY DEF TakeLock, Starts, MakeData, IInv, Base, Typed
<1>2. \A c \in Compactor : ~Unlocked(c)'
  BY <1>1 DEF Unlocked, Process, IInv, Base, Typed
<1>3. ~Moved /\ ~Moved' /\ Here = data /\ Here' = data'
  BY <1>1, <1>2 DEF Moved, Unlocked, Here
<1>4. Chain(data') = Chain(data) /\ data' # NoDir
  BY <1>1, Known DEF Chain, IInv, Base
<1>5. Holds(data', served')
  <2>1. Holds(data, served)
    BY <1>3 DEF IInv, Undisturbed
  <2> QED
    BY <1>1, <1>4, <2>1 DEF Holds
<1>6. /\ \A b \in served : b.height = wal.height => b = wal
      /\ \A q \in Process : pc[q] \in {"open", "logged"} => \A b \in served : b.height <= Len(mem[q])
  BY DEF IInv, Undisturbed
<1>7. \A q \in Process : pc'[q] \in {"open", "logged"} => pc[q] \in {"open", "logged"}
  BY <1>1 DEF IInv, Base, Typed
<1> QED
  BY <1>1, <1>2, <1>3, <1>4, <1>5, <1>6, <1>7 DEF Undisturbed

(* Nor by one that is refused.                                               *)
LEMMA LockRefusedUndisturbed ==
  ASSUME IInv, Base', Steady', NEW p \in Process, LockRefused(p), calm', calm
  PROVE  Undisturbed'
<1>1. /\ \A c \in Compactor : ~Unlocked(c)
      /\ UNCHANGED <<wal, mem, served>> /\ pc[p] = "off" /\ data' = Chain(data)
      /\ pc' = [pc EXCEPT ![p] = "off"]
  BY DEF LockRefused, Starts, MakeData, IInv, Base, Typed
<1>2. \A c \in Compactor : ~Unlocked(c)'
  BY <1>1 DEF Unlocked, Process, IInv, Base, Typed
<1>3. ~Moved /\ ~Moved' /\ Here = data /\ Here' = data'
  BY <1>1, <1>2 DEF Moved, Unlocked, Here
<1>4. Chain(data') = Chain(data) /\ data' # NoDir
  BY <1>1, Known DEF Chain, IInv, Base
<1>5. Holds(data', served')
  <2>1. Holds(data, served)
    BY <1>3 DEF IInv, Undisturbed
  <2> QED
    BY <1>1, <1>4, <2>1 DEF Holds
<1>6. /\ \A b \in served : b.height = wal.height => b = wal
      /\ \A q \in Process : pc[q] \in {"open", "logged"} => \A b \in served : b.height <= Len(mem[q])
  BY DEF IInv, Undisturbed
<1>7. \A q \in Process : pc'[q] \in {"open", "logged"} => pc[q] \in {"open", "logged"}
  BY <1>1 DEF IInv, Base, Typed
<1> QED
  BY <1>1, <1>2, <1>3, <1>4, <1>5, <1>6, <1>7 DEF Undisturbed

(* What was served is in data, whoever reads it.                             *)
LEMMA LoadUndisturbed ==
  ASSUME IInv, Base', Steady', NEW p \in Process, Load(p), calm', calm
  PROVE  Undisturbed'
<1>1. /\ Inside(p) /\ UNCHANGED <<data, wal, served>> /\ pc' = [pc EXCEPT ![p] = "loaded"]
  BY DEF Load, Goes, dirs, Inside
<1>2. /\ data # NoDir /\ Holds(data, served)
      /\ \A b \in served : b.height = wal.height => b = wal
  BY <1>1, InsideCalm
<1>3. data' # NoDir /\ Holds(data', served')
  BY <1>1, <1>2
<1> QED
  BY <1>1, <1>2, <1>3, InsideUndisturbed

(* An Open that fails changes nothing.                                       *)
LEMMA LoadFailsUndisturbed ==
  ASSUME IInv, Base', Steady', NEW p \in Process, LoadFails(p), calm', calm
  PROVE  Undisturbed'
<1>1. /\ Inside(p) /\ UNCHANGED <<data, wal, served>> /\ pc' = [pc EXCEPT ![p] = "off"]
  BY DEF LoadFails, Ends, dirs, Inside
<1>2. /\ data # NoDir /\ Holds(data, served)
      /\ \A b \in served : b.height = wal.height => b = wal
  BY <1>1, InsideCalm
<1>3. data' # NoDir /\ Holds(data', served')
  BY <1>1, <1>2
<1> QED
  BY <1>1, <1>2, <1>3, InsideUndisturbed

(* A process that closes changes nothing.                                    *)
LEMMA CloseUndisturbed ==
  ASSUME IInv, Base', Steady', NEW p \in Process, Close(p), calm', calm
  PROVE  Undisturbed'
<1>1. /\ Inside(p) /\ UNCHANGED <<data, wal, served>> /\ pc' = [pc EXCEPT ![p] = "off"]
  BY DEF Close, Leaves, Ends, dirs, Inside
<1>2. /\ data # NoDir /\ Holds(data, served)
      /\ \A b \in served : b.height = wal.height => b = wal
  BY <1>1, InsideCalm
<1>3. data' # NoDir /\ Holds(data', served')
  BY <1>1, <1>2
<1> QED
  BY <1>1, <1>2, <1>3, InsideUndisturbed

(* The block of a log that says nothing new is the last one served.          *)
LEMMA ReplayNothingUndisturbed ==
  ASSUME IInv, Base', Steady', NEW p \in Process, ReplayNothing(p), calm', calm
  PROVE  Undisturbed'
<1>1. /\ Inside(p) /\ Working(p) /\ pc[p] = "loaded" /\ UNCHANGED <<data, mem>>
      /\ pc' = [pc EXCEPT ![p] = "open"] /\ served' = served \cup Range(mem[p])
      /\ wal' = NoBlock \/ (wal' = wal /\ wal # NoBlock)
      /\ wal = NoBlock \/ LastId(mem[p]) = wal.id
  <2>1. mem' = mem
    BY DEF ReplayNothing, Serves, IInv, Base, Typed
  <2>2. wal' = NoBlock \/ (wal' = wal /\ wal # NoBlock)
    BY DEF ReplayNothing, ClearWAL
  <2> QED
    BY <2>1, <2>2 DEF ReplayNothing, Serves, dirs, Inside, Working
<1>2. /\ data # NoDir /\ Holds(data, served)
      /\ \A b \in served : b.height = wal.height => b = wal
  BY <1>1, InsideCalm
<1>3. /\ Holds(data, Range(mem[p]))
      /\ \A b \in Range(mem[p]) : b.height <= Len(mem[p]) /\ b.height \in DOMAIN mem[p]
                                  /\ mem[p][b.height] = b
  BY <1>1, MemoryHolds DEF IInv, Sound, MemoryHeld
<1>4. mem[p] = data /\ Linked(data) /\ Fits(wal, data)
  BY <1>1, <1>2 DEF IInv, Steady, Sound, InStep, Chain
<1>5. mem[p] \in Seq(Block) /\ Len(mem[p]) \in Nat /\ DOMAIN mem[p] = 1..Len(mem[p])
  BY DEF IInv, Base, Typed
<1>6. data' # NoDir /\ Holds(data', served')
  BY <1>1, <1>2, <1>3 DEF Holds
<1>7. \A b \in served' : b.height <= Len(mem'[p])
  <2>1. \A b \in served : b.height <= Len(mem[p])
    BY <1>2, <1>4, <1>5 DEF Holds, Chain
  <2> QED
    BY <1>1, <1>3, <2>1
<1>8. ASSUME NEW b \in served', b.height = wal'.height PROVE b = wal'
  <2>1. served' \in SUBSET Block
    BY DEF Base, Typed
  <2>2. wal' = wal /\ wal # NoBlock /\ wal \in Block
    BY <1>1, <1>8, <2>1, NoLogServed DEF IInv, Base, Typed
  <2>3. CASE b \in served
    BY <1>2, <1>8, <2>2, <2>3
  <2>4. CASE b \in Range(mem[p])
    <3>1. b = data[wal.height] /\ wal.height \in DOMAIN data /\ wal.height <= Len(data)
      BY <1>3, <1>4, <1>8, <2>2, <2>4
    <3>2. \A h \in DOMAIN data : h <= wal.height
      BY <1>4, <2>2 DEF Fits
    <3>3. wal.height = Len(data)
      <4>1. Len(data) \in DOMAIN data /\ Len(data) \in Nat /\ wal.height \in Nat
        BY <1>4, <1>5, <3>1
      <4> QED
        BY <3>1, <3>2, <4>1
    <3>4. b.id = wal.id
      <4>1. Len(mem[p]) # 0
        BY <1>4, <1>5, <3>1, <3>3
      <4> QED
        BY <1>1, <1>4, <1>5, <2>2, <3>1, <3>3, <4>1, LastIdIs
    <3>5. b.prev = wal.prev
      <4>1. CASE wal.height = 1
        BY <1>4, <2>2, <3>1, <4>1 DEF Fits, Linked
      <4>2. CASE wal.height # 1
        BY <1>4, <2>2, <3>1, <4>2 DEF Fits, Linked
      <4> QED
        BY <4>1, <4>2
    <3>6. b \in Block /\ b.height = wal.height
      BY <1>8, <2>1, <2>2
    <3> QED
      BY <2>2, <3>4, <3>5, <3>6 DEF Block
  <2> QED
    BY <1>1, <2>3, <2>4
<1> QED
  BY <1>1, <1>6, <1>7, <1>8, InsideUndisturbed

(* The log's block is served, and is in data.                                *)
LEMMA ReplayAppliesUndisturbed ==
  ASSUME IInv, Base', Steady', NEW p \in Process, ReplayApplies(p), calm', calm
  PROVE  Undisturbed'
<1>1. /\ Inside(p) /\ Working(p) /\ wal \in Block /\ Left(p, wal) /\ Continues(wal, mem[p])
      /\ pc' = [pc EXCEPT ![p] = "open"] /\ mem' = [mem EXCEPT ![p] = Append(mem[p], wal)]
      /\ served' = served \cup Range(Append(mem[p], wal))
      /\ wal' = NoBlock \/ wal' = wal
  BY DEF ReplayApplies, MustReplay, Appends, Serves, ClearWAL, Left, Inside, Working, IInv, Base, Typed
<1>2. /\ data # NoDir /\ Holds(data, served)
      /\ \A b \in served : b.height = wal.height => b = wal
  BY <1>1, InsideCalm
<1>3. Len(mem[p]) \in Nat /\ DOMAIN mem[p] = 1..Len(mem[p]) /\ wal.height = Len(mem[p]) + 1
  BY <1>1 DEF IInv, Base, Typed, Continues
<1>4. data' # NoDir /\ Holds(data', served)
  BY <1>1, TouchHolds
<1>5. /\ mem'[p] = Append(mem[p], wal) /\ Working(p)' /\ Sound'
      /\ Len(mem'[p]) = Len(mem[p]) + 1
  BY <1>1 DEF IInv, Base, Typed, Working, Sound
<1>6. /\ Holds(data', Range(mem'[p]))
      /\ \A b \in Range(mem'[p]) : b.height <= Len(mem'[p]) /\ mem'[p][b.height] = b
  <2>1. Base' /\ Steady' /\ Sound' => MemoryHeld'
    BY MemoryHolds, PTL
  <2>2. MemoryHeld'
    BY <1>5, <2>1
  <2> QED
    BY <1>5, <2>2 DEF MemoryHeld
<1>7. Holds(data', served')
  BY <1>1, <1>4, <1>5, <1>6 DEF Holds
<1>8. \A b \in served : b.height <= Len(mem[p])
  <2>1. mem[p] = data
    BY <1>1 DEF IInv, Steady, Sound, InStep, ReplayApplies, MustReplay
  <2>2. \A b \in served : b.height \in DOMAIN mem[p]
    BY <1>2, <2>1 DEF Holds, Chain
  <2> QED
    BY <1>3, <2>2
<1>9. \A b \in served' : b.height <= Len(mem'[p])
  <2>1. \A b \in served : b.height \in Nat
    BY BoundsAssumption DEF IInv, Base, Typed, Block
  <2>2. \A b \in served : b.height <= Len(mem'[p])
    BY <1>3, <1>5, <1>8, <2>1
  <2> QED
    BY <1>1, <1>5, <1>6, <2>2
<1>10. ASSUME NEW b \in served', b.height = wal'.height PROVE b = wal'
  <2>1. served' \in SUBSET Block
    BY DEF Base, Typed
  <2>2. wal' = wal
    BY <1>1, <1>10, <2>1, NoLogServed
  <2>3. CASE b \in served
    BY <1>2, <1>10, <2>2, <2>3
  <2>4. CASE b \in Range(mem'[p])
    <3>1. b = mem'[p][wal.height]
      BY <1>6, <1>10, <2>2, <2>4
    <3>2. mem'[p][wal.height] = wal
      BY <1>3, <1>5 DEF IInv, Base, Typed
    <3> QED
      BY <2>2, <3>1, <3>2
  <2> QED
    BY <1>1, <1>5, <2>3, <2>4
<1> QED
  BY <1>1, <1>4, <1>7, <1>9, <1>10, InsideUndisturbed

(* So is the block of a commit.                                              *)
LEMMA CommitUndisturbed ==
  ASSUME IInv, Base', Steady', NEW p \in Process, Commit(p), calm', calm
  PROVE  Undisturbed'
<1>1. /\ Inside(p) /\ Working(p) /\ wal \in Block /\ Left(p, wal) /\ Continues(wal, mem[p])
      /\ pc' = [pc EXCEPT ![p] = "open"] /\ mem' = [mem EXCEPT ![p] = Append(mem[p], wal)]
      /\ served' = served \cup Range(Append(mem[p], wal))
      /\ wal' = NoBlock \/ wal' = wal
  BY DEF Commit, Appends, Serves, ClearWAL, Left, Inside, Working, IInv, Base, Guarded
<1>2. /\ data # NoDir /\ Holds(data, served)
      /\ \A b \in served : b.height = wal.height => b = wal
  BY <1>1, InsideCalm
<1>3. Len(mem[p]) \in Nat /\ DOMAIN mem[p] = 1..Len(mem[p]) /\ wal.height = Len(mem[p]) + 1
  BY <1>1 DEF IInv, Base, Typed, Continues
<1>4. data' # NoDir /\ Holds(data', served)
  BY <1>1, TouchHolds
<1>5. /\ mem'[p] = Append(mem[p], wal) /\ Working(p)' /\ Sound'
      /\ Len(mem'[p]) = Len(mem[p]) + 1
  BY <1>1 DEF IInv, Base, Typed, Working, Sound
<1>6. /\ Holds(data', Range(mem'[p]))
      /\ \A b \in Range(mem'[p]) : b.height <= Len(mem'[p]) /\ mem'[p][b.height] = b
  <2>1. Base' /\ Steady' /\ Sound' => MemoryHeld'
    BY MemoryHolds, PTL
  <2>2. MemoryHeld'
    BY <1>5, <2>1
  <2> QED
    BY <1>5, <2>2 DEF MemoryHeld
<1>7. Holds(data', served')
  BY <1>1, <1>4, <1>5, <1>6 DEF Holds
<1>8. \A b \in served : b.height <= Len(mem[p])
  BY DEF Commit, IInv, Undisturbed
<1>9. \A b \in served' : b.height <= Len(mem'[p])
  <2>1. \A b \in served : b.height \in Nat
    BY BoundsAssumption DEF IInv, Base, Typed, Block
  <2>2. \A b \in served : b.height <= Len(mem'[p])
    BY <1>3, <1>5, <1>8, <2>1
  <2> QED
    BY <1>1, <1>5, <1>6, <2>2
<1>10. ASSUME NEW b \in served', b.height = wal'.height PROVE b = wal'
  <2>1. served' \in SUBSET Block
    BY DEF Base, Typed
  <2>2. wal' = wal
    BY <1>1, <1>10, <2>1, NoLogServed
  <2>3. CASE b \in served
    BY <1>2, <1>10, <2>2, <2>3
  <2>4. CASE b \in Range(mem'[p])
    <3>1. b = mem'[p][wal.height]
      BY <1>6, <1>10, <2>2, <2>4
    <3>2. mem'[p][wal.height] = wal
      BY <1>3, <1>5 DEF IInv, Base, Typed
    <3> QED
      BY <2>2, <3>1, <3>2
  <2> QED
    BY <1>1, <1>5, <2>3, <2>4
<1> QED
  BY <1>1, <1>4, <1>7, <1>9, <1>10, InsideUndisturbed

(* A log that is refused holds no height that was served.                    *)
LEMMA ReplayRejectedUndisturbed ==
  ASSUME IInv, Base', Steady', NEW p \in Process, ReplayRejected(p), calm', calm
  PROVE  Undisturbed'
<1>1. /\ Inside(p) /\ Working(p) /\ wal \in Block /\ Left(p, wal)
      /\ pc' = [pc EXCEPT ![p] = "off"] /\ UNCHANGED <<served, wal>>
  BY DEF ReplayRejected, MustReplay, Leaves, Ends, Left, Typed, Inside, Working, IInv, Base
<1>2. data' # NoDir /\ Holds(data', served)
  BY <1>1, TouchHolds
<1>3. \A b \in served : b.height = wal.height => b = wal
  BY <1>1, InsideCalm
<1> QED
  BY <1>1, <1>2, <1>3, InsideUndisturbed

(* Nor does one that could not be appended.                                  *)
LEMMA ReplayFailsUndisturbed ==
  ASSUME IInv, Base', Steady', NEW p \in Process, ReplayFails(p), calm', calm
  PROVE  Undisturbed'
<1>1. /\ Inside(p) /\ Working(p) /\ wal \in Block /\ Left(p, wal)
      /\ pc' = [pc EXCEPT ![p] = "off"] /\ UNCHANGED <<served, wal>>
  BY DEF ReplayFails, MustReplay, Leaves, Ends, Left, Typed, Inside, Working, IInv, Base
<1>2. data' # NoDir /\ Holds(data', served)
  BY <1>1, TouchHolds
<1>3. \A b \in served : b.height = wal.height => b = wal
  BY <1>1, InsideCalm
<1> QED
  BY <1>1, <1>2, <1>3, InsideUndisturbed

(* A new log has a height above all that were served.                        *)
LEMMA WriteWALUndisturbed ==
  ASSUME IInv, Base', Steady', NEW p \in Process, WriteWAL(p), calm', calm
  PROVE  Undisturbed'
<1>1. /\ Inside(p) /\ pc[p] = "open" /\ UNCHANGED <<data, mem, served>>
      /\ pc' = [pc EXCEPT ![p] = "logged"] /\ wal' = NewBlock(p) /\ made < MaxBlocks
  BY DEF WriteWAL, Goes, dirs, Inside
<1>2. data # NoDir /\ Holds(data, served)
  BY <1>1, InsideCalm
<1>3. \A b \in served : b.height <= Len(mem[p])
  BY <1>1 DEF IInv, Undisturbed
<1>4. wal'.height = Len(mem[p]) + 1
  BY <1>1, NewBlockIs DEF IInv, Base
<1>5. \A b \in served' : b.height # wal'.height
  <2>1. Len(mem[p]) \in Nat /\ \A b \in served : b.height \in Nat
    BY BoundsAssumption DEF IInv, Base, Typed, Block
  <2> QED
    BY <1>1, <1>3, <1>4, <2>1
<1>6. data' # NoDir /\ Holds(data', served') /\ \A b \in served' : b.height <= Len(mem'[p])
  BY <1>1, <1>2, <1>3
<1> QED
  BY <1>1, <1>5, <1>6, InsideUndisturbed

(* A commit that fails may leave a block above all that were served.         *)
LEMMA CommitFailsUndisturbed ==
  ASSUME IInv, Base', Steady', NEW p \in Process, CommitFails(p), calm', calm
  PROVE  Undisturbed'
<1>1. /\ Inside(p) /\ Working(p) /\ wal \in Block /\ pc[p] = "logged"
      /\ pc' = [pc EXCEPT ![p] = "open"] /\ UNCHANGED <<served, wal, mem>>
  BY DEF CommitFails, Goes, Inside, Working, IInv, Base, Guarded
<1>2. Left(p, wal)
  <2>1. InStep(p) /\ data # NoDir
    BY <1>1 DEF IInv, Steady, Sound
  <2> QED
    BY <2>1 DEF InStep, CommitFails, AppendFails, Left
<1>3. data' # NoDir /\ Holds(data', served)
  BY <1>1, <1>2, TouchHolds
<1>4. /\ \A b \in served : b.height = wal.height => b = wal
      /\ \A b \in served : b.height <= Len(mem[p])
  BY <1>1 DEF IInv, Undisturbed
<1> QED
  BY <1>1, <1>3, <1>4, InsideUndisturbed

(* A process dies inside, or as a compaction outside the renames.            *)
LEMMA CrashUndisturbed ==
  ASSUME IInv, Base', Steady', NEW p \in Process, Crash(p), calm', calm
  PROVE  Undisturbed'
<1>1. /\ pc[p] # "moved" /\ pc' = [pc EXCEPT ![p] = "off"] /\ UNCHANGED <<served, wal>>
      /\ mem' = [mem EXCEPT ![p] = <<>>]
  BY DEF Crash, Leaves, Ends, IInv, Base, Typed
<1>2. CASE MustReplay(p) \/ pc[p] = "logged"
  <2>1. Working(p) /\ Inside(p) /\ wal \in Block /\ Left(p, wal)
    BY <1>2 DEF Crash, MustReplay, IInv, Base, Typed, Guarded, Working, Inside
  <2>2. data' # NoDir /\ Holds(data', served)
    BY <2>1, TouchHolds
  <2>3. \A b \in served : b.height = wal.height => b = wal
    BY <2>1, InsideCalm
  <2> QED
    BY <1>1, <2>1, <2>2, <2>3, InsideUndisturbed
<1>3. CASE ~(MustReplay(p) \/ pc[p] = "logged")
  <2>1. UNCHANGED <<data, old, tmp>>
    BY <1>3 DEF Crash
  <2>2. /\ \A q \in Process : q # p => pc'[q] = pc[q] /\ mem'[q] = mem[q]
        /\ pc'[p] = "off"
    BY <1>1 DEF IInv, Base, Typed
  <2>3. Moved' <=> Moved
    BY <1>1, <2>2 DEF Moved, Process
  <2>4. Here' = Here
    BY <2>1, <2>3 DEF Here
  <2>5. \A q \in Process : /\ Unlocked(q)' => q # p /\ Unlocked(q)
                           /\ Inside(q)' => Inside(q)
    BY <2>2 DEF Unlocked, Inside
  <2>6. ASSUME NEW c \in Compactor, Unlocked(c)'
        PROVE  /\ Copying(c)'
               /\ \A q \in Process : q = c \/ ~Inside(q)'
               /\ \A d \in Compactor : d = c \/ ~Unlocked(d)'
    <3>0. \A d \in Compactor : d \in Process
      BY DEF Process
    <3>1. c \in Process /\ c # p /\ Unlocked(c)
      BY <2>5, <2>6, <3>0, Zenon
    <3>2. /\ Copying(c)
          /\ \A q \in Process : q = c \/ ~Inside(q)
          /\ \A d \in Compactor : d = c \/ ~Unlocked(d)
      BY <3>1 DEF IInv, Undisturbed
    <3>3. Copying(c)'
      BY <1>1, <2>1, <2>2, <3>1, <3>2 DEF Copying
    <3> QED
      BY <2>5, <3>0, <3>2, <3>3, Zenon
  <2>7. /\ Moved \/ data # NoDir \/ wal = NoBlock
        /\ Holds(Here, served)
        /\ \A b \in served : b.height = wal.height => b = wal
        /\ \A q \in Process : pc[q] \in {"open", "logged"} =>
             \A b \in served : b.height <= Len(mem[q])
    BY DEF IInv, Undisturbed
  <2>8. \A q \in Process : pc'[q] \in {"open", "logged"} =>
          \A b \in served : b.height <= Len(mem'[q])
    BY <2>2, <2>7
  <2> QED
    BY <1>1, <2>1, <2>3, <2>4, <2>6, <2>7, <2>8 DEF Undisturbed
<1> QED
  BY <1>2, <1>3

(* What has to be shown of a step of the compaction at work                  *)
LEMMA CompactorUndisturbed ==
  ASSUME IInv, calm, NEW c \in Compactor, Unlocked(c),
         NEW phase \in {"off", "wiped", "rebuilt", "checked", "moved", "swapped"},
         pc' = [pc EXCEPT ![c] = phase], UNCHANGED <<wal, served>>,
         phase # "off" => Copying(c)',
         Chain(IF phase = "moved" THEN old' ELSE data')
           = Chain(IF pc[c] = "moved" THEN old ELSE data),
         phase = "moved" \/ data' # NoDir
  PROVE  Undisturbed'
<1>0. c \in Process
  BY DEF Process
<1>1. /\ \A p \in Process : p = c \/ ~Inside(p)
      /\ \A d \in Compactor : d = c \/ ~Unlocked(d)
      /\ Holds(Here, served) /\ \A b \in served : b.height = wal.height => b = wal
  BY DEF IInv, Undisturbed
<1>2. pc'[c] = phase /\ \A p \in Process : p # c => pc'[p] = pc[p]
  BY <1>0 DEF IInv, Base, Typed
<1>3. /\ \A p \in Process : ~Inside(p)'
      /\ \A d \in Compactor : Unlocked(d)' => d = c
  BY <1>1, <1>2 DEF Inside, Unlocked, Process
<1>4. (Moved <=> pc[c] = "moved") /\ (Moved' <=> phase = "moved")
  BY <1>0, <1>1, <1>2 DEF Moved, Unlocked, Process
<1>5. Chain(Here') = Chain(Here)
  BY <1>4 DEF Here
<1>6. Holds(Here', served')
  BY <1>1, <1>5 DEF Holds
<1>7. ASSUME NEW d \in Compactor, Unlocked(d)'
      PROVE  /\ Copying(d)'
             /\ \A p \in Process : p = d \/ ~Inside(p)'
             /\ \A e \in Compactor : e = d \/ ~Unlocked(e)'
  <2>1. d = c /\ phase # "off"
    BY <1>2, <1>3, <1>7 DEF Process, Unlocked
  <2> QED
    BY <1>3, <2>1
<1>8. \A p \in Process : pc'[p] \notin {"open", "logged"}
  BY <1>3 DEF Inside
<1> QED
  BY <1>1, <1>4, <1>6, <1>7, <1>8 DEF Undisturbed

(* A compaction starts with a copy of what is in data.                       *)
LEMMA CopyBlocksUndisturbed ==
  ASSUME IInv, Base', Steady', NEW c \in Compactor, CopyBlocks(c), calm', calm
  PROVE  Undisturbed'
<1>0. c \in Process
  BY DEF Process
<1>1. /\ Inside(c) /\ Working(c) /\ pc[c] = "open" /\ pc' = [pc EXCEPT ![c] = "copied"]
      /\ UNCHANGED <<data, old, tmp, wal, mem, served>>
  BY DEF CopyBlocks, Goes, dirs, Inside, Working
<1>2. /\ \A q \in Process : q \in Compactor => ~Unlocked(q)
      /\ ~Moved /\ Here = data /\ data # NoDir /\ Holds(data, served)
      /\ \A b \in served : b.height = wal.height => b = wal
  BY <1>0, <1>1, InsideCalm
<1>3. mem[c] = data
  BY <1>0, <1>1 DEF IInv, Steady, Sound, InStep
<1>4. pc'[c] = "copied" /\ \A p \in Process : p # c => pc'[p] = pc[p]
  BY <1>0, <1>1 DEF IInv, Base, Typed
<1>5. \A p \in Process : ~Inside(p)'
  BY <1>0, <1>1, <1>4 DEF IInv, Base, Guarded, Exclusive, Inside
<1>6. ~Moved' /\ Here' = data'
  BY <1>2, <1>4 DEF Moved, Here, Process
<1>7. ASSUME NEW d \in Compactor, Unlocked(d)'
      PROVE  /\ Copying(d)'
             /\ \A p \in Process : p = d \/ ~Inside(p)'
             /\ \A e \in Compactor : e = d \/ ~Unlocked(e)'
  <2>1. d \in Process
    BY DEF Process
  <2>2. d = c
    BY <1>2, <1>4, <1>7, <2>1 DEF Unlocked
  <2>3. Copying(c)'
    BY <1>1, <1>3, <1>4 DEF Copying
  <2>4. \A e \in Compactor : e = c \/ ~Unlocked(e)'
    BY <1>2, <1>4 DEF Unlocked, Process
  <2> QED
    BY <1>5, <2>2, <2>3, <2>4
<1>8. \A p \in Process : pc'[p] \notin {"open", "logged"}
  BY <1>5 DEF Inside
<1> QED
  BY <1>1, <1>2, <1>6, <1>7, <1>8 DEF Undisturbed

(* The scratch directory is empty.                                           *)
LEMMA WipeUndisturbed ==
  ASSUME IInv, Base', Steady', NEW c \in Compactor, Wipe(c), calm', calm
  PROVE  Undisturbed'
<1>0. c \in Process
  BY DEF Process
<1>1. /\ Unlocked(c) /\ pc[c] = "copied" /\ pc' = [pc EXCEPT ![c] = "wiped"]
      /\ UNCHANGED <<data, wal, served>>
  BY DEF Wipe, Goes, Unlocked
<1>2. Copying(c)
  BY <1>1 DEF IInv, Undisturbed
<1>3. data' # NoDir
  BY <1>0, <1>1, <1>2, Known DEF Copying, IInv, Base, Typed
<1>4. Copying(c)'
  <2>1. mem' = mem /\ pc'[c] = "wiped" /\ tmp' = NoDir
    BY <1>0, <1>1 DEF Wipe, IInv, Base, Typed
  <2> QED
    BY <1>1, <1>2, <2>1 DEF Copying
<1> QED
  BY <1>1, <1>2, <1>3, <1>4, CompactorUndisturbed

(* It becomes the copy.                                                      *)
LEMMA RebuildUndisturbed ==
  ASSUME IInv, Base', Steady', NEW c \in Compactor, Rebuild(c), calm', calm
  PROVE  Undisturbed'
<1>0. c \in Process
  BY DEF Process
<1>1. /\ Unlocked(c) /\ pc[c] = "wiped" /\ pc' = [pc EXCEPT ![c] = "rebuilt"]
      /\ UNCHANGED <<data, wal, served>>
  BY DEF Rebuild, Goes, Unlocked
<1>2. Copying(c)
  BY <1>1 DEF IInv, Undisturbed
<1>3. data' # NoDir
  BY <1>0, <1>1, <1>2, Known DEF Copying, IInv, Base, Typed
<1>4. Copying(c)'
  <2>1. mem[c] \in Shelf(made) /\ made \in 0..MaxBlocks /\ tmp = NoDir /\ tmp' = Overlaid(tmp, mem[c])
    BY <1>0, <1>1, <1>2 DEF Copying, Rebuild, IInv, Base, Typed
  <2>2. Overlaid(NoDir, mem[c]) = mem[c]
    BY <2>1, OverlaidIs
  <2>3. mem' = mem /\ pc'[c] = "rebuilt"
    BY <1>0, <1>1 DEF Rebuild, IInv, Base, Typed
  <2> QED
    BY <1>1, <1>2, <2>1, <2>2, <2>3 DEF Copying
<1> QED
  BY <1>1, <1>2, <1>3, <1>4, CompactorUndisturbed

(* Or nothing more is done.                                                  *)
LEMMA RebuildFailsUndisturbed ==
  ASSUME IInv, Base', Steady', NEW c \in Compactor, RebuildFails(c), calm', calm
  PROVE  Undisturbed'
<1>0. c \in Process
  BY DEF Process
<1>1. /\ Unlocked(c) /\ pc[c] = "wiped" /\ pc' = [pc EXCEPT ![c] = "off"]
      /\ UNCHANGED <<data, wal, served>>
  BY DEF RebuildFails, Ends, Unlocked
<1>2. Copying(c)
  BY <1>1 DEF IInv, Undisturbed
<1>3. data' # NoDir
  BY <1>0, <1>1, <1>2, Known DEF Copying, IInv, Base, Typed
<1> QED
  BY <1>1, <1>2, <1>3, CompactorUndisturbed

(* The copy is what is checked.                                              *)
LEMMA CheckUndisturbed ==
  ASSUME IInv, Base', Steady', NEW c \in Compactor, Check(c), calm', calm
  PROVE  Undisturbed'
<1>0. c \in Process
  BY DEF Process
<1>1. /\ Unlocked(c) /\ pc[c] = "rebuilt" /\ pc' = [pc EXCEPT ![c] = "checked"]
      /\ UNCHANGED <<data, wal, served>>
  BY DEF Check, Goes, Unlocked
<1>2. Copying(c)
  BY <1>1 DEF IInv, Undisturbed
<1>3. data' # NoDir
  BY <1>0, <1>1, <1>2, Known DEF Copying, IInv, Base, Typed
<1>4. Copying(c)'
  <2>1. mem[c] \in Shelf(made) /\ tmp = mem[c] /\ tmp' = Chain(tmp)
    BY <1>0, <1>1, <1>2 DEF Copying, Check, IInv, Base, Typed
  <2>2. tmp' = mem[c]
    BY <2>1, Known DEF Chain, IInv, Base
  <2>3. mem' = mem /\ pc'[c] = "checked"
    BY <1>0, <1>1 DEF Check, IInv, Base, Typed
  <2> QED
    BY <1>1, <1>2, <2>1, <2>2, <2>3 DEF Copying
<1> QED
  BY <1>1, <1>2, <1>3, <1>4, CompactorUndisturbed

(* A compaction that gives up leaves data in place.                          *)
LEMMA CheckFailsUndisturbed ==
  ASSUME IInv, Base', Steady', NEW c \in Compactor, CheckFails(c), calm', calm
  PROVE  Undisturbed'
<1>0. c \in Process
  BY DEF Process
<1>1. /\ Unlocked(c) /\ pc[c] = "rebuilt" /\ pc' = [pc EXCEPT ![c] = "off"]
      /\ UNCHANGED <<data, wal, served>>
  BY DEF CheckFails, Ends, dirs, Unlocked
<1>2. Copying(c)
  BY <1>1 DEF IInv, Undisturbed
<1>3. data' # NoDir
  BY <1>0, <1>1, <1>2, Known DEF Copying, IInv, Base, Typed
<1> QED
  BY <1>1, <1>2, <1>3, CompactorUndisturbed

(* data.precompact is what was in data.                                      *)
LEMMA MoveAsideUndisturbed ==
  ASSUME IInv, Base', Steady', NEW c \in Compactor, MoveAside(c), calm', calm
  PROVE  Undisturbed'
<1>0. c \in Process
  BY DEF Process
<1>1. /\ Unlocked(c) /\ pc[c] = "checked" /\ pc' = [pc EXCEPT ![c] = "moved"]
      /\ UNCHANGED <<tmp, mem, wal, served>> /\ old' = data /\ data' = NoDir /\ data # NoDir
  BY DEF MoveAside, Goes, Unlocked
<1>2. Copying(c)
  BY <1>1 DEF IInv, Undisturbed
<1>3. Fits(wal, data)
  BY <1>1 DEF IInv, Steady, Sound
<1>4. Copying(c)'
  <2>1. pc'[c] = "moved"
    BY <1>0, <1>1 DEF IInv, Base, Typed
  <2> QED
    BY <1>1, <1>2, <1>3, <2>1 DEF Copying
<1> QED
  BY <1>1, <1>4, CompactorUndisturbed

(* data stays in place.                                                      *)
LEMMA MoveAsideFailsUndisturbed ==
  ASSUME IInv, Base', Steady', NEW c \in Compactor, MoveAsideFails(c), calm', calm
  PROVE  Undisturbed'
<1>0. c \in Process
  BY DEF Process
<1>1. /\ Unlocked(c) /\ pc[c] = "checked" /\ pc' = [pc EXCEPT ![c] = "off"]
      /\ UNCHANGED <<data, wal, served>>
  BY DEF MoveAsideFails, Ends, Unlocked
<1>2. Copying(c)
  BY <1>1 DEF IInv, Undisturbed
<1>3. data' # NoDir
  BY <1>0, <1>1, <1>2, Known DEF Copying, IInv, Base, Typed
<1> QED
  BY <1>1, <1>2, <1>3, CompactorUndisturbed

(* What is moved in is the copy.                                             *)
LEMMA MoveInUndisturbed ==
  ASSUME IInv, Base', Steady', NEW c \in Compactor, MoveIn(c), calm', calm
  PROVE  Undisturbed'
<1>0. c \in Process
  BY DEF Process
<1>1. /\ Unlocked(c) /\ pc[c] = "moved" /\ pc' = [pc EXCEPT ![c] = "swapped"]
      /\ UNCHANGED <<old, mem, wal, served>> /\ data' = tmp /\ tmp # NoDir
  BY DEF MoveIn, Goes, Unlocked
<1>2. Copying(c)
  BY <1>1 DEF IInv, Undisturbed
<1>3. tmp = old /\ tmp = mem[c]
  BY <1>1, <1>2 DEF Copying
<1>4. Copying(c)'
  <2>1. pc'[c] = "swapped"
    BY <1>0, <1>1 DEF IInv, Base, Typed
  <2> QED
    BY <1>1, <1>3, <2>1 DEF Copying
<1>5. Chain(data') = Chain(old) /\ data' # NoDir
  BY <1>1, <1>3
<1> QED
  BY <1>1, <1>4, <1>5, CompactorUndisturbed

(* The rename that undoes the first one puts everything back.                *)
LEMMA MoveInFailsUndisturbed ==
  ASSUME IInv, Base', Steady', NEW c \in Compactor, MoveInFails(c), calm', calm
  PROVE  Undisturbed'
<1>0. c \in Process
  BY DEF Process
<1>1. /\ Unlocked(c) /\ pc[c] = "moved" /\ pc' = [pc EXCEPT ![c] = "off"]
      /\ UNCHANGED <<wal, served>>
  BY DEF MoveInFails, Ends, Unlocked
<1>2. data' = old /\ old # NoDir
  BY DEF MoveInFails
<1>3. Chain(data') = Chain(old) /\ data' # NoDir
  BY <1>2
<1> QED
  BY <1>1, <1>3, CompactorUndisturbed

(* What is removed is not in use any more.                                   *)
LEMMA CleanUpUndisturbed ==
  ASSUME IInv, Base', Steady', NEW c \in Compactor, CleanUp(c), calm', calm
  PROVE  Undisturbed'
<1>0. c \in Process
  BY DEF Process
<1>1. /\ Unlocked(c) /\ pc[c] = "swapped" /\ pc' = [pc EXCEPT ![c] = "off"]
      /\ UNCHANGED <<data, wal, served>>
  BY DEF CleanUp, Ends, Unlocked
<1>2. Copying(c)
  BY <1>1 DEF IInv, Undisturbed
<1>3. data' # NoDir
  BY <1>0, <1>1, <1>2, Known DEF Copying, IInv, Base, Typed
<1> QED
  BY <1>1, <1>2, <1>3, CompactorUndisturbed

(* Every step keeps what was served in place.                                *)
LEMMA NextUndisturbed ==
  ASSUME IInv, [Next]_vars
  PROVE  Undisturbed'
<1>0. SUFFICES ASSUME calm' PROVE Undisturbed'
  BY DEF Undisturbed
<1>4. Base' /\ Steady' /\ calm
  BY <1>0, NextBase, NextSteady, HistoryShrinks DEF IInv, Base
<1>1. ASSUME NEW p \in Process,
             TakeLock(p) \/ LockRefused(p) \/ Load(p) \/ LoadFails(p)
               \/ ReplayNothing(p) \/ ReplayApplies(p) \/ ReplayRejected(p) \/ ReplayFails(p)
               \/ WriteWAL(p) \/ Commit(p) \/ CommitFails(p) \/ Close(p) \/ Crash(p)
      PROVE  Undisturbed'
  BY <1>0, <1>1, <1>4, TakeLockUndisturbed, LockRefusedUndisturbed, LoadUndisturbed,
     LoadFailsUndisturbed, ReplayNothingUndisturbed, ReplayAppliesUndisturbed,
     ReplayRejectedUndisturbed, ReplayFailsUndisturbed, WriteWALUndisturbed,
     CommitUndisturbed, CommitFailsUndisturbed, CloseUndisturbed, CrashUndisturbed
<1>2. ASSUME NEW c \in Compactor,
             CopyBlocks(c) \/ Wipe(c) \/ Rebuild(c) \/ RebuildFails(c)
               \/ Check(c) \/ CheckFails(c) \/ MoveAside(c) \/ MoveAsideFails(c)
               \/ MoveIn(c) \/ MoveInFails(c) \/ CleanUp(c)
      PROVE  Undisturbed'
  BY <1>0, <1>2, <1>4, CopyBlocksUndisturbed, WipeUndisturbed, RebuildUndisturbed,
     RebuildFailsUndisturbed, CheckUndisturbed, CheckFailsUndisturbed,
     MoveAsideUndisturbed, MoveAsideFailsUndisturbed, MoveInUndisturbed,
     MoveInFailsUndisturbed, CleanUpUndisturbed
<1>3. CASE Unlock \/ UNCHANGED vars
  BY <1>3 DEF Unlock, vars, hist, dirs, IInv, Undisturbed, Unlocked, Inside, Copying, Moved, Here, Holds
<1> QED
  BY <1>1, <1>2, <1>3 DEF Next

-------------------------------------------------------------------------------
(* The theorems *)

(* All parts together hold at the start and after every step.                *)
LEMMA Invariance == Spec => []IInv
<1>1. Init => IInv
  BY InitBase, InitSteady, InitUnmixed, InitUndisturbed DEF IInv
<1>2. IInv /\ [Next]_vars => IInv'
  BY NextBase, NextSteady, NextUnmixed, NextUndisturbed DEF IInv
<1> QED
  BY <1>1, <1>2, PTL DEF Spec

(* At no time are two processes between taking LOCK and closing, however     *)
(* many commands, compactions, crashes and unlocks there are.                *)
THEOREM Exclusion == Spec => []Exclusive
<1>1. IInv => Exclusive
  BY DEF IInv, Base, Guarded
<1> QED
  BY <1>1, Invariance, PTL

(* data always holds a linked chain, also after a compaction has put back an *)
(* older one, after rotations, crashes inside a commit and replayed logs, as *)
(* long as no two compactions overlap and no swap finds LOCK or a log.       *)
THEOREM DataVerifies == Spec => []AlwaysVerifies
<1>1. IInv => AlwaysVerifies
  BY DEF IInv, Steady, Sound, AlwaysVerifies
<1> QED
  BY <1>1, Invariance, PTL

(* While every compaction is left alone, every block that was served is in   *)
(* data, or in data.precompact between the two renames, after any number of  *)
(* commits, compactions, failed steps, crashes, replayed logs and unlocks.   *)
THEOREM HistoryKept == Spec => []HistoryInPlace
<1>1. IInv => HistoryInPlace
  BY DEF IInv, Undisturbed, Here, Moved, HistoryInPlace
<1> QED
  BY <1>1, Invariance, PTL

(* TypeOK: with any number of processes and compactions, no height, id or    *)
(* link of a block leaves the bounds, nor does any directory.                *)
THEOREM CompactionTypeCorrect == Spec => []TypeOK
<1>1. IInv => TypeOK
  <2> SUFFICES ASSUME IInv PROVE TypeOK
    OBVIOUS
  <2>1. \A d \in Shelf(made) : d \in Index
    BY DEF Shelf
  <2>2. data \in Dir /\ old \in Dir /\ tmp \in Dir
    BY <2>1 DEF IInv, Base, Typed, Dir
  <2> QED
    BY <2>2 DEF IInv, Base, Typed, Phase, TypeOK
<1> QED
  BY <1>1, Invariance, PTL
===============================================================================
