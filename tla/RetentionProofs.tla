--------------------------- MODULE RetentionProofs ----------------------------
(*****************************************************************************)
(* Theorems about Retention, for any number of writers, names and writes,    *)
(* any limits, and prunes that take the directories in any order and stop    *)
(* anywhere.                                                                 *)
(*****************************************************************************)
EXTENDS Retention, FiniteSetTheorems, TLAPS
-------------------------------------------------------------------------------
(* The inductive invariant *)

Typed ==
  /\ files \in [Dir -> SUBSET File] /\ before \in [Dir -> SUBSET File]
  /\ job \in [Writer -> Job \cup {NoJob}]
  /\ clock \in 0..MaxTime
  /\ keep \in [Dir -> Int] /\ here \in Dir /\ left \subseteq Dir

(* A directory is a finite set of files with a name each, *)
OneName(dir) == \A f, g \in dir : Entry(f) = Entry(g) => f = g
Directories == \A d \in Dir : IsFiniteSet(files[d]) /\ OneName(files[d])

(* and an inode of its own. *)
Inodes ==
  /\ \A c, d \in Dir : \A f \in files[c], g \in files[d] : f.inode = g.inode => c = d /\ f = g
  /\ \A d \in Dir : \A f \in files[d] : f.inode <= clock

(* The file a writer has open is where it was created, perhaps under its     *)
(* final name by now.                                                        *)
Follows(w) ==
  \A d \in Dir : \A f \in files[d] :
    f.inode = job[w].inode => d = job[w].dir /\ f.name = job[w].name

(* A writer that has its name to itself has the temporary file open, nobody  *)
(* has written into it, and what it renames is what it has written.          *)
Target(w) == <<job[w].dir, job[w].name>>
Own(j, f) ==
  f.name = j.name =>
    /\ f.tmp <=> f.inode = j.inode
    /\ f.tmp => f.content = IF j.at = "opened" THEN "empty" ELSE "whole"
Owns(w) == Target(w) \notin shared => \A f \in files[job[w].dir] : Own(job[w], f)

AtWork == \A w \in Writer : Busy(w) => job[w].inode <= clock /\ Follows(w) /\ Owns(w)
Sole ==
  \A v, w \in Writer :
    Busy(v) /\ Busy(w) /\ Target(v) = Target(w) /\ Target(w) \notin shared => v = w

(* Since a prune was started beside which nothing is written, files have     *)
(* only gone, and what is still to go has enough newer files beside it.      *)
Expendable(n, dir, f) == n >= 0 /\ Cardinality({g \in dir : g.mod > f.mod}) >= n

Pruned ==
  /\ \A d \in Dir : files[d] \subseteq before[d] /\ IsFiniteSet(before[d]) /\ OneName(before[d])
  /\ \A d \in Dir : \A f \in before[d] : f \in files[d] \/ Expendable(keep[d], before[d], f)
  /\ pc = "removing" =>
       \A f \in before[here] :
         Entry(f) \in doomed => Expendable(keep[here], before[here], f)

Filed == Directories /\ Inodes /\ FinalWhole
Written == AtWork /\ Sole
IInv == Typed /\ Filed /\ Written /\ (apart => Pruned)
-------------------------------------------------------------------------------
(* The writers *)

LEMMA JobIs ==
  ASSUME Typed, NEW w \in Writer, Busy(w)
  PROVE  /\ job[w] \in Job /\ job[w].dir \in Dir /\ job[w].name \in 1..MaxNames
         /\ job[w].inode \in 1..MaxTime /\ job[w].at \in {"opened", "written"}
<1>1. job[w] \in Job \cup {NoJob} /\ job[w].at # "off"
  BY DEF Typed, Busy
<1>2. NoJob.at = "off"
  BY DEF NoJob
<1>3. job[w] \in Job
  BY <1>1, <1>2
<1> QED
  BY <1>3 DEF Job

(* A file takes the place of what had its name.                              *)
LEMMA Replaced ==
  ASSUME NEW dir \in SUBSET File, IsFiniteSet(dir), OneName(dir),
         NEW gone \in SUBSET dir, NEW f \in File,
         \A g \in dir : Entry(g) = Entry(f) => g \in gone
  PROVE  /\ (dir \ gone) \cup {f} \in SUBSET File
         /\ IsFiniteSet((dir \ gone) \cup {f}) /\ OneName((dir \ gone) \cup {f})
<1>1. IsFiniteSet(dir \ gone)
  BY FS_Subset, dir \ gone \subseteq dir
<1>2. IsFiniteSet((dir \ gone) \cup {f})
  BY <1>1, FS_AddElement
<1>3. OneName((dir \ gone) \cup {f})
  BY DEF OneName
<1> QED
  BY <1>2, <1>3

(* In directory d the files of gone, all of one name, make way for g, which  *)
(* has the inode of one of them or a new one: the directories stay in order, *)
(* and other names are not touched.                                          *)
MakesWay(d, gone, g) ==
  /\ gone \in SUBSET files[d] /\ g \in File
  /\ files' = [files EXCEPT ![d] = (files[d] \ gone) \cup {g}]
  /\ \A h \in gone : h.name = g.name
  /\ \A h \in files[d] : Entry(h) = Entry(g) => h \in gone
  /\ g.inode > clock \/ \E h \in gone : h.inode = g.inode
  /\ clock' \in 0..MaxTime /\ clock <= clock' /\ g.inode <= clock'
  /\ shared \subseteq shared'
  /\ ~g.tmp /\ <<d, g.name>> \notin shared' => g.content = "whole"

LEMMA Rewritten ==
  ASSUME Typed, Filed, NEW d \in Dir, NEW gone, NEW g, MakesWay(d, gone, g)
  PROVE  /\ files' \in [Dir -> SUBSET File] /\ Filed'
         /\ \A c \in Dir : \A h \in files'[c] : h.inode = g.inode => c = d /\ h = g
         /\ \A c \in Dir : \A h \in files'[c] : (h = g /\ c = d) \/ h \in files[c]
         /\ \A c \in Dir : \A h \in files[c] : h.inode = g.inode => c = d /\ h \in gone
<1> USE DEF MakesWay
<1> DEFINE dir == (files[d] \ gone) \cup {g}
<1>1. files[d] \in SUBSET File /\ IsFiniteSet(files[d]) /\ OneName(files[d])
  BY DEF Typed, Filed, Directories
<1>2. dir \in SUBSET File /\ IsFiniteSet(dir) /\ OneName(dir)
  BY <1>1, Replaced
<1>3. files' = [files EXCEPT ![d] = dir]
  OBVIOUS
<1>4. files' \in [Dir -> SUBSET File] /\ \A c \in Dir : files'[c] = IF c = d THEN dir ELSE files[c]
  BY <1>2, <1>3 DEF Typed
<1>5. Directories'
  <2> HIDE DEF dir
  <2> QED
    BY <1>2, <1>4 DEF Filed, Directories
<1>6. \A c \in Dir : \A h \in files'[c] : (h = g /\ c = d) \/ (h \in files[c] /\ (c = d => h \notin gone))
  BY <1>4
<1> HIDE DEF dir
<1>7. \A c \in Dir : \A h \in files[c] : h.inode \in Nat /\ h.inode <= clock
  BY BoundsAssumption DEF Typed, Filed, Inodes, File
<1>8. clock \in Nat /\ clock' \in Nat /\ g.inode \in Nat
  BY BoundsAssumption DEF Typed, File
<1>9. ASSUME NEW c \in Dir, NEW h \in files[c], h.inode = g.inode
      PROVE  c = d /\ h \in gone
  <2>1. h.inode <= clock
    BY <1>7
  <2>2. PICK k \in gone : k.inode = g.inode
    BY <1>7, <1>8, <1>9, <2>1
  <2>3. c = d /\ h = k
    BY <1>9, <2>2 DEF Filed, Inodes
  <2> QED
    BY <2>2, <2>3
<1>10. \A c \in Dir : \A h \in files'[c] : h.inode = g.inode => c = d /\ h = g
  BY <1>6, <1>9
<1>11. Inodes'
  <2>1. ASSUME NEW b \in Dir, NEW c \in Dir, NEW h \in files'[b], NEW k \in files'[c],
               h.inode = k.inode
        PROVE  b = c /\ h = k
    <3>1. CASE h.inode = g.inode
      BY <1>10, <2>1, <3>1
    <3>2. CASE h.inode # g.inode
      <4>1. h \in files[b] /\ k \in files[c]
        BY <1>6, <2>1, <3>2
      <4> QED
        BY <2>1, <4>1 DEF Filed, Inodes
    <3> QED
      BY <3>1, <3>2
  <2>2. ASSUME NEW c \in Dir, NEW h \in files'[c] PROVE h.inode <= clock'
    BY <1>6, <1>7, <1>8
  <2> QED
    BY <2>1, <2>2 DEF Inodes
<1>12. FinalWhole'
  <2>1. ASSUME NEW c \in Dir, NEW h \in files'[c], ~h.tmp, <<c, h.name>> \notin shared'
        PROVE  h.content = "whole"
    <3>1. CASE h = g /\ c = d
      BY <2>1, <3>1
    <3>2. CASE h \in files[c]
      BY <2>1, <3>2 DEF Filed, FinalWhole
    <3> QED
      BY <1>6, <3>1, <3>2
  <2> QED
    BY <2>1 DEF FinalWhole
<1> QED
  BY <1>4, <1>5, <1>6, <1>9, <1>10, <1>11, <1>12 DEF Filed

(* A writer that goes on as it was, while another name is rewritten or its   *)
(* own by a writer that shares it                                            *)
LEMMA OthersAtWork ==
  ASSUME Typed, Written, NEW d \in Dir, NEW g \in File,
         NEW v \in Writer, Busy(v), job'[v] = job[v],
         clock \in Nat, clock' \in Nat, clock <= clock', shared \subseteq shared',
         \A c \in Dir : \A h \in files'[c] : (h = g /\ c = d) \/ h \in files[c],
         g.inode > clock \/ \E h \in files[d] : h.inode = g.inode /\ h.name = g.name,
         Target(v) = <<d, g.name>> => Target(v) \in shared'
  PROVE  job'[v].inode <= clock' /\ Follows(v)' /\ Owns(v)'
<1>1. job[v].inode <= clock /\ Follows(v) /\ Owns(v)
  BY DEF Written, AtWork
<1>2. job[v].inode \in Nat /\ g.inode \in Nat /\ job[v].dir \in Dir
  BY JobIs, BoundsAssumption DEF File
<1>3. job'[v].inode <= clock'
  BY <1>1, <1>2
<1>4. ASSUME NEW c \in Dir, NEW h \in files'[c], h.inode = job'[v].inode
      PROVE  c = job'[v].dir /\ h.name = job'[v].name
  <2>1. CASE h \in files[c]
    BY <1>1, <1>4, <2>1 DEF Follows
  <2>2. CASE h = g /\ c = d
    <3>1. PICK k \in files[d] : k.inode = g.inode /\ k.name = g.name
      BY <1>1, <1>2, <1>4, <2>2
    <3> QED
      BY <1>1, <1>4, <2>2, <3>1 DEF Follows
  <2> QED
    BY <2>1, <2>2
<1>5. ASSUME Target(v)' \notin shared', NEW h \in files'[job'[v].dir]
      PROVE  Own(job'[v], h)
  <2>1. Target(v)' = Target(v) /\ Target(v) \notin shared
    BY <1>5 DEF Target
  <2>2. CASE h \in files[job[v].dir]
    BY <1>1, <2>1, <2>2 DEF Owns
  <2>3. CASE h = g /\ job[v].dir = d
    <3>1. g.name # job[v].name
      BY <1>5, <2>1, <2>3 DEF Target
    <3> QED
      BY <2>3, <3>1 DEF Own
  <2> QED
    BY <1>2, <2>2, <2>3
<1> QED
  BY <1>3, <1>4, <1>5 DEF Follows, Owns

LEMMA DisturbsStep ==
  ASSUME Typed, Disturbs, UNCHANGED prune,
         files' \in [Dir -> SUBSET File], job' \in [Writer -> Job \cup {NoJob}],
         clock' \in 0..MaxTime, Filed', Written'
  PROVE  IInv'
<1>1. before' \in [Dir -> SUBSET File] /\ ~apart'
  BY DEF Disturbs
<1> QED
  BY <1>1 DEF IInv, Typed, prune

(* The file that CreateTmp leaves: of the next inode, or of the one that the *)
(* temporary file had.                                                       *)
LEMMA TruncatedIs ==
  ASSUME Typed, Filed, NEW d \in Dir, NEW n \in 1..MaxNames, clock < MaxTime
  PROVE  LET t == Truncated(d, n, TRUE)
             g == [t EXCEPT !.mod = clock + 1]
         IN  /\ g \in File /\ g.name = n /\ g.tmp /\ g.content = "empty" /\ g.inode = t.inode
             /\ Entry(t) = <<n, TRUE>> /\ Entry(g) = <<n, TRUE>>
             /\ g.inode > clock \/ \E h \in Named(d, <<n, TRUE>>) : h.inode = g.inode
             /\ g.inode <= clock + 1
<1> DEFINE old == Named(d, <<n, TRUE>>)
           i == IF old = {} THEN clock + 1 ELSE (CHOOSE f \in old : TRUE).inode
           t == [name |-> n, tmp |-> TRUE, content |-> "empty", mod |-> 0, inode |-> i]
           g == [t EXCEPT !.mod = clock + 1]
<1>1. Truncated(d, n, TRUE) = t
  BY DEF Truncated
<1>2. clock \in Nat /\ clock + 1 \in 1..MaxTime
  BY BoundsAssumption DEF Typed
<1>3. /\ i \in 1..MaxTime /\ i <= clock + 1
      /\ i > clock \/ \E h \in old : h.inode = i
  <2>1. CASE old = {}
    BY <1>2, <2>1
  <2>2. CASE old # {}
    <3> DEFINE f == CHOOSE f \in old : TRUE
    <3>1. f \in old /\ i = f.inode
      BY <2>2
    <3> HIDE DEF f, i
    <3>2. f \in files[d] /\ f \in File /\ f.inode <= clock
      BY <3>1 DEF Named, Typed, Filed, Inodes
    <3>3. f.inode \in 1..MaxTime
      BY <3>2 DEF File
    <3> HIDE DEF old
    <3>4. f.inode \in Nat
      BY <3>3, BoundsAssumption
    <3> QED
      BY <1>2, <3>1, <3>2, <3>3, <3>4
  <2> QED
    BY <2>1, <2>2
<1> HIDE DEF i
<1> HIDE DEF old
<1>4. /\ t \in [name : 1..MaxNames, tmp : BOOLEAN, content : {"empty", "torn", "whole"},
               mod : Nat, inode : 1..MaxTime]
      /\ t.name = n /\ t.tmp /\ t.content = "empty" /\ t.inode = i
  BY <1>3
<1> HIDE DEF t
<1>5. /\ g.name = n /\ g.tmp /\ g.content = "empty" /\ g.inode = i /\ t.inode = i
  BY <1>4
<1>6. g \in File
  BY <1>2, <1>4 DEF File
<1>7. Entry(t) = <<n, TRUE>> /\ Entry(g) = <<n, TRUE>>
  BY <1>4, <1>5 DEF Entry
<1>8. g.name = n /\ g.tmp /\ g.content = "empty" /\ g.inode = t.inode
  BY <1>5
<1>9. g.inode > clock \/ \E h \in old : h.inode = g.inode
  BY <1>3, <1>5
<1>10. g.inode <= clock + 1
  BY <1>3, <1>5
<1> QED
  BY <1>1, <1>6, <1>7, <1>8, <1>9, <1>10 DEF old

LEMMA CreateTmpStep ==
  ASSUME IInv, NEW w \in Writer, NEW d \in Dir, NEW n \in 1..MaxNames, CreateTmp(w, d, n)
  PROVE  IInv'
<1> DEFINE t == Truncated(d, n, TRUE)
           g == [t EXCEPT !.mod = clock + 1]
           gone == Named(d, <<n, TRUE>>)
           j == [at |-> "opened", dir |-> d, name |-> n, inode |-> t.inode]
<1>1. Typed /\ Filed /\ Written
  BY DEF IInv
<1>2. /\ ~Busy(w) /\ clock < MaxTime /\ clock' = clock + 1
      /\ files' = [files EXCEPT ![d] = (files[d] \ Named(d, Entry(t))) \cup {g}]
      /\ job' = [job EXCEPT ![w] = j]
      /\ shared' = IF \E v \in Writer : Busy(v) /\ job[v].dir = d /\ job[v].name = n
                   THEN shared \cup {<<d, n>>} ELSE shared
      /\ Disturbs /\ UNCHANGED prune
  BY <1>1 DEF CreateTmp, Opens, Gets, Typed
<1>3. /\ g \in File /\ g.name = n /\ g.tmp /\ g.content = "empty" /\ g.inode = t.inode
      /\ Entry(t) = <<n, TRUE>> /\ Entry(g) = <<n, TRUE>>
      /\ g.inode > clock \/ \E h \in gone : h.inode = g.inode
      /\ g.inode <= clock + 1
  BY <1>1, <1>2, TruncatedIs
<1>4. clock \in Nat /\ clock + 1 \in 0..MaxTime /\ clock <= clock + 1
  BY <1>1, <1>2, BoundsAssumption DEF Typed
<1>5. gone \in SUBSET files[d] /\ \A h \in gone : h.name = n /\ h.tmp /\ Entry(h) = <<n, TRUE>>
  BY DEF Named, Entry
<1>6. \A h \in files[d] : Entry(h) = Entry(g) => h \in gone
  BY <1>3 DEF Named
<1>7. files' = [files EXCEPT ![d] = (files[d] \ gone) \cup {g}]
  BY <1>2, <1>3
<1>8. j \in Job /\ j.at = "opened" /\ j.dir = d /\ j.name = n /\ j.inode = g.inode
  <2>1. g.inode \in 1..MaxTime
    BY <1>3 DEF File
  <2> QED
    BY <1>3, <2>1 DEF Job
<1>9. shared \subseteq shared'
  BY <1>2
<1> HIDE DEF t, g, gone, j
<1>10. /\ files' \in [Dir -> SUBSET File] /\ Filed'
       /\ \A c \in Dir : \A h \in files'[c] : h.inode = g.inode => c = d /\ h = g
       /\ \A c \in Dir : \A h \in files'[c] : (h = g /\ c = d) \/ h \in files[c]
  <2>1. /\ \A h \in gone : h.name = g.name
        /\ clock' \in 0..MaxTime /\ clock <= clock' /\ g.inode <= clock'
    BY <1>2, <1>3, <1>4, <1>5
  <2>2. ~g.tmp /\ <<d, g.name>> \notin shared' => g.content = "whole"
    BY <1>3
  <2>3. g \in File /\ (g.inode > clock \/ \E h \in gone : h.inode = g.inode)
    BY <1>3
  <2>4. MakesWay(d, gone, g)
    BY <1>5, <1>6, <1>7, <1>9, <2>1, <2>2, <2>3, Zenon DEF MakesWay
  <2> QED
    BY <1>1, <2>4, Rewritten
<1>11. job' \in [Writer -> Job \cup {NoJob}] /\ job'[w] = j /\ \A v \in Writer \ {w} : job'[v] = job[v]
  BY <1>1, <1>2, <1>8 DEF Typed
<1>12. ASSUME NEW v \in Writer \ {w}, Busy(v), Target(v) = <<d, n>> PROVE Target(v) \in shared'
  BY <1>2, <1>12 DEF Target
<1>13. ASSUME NEW v \in Writer, Busy(v)'
       PROVE  job'[v].inode <= clock' /\ Follows(v)' /\ Owns(v)'
  <2>1. CASE v = w
    <3>1. job'[v] = j
      BY <1>11, <2>1
    <3>2. job'[v].inode <= clock'
      BY <1>2, <1>3, <1>8, <3>1
    <3>3. Follows(v)'
      <4>1. ASSUME NEW c \in Dir, NEW h \in files'[c], h.inode = job'[v].inode
            PROVE  c = job'[v].dir /\ h.name = job'[v].name
        BY <1>3, <1>8, <1>10, <3>1, <4>1
      <4> QED
        BY <4>1 DEF Follows
    <3>4. ASSUME NEW h \in files'[d] PROVE Own(j, h)
      <4>1. CASE h = g
        BY <1>3, <1>8, <4>1 DEF Own
      <4>2. CASE h # g /\ h.name = n
        <5>1. h \in files[d] /\ h \notin gone
          BY <1>7, <1>10, <4>2 DEF IInv, Typed
        <5>2. h \in File /\ ~(Entry(h) = <<n, TRUE>>)
          BY <1>1, <1>3, <1>6, <5>1 DEF Typed
        <5>3. ~h.tmp
          BY <4>2, <5>2 DEF Entry, File
        <5>4. h.inode # j.inode
          BY <1>8, <1>10, <4>2
        <5> QED
          BY <4>2, <5>3, <5>4 DEF Own
      <4> QED
        BY <1>8, <4>1, <4>2 DEF Own
    <3>5. Owns(v)'
      BY <1>8, <3>1, <3>4 DEF Owns
    <3> QED
      BY <3>2, <3>3, <3>5
  <2>2. CASE v # w
    <3>1. job'[v] = job[v] /\ Busy(v)
      BY <1>11, <1>13, <2>2 DEF Busy
    <3>2. g.inode > clock \/ \E h \in files[d] : h.inode = g.inode /\ h.name = g.name
      BY <1>3, <1>5
    <3>3. Target(v) = <<d, g.name>> => Target(v) \in shared'
      BY <1>3, <1>12, <2>2, <3>1
    <3>4. clock' \in Nat /\ clock <= clock'
      BY <1>2, <1>4
    <3> QED
      BY <1>1, <1>3, <1>4, <1>9, <1>10, <3>1, <3>2, <3>3, <3>4, OthersAtWork
  <2> QED
    BY <2>1, <2>2
<1>14. Sole'
  <2>1. ASSUME NEW v \in Writer, NEW u \in Writer, Busy(v)', Busy(u)', Target(v)' = Target(u)',
               Target(u)' \notin shared'
        PROVE  v = u
    <3>1. CASE v # w /\ u # w
      <4>1. Busy(v) /\ Busy(u) /\ Target(v) = Target(u) /\ Target(u) \notin shared
        BY <1>9, <1>11, <2>1, <3>1 DEF Busy, Target
      <4> QED
        BY <1>1, <4>1 DEF Written, Sole
    <3>2. ASSUME NEW x \in Writer \ {w}, Busy(x)', Target(x)' = Target(w)', Target(w)' \notin shared'
          PROVE  FALSE
      <4>1. Busy(x) /\ Target(x) = Target(x)' /\ Target(w)' = <<d, n>>
        BY <1>8, <1>11, <3>2 DEF Busy, Target
      <4> QED
        BY <1>12, <3>2, <4>1
    <3> QED
      BY <2>1, <3>1, <3>2
  <2> QED
    BY <2>1 DEF Sole
<1>15. Written'
  BY <1>13, <1>14 DEF Written, AtWork
<1> QED
  BY <1>1, <1>2, <1>4, <1>10, <1>11, <1>15, DisturbsStep

(* Without a new writer, one name is still written by one writer at most.    *)
LEMMA StillSole ==
  ASSUME Written, shared' = shared,
         \A v \in Writer : Busy(v)' => Busy(v) /\ job'[v].dir = job[v].dir /\ job'[v].name = job[v].name
  PROVE  Sole'
<1>1. \A v \in Writer : Busy(v)' => Target(v)' = Target(v)
  BY DEF Target
<1> QED
  BY <1>1 DEF Written, Sole

(* Writer w puts x into its file. What it has its own name for stays its own *)
(* temporary file, and what others have stays theirs.                        *)
LEMMA PutsStep ==
  ASSUME Typed, Filed, Written, NEW w \in Writer, Busy(w), NEW x \in {"torn", "whole"},
         Puts(w, x), shared' = shared,
         \A v \in Writer \ {w} : job'[v] = job[v]
  PROVE  /\ files' \in [Dir -> SUBSET File] /\ clock' \in 0..MaxTime /\ Filed'
         /\ \A v \in Writer \ {w} : Busy(v) => job'[v].inode <= clock' /\ Follows(v)' /\ Owns(v)'
         /\ clock <= clock'
         /\ \A d \in Dir : \A h \in files'[d] :
              \/ h \in files[d] /\ h.inode # job[w].inode
              \/ /\ d = job[w].dir /\ h.content = x
                 /\ \E f \in files[d] : /\ f.inode = job[w].inode /\ h.inode = f.inode
                                        /\ h.name = f.name /\ h.tmp = f.tmp
<1> DEFINE d == job[w].dir
           n == job[w].name
<1>1. d \in Dir /\ Follows(w) /\ Owns(w) /\ clock \in Nat
  BY JobIs, BoundsAssumption DEF Written, AtWork, Typed
<1>2. CASE OpenFile(w) = {} /\ UNCHANGED <<files, clock>>
  <2>1. \A c \in Dir : \A h \in files[c] : h.inode # job[w].inode
    BY <1>1, <1>2 DEF OpenFile, Follows
  <2>2. Filed'
    BY <1>2 DEF Filed, Directories, Inodes, FinalWhole
  <2>3. ASSUME NEW v \in Writer \ {w}, Busy(v)
        PROVE  job'[v].inode <= clock' /\ Follows(v)' /\ Owns(v)'
    <3>1. job[v].inode <= clock /\ Follows(v) /\ Owns(v) /\ job'[v] = job[v]
      BY <2>3 DEF Written, AtWork
    <3> QED
      BY <1>2, <3>1 DEF Follows, Owns, Target
  <2> QED
    BY <1>1, <1>2, <2>1, <2>2, <2>3 DEF Typed
<1>3. CASE \E f \in OpenFile(w) : Gets(d, {f}, [f EXCEPT !.content = x])
  <2>1. PICK f \in OpenFile(w) : Gets(d, {f}, [f EXCEPT !.content = x])
    BY <1>3
  <2> DEFINE g == [f EXCEPT !.content = x, !.mod = clock + 1]
  <2>2. f \in files[d] /\ f.inode = job[w].inode /\ f \in File
    BY <1>1, <2>1 DEF OpenFile, Typed
  <2>3. f.name = n
    BY <1>1, <2>2 DEF Follows
  <2>4. clock < MaxTime /\ clock' = clock + 1 /\ clock + 1 \in 1..MaxTime
    BY <1>1, <2>1, BoundsAssumption DEF Gets
  <2>5. [[f EXCEPT !.content = x] EXCEPT !.mod = clock + 1] = g
    BY <2>2 DEF File
  <2>6. files' = [files EXCEPT ![d] = (files[d] \ {f}) \cup {g}]
    BY <1>1, <2>1, <2>5 DEF Gets, Typed
  <2>7. g \in File /\ g.name = f.name /\ g.tmp = f.tmp /\ g.inode = f.inode /\ g.content = x
    BY <2>2, <2>4 DEF File
  <2> HIDE DEF g
  <2>8. \A h \in files[d] : Entry(h) = Entry(g) => h \in {f}
    <3>1. OneName(files[d]) /\ Entry(g) = Entry(f)
      BY <1>1, <2>7 DEF Filed, Directories, Entry
    <3> QED
      BY <2>2, <3>1 DEF OneName
  <2>9. ~g.tmp /\ <<d, g.name>> \notin shared' => g.content = "whole"
    <3>1. <<d, n>> \notin shared => f.tmp
      BY <1>1, <2>2, <2>3 DEF Owns, Own, Target
    <3> QED
      BY <2>3, <2>7, <3>1
  <2>10. clock' \in 0..MaxTime /\ clock <= clock' /\ g.inode <= clock' /\ clock' \in Nat
    <3>1. f.inode <= clock /\ f.inode \in Nat
      BY <1>1, <2>2, BoundsAssumption DEF Filed, Inodes, File
    <3> QED
      BY <1>1, <2>4, <2>7, <3>1
  <2> HIDE DEF d, n
  <2>11. /\ files' \in [Dir -> SUBSET File] /\ Filed'
         /\ \A c \in Dir : \A h \in files'[c] : h.inode = g.inode => c = d /\ h = g
         /\ \A c \in Dir : \A h \in files'[c] : (h = g /\ c = d) \/ h \in files[c]
    <3>1. {f} \in SUBSET files[d] /\ \A h \in {f} : h.name = g.name
      BY <2>2, <2>7
    <3>2. g \in File /\ (g.inode > clock \/ \E h \in {f} : h.inode = g.inode)
      BY <2>7
    <3>3. shared \subseteq shared'
      OBVIOUS
    <3>4. MakesWay(d, {f}, g)
      BY <2>6, <2>8, <2>9, <2>10, <3>1, <3>2, <3>3, Zenon DEF MakesWay
    <3> QED
      BY <1>1, <3>4, Rewritten
  <2>12. ASSUME NEW v \in Writer \ {w}, Busy(v)
         PROVE  job'[v].inode <= clock' /\ Follows(v)' /\ Owns(v)'
    <3>1. Target(v) = <<d, g.name>> => Target(v) \in shared'
      <4>1. Target(w) = <<d, g.name>>
        BY <2>3, <2>7 DEF Target, d, n
      <4> QED
        BY <2>12, <4>1 DEF Written, Sole
    <3>2. \E h \in files[d] : h.inode = g.inode /\ h.name = g.name
      BY <2>2, <2>7
    <3> QED
      BY <1>1, <2>7, <2>10, <2>11, <2>12, <3>1, <3>2, OthersAtWork
  <2>13. ASSUME NEW c \in Dir, NEW h \in files'[c]
         PROVE  \/ h \in files[c] /\ h.inode # job[w].inode
                \/ /\ c = job[w].dir /\ h.content = x
                   /\ \E k \in files[c] : /\ k.inode = job[w].inode /\ h.inode = k.inode
                                          /\ h.name = k.name /\ h.tmp = k.tmp
    <3>1. CASE h.inode = g.inode
      <4>1. c = d /\ h = g
        BY <2>11, <3>1
      <4> QED
        BY <2>2, <2>7, <4>1 DEF d
    <3>2. CASE h.inode # g.inode
      BY <2>2, <2>7, <2>11, <3>2
    <3> QED
      BY <3>1, <3>2
  <2> QED
    BY <2>10, <2>11, <2>12, <2>13
<1> QED
  BY <1>2, <1>3 DEF Puts

(* Only writers that have been there go on: the invariant of the writers     *)
LEMMA WrittenStep ==
  ASSUME Written, shared' = shared, NEW w \in Writer,
         \A v \in Writer \ {w} : job'[v] = job[v],
         \A v \in Writer \ {w} : Busy(v) => job'[v].inode <= clock' /\ Follows(v)' /\ Owns(v)',
         \/ ~Busy(w)'
         \/ /\ Busy(w) /\ job'[w].dir = job[w].dir /\ job'[w].name = job[w].name
            /\ job'[w].inode <= clock' /\ Follows(w)' /\ Owns(w)'
  PROVE  Written'
<1>1. \A v \in Writer \ {w} : Busy(v)' => Busy(v)
  BY DEF Busy
<1>2. \A v \in Writer :
        Busy(v)' => Busy(v) /\ job'[v].dir = job[v].dir /\ job'[v].name = job[v].name
  BY <1>1
<1>3. Sole'
  BY <1>2, StillSole
<1>4. AtWork'
  BY <1>1 DEF AtWork
<1> QED
  BY <1>3, <1>4 DEF Written

LEMMA FillTmpStep ==
  ASSUME IInv, NEW w \in Writer, FillTmp(w)
  PROVE  IInv'
<1>1. Typed /\ Filed /\ Written /\ job[w].at = "opened" /\ Busy(w)
  BY DEF IInv, FillTmp, Busy
<1>2. PICK x \in {"torn", "whole"} :
        Puts(w, x) /\ (x = "torn" => \E f \in OpenFile(w) : f.content # "empty")
  BY DEF FillTmp
<1>3. /\ job' = [job EXCEPT ![w].at = "written"] /\ shared' = shared
      /\ Disturbs /\ UNCHANGED prune
  BY DEF FillTmp
<1>4. /\ job[w] \in Job /\ job[w].dir \in Dir /\ job[w].inode \in Nat
      /\ job[w].inode <= clock /\ Follows(w) /\ Owns(w)
  BY <1>1, JobIs, BoundsAssumption DEF Written, AtWork
<1>5. /\ job'[w] \in Job /\ job'[w].at = "written" /\ job'[w].dir = job[w].dir
      /\ job'[w].name = job[w].name /\ job'[w].inode = job[w].inode
      /\ \A v \in Writer \ {w} : job'[v] = job[v]
      /\ job' \in [Writer -> Job \cup {NoJob}]
  BY <1>1, <1>3, <1>4 DEF Typed, Job
<1>6. /\ files' \in [Dir -> SUBSET File] /\ clock' \in 0..MaxTime /\ Filed'
      /\ \A v \in Writer \ {w} : Busy(v) => job'[v].inode <= clock' /\ Follows(v)' /\ Owns(v)'
      /\ clock <= clock'
      /\ \A d \in Dir : \A h \in files'[d] :
           \/ h \in files[d] /\ h.inode # job[w].inode
           \/ /\ d = job[w].dir /\ h.content = x
              /\ \E f \in files[d] : /\ f.inode = job[w].inode /\ h.inode = f.inode
                                     /\ h.name = f.name /\ h.tmp = f.tmp
  BY <1>1, <1>2, <1>3, <1>5, PutsStep
<1>7. job'[w].inode <= clock'
  BY <1>1, <1>4, <1>5, <1>6, BoundsAssumption DEF Typed
<1>8. Follows(w)'
  <2>1. ASSUME NEW d \in Dir, NEW h \in files'[d], h.inode = job'[w].inode
        PROVE  d = job'[w].dir /\ h.name = job'[w].name
    BY <1>4, <1>5, <1>6, <2>1 DEF Follows
  <2> QED
    BY <2>1 DEF Follows
<1>9. Owns(w)'
  <2>1. ASSUME Target(w)' \notin shared', NEW h \in files'[job[w].dir], h.name = job[w].name
        PROVE  Own(job'[w], h)
    <3>1. \A f \in files[job[w].dir] : Own(job[w], f)
      BY <1>3, <1>4, <1>5, <2>1 DEF Owns, Target
    <3>2. CASE h \in files[job[w].dir] /\ h.inode # job[w].inode
      BY <1>5, <2>1, <3>1, <3>2 DEF Own
    <3>3. CASE /\ h.content = x
               /\ \E f \in files[job[w].dir] : /\ f.inode = job[w].inode /\ h.inode = f.inode
                                               /\ h.name = f.name /\ h.tmp = f.tmp
      <4>1. PICK f \in files[job[w].dir] : /\ f.inode = job[w].inode /\ h.inode = f.inode
                                           /\ h.name = f.name /\ h.tmp = f.tmp
        BY <3>3
      <4>2. f.tmp
        BY <2>1, <3>1, <4>1 DEF Own
      <4>3. x = "whole"
        <5>1. \A k \in OpenFile(w) : k.content = "empty"
          <6>1. ASSUME NEW k \in OpenFile(w) PROVE k.content = "empty"
            <7>1. k \in files[job[w].dir] /\ k.inode = job[w].inode /\ k.name = job[w].name
              BY <1>4 DEF OpenFile, Follows
            <7> QED
              BY <1>1, <3>1, <7>1 DEF Own
          <6> QED
            BY <6>1
        <5> QED
          BY <1>2, <5>1
      <4> QED
        BY <1>5, <3>3, <4>1, <4>2, <4>3 DEF Own
    <3> QED
      BY <1>4, <1>6, <3>2, <3>3
  <2>2. \A h \in files'[job'[w].dir] : h.name # job'[w].name => Own(job'[w], h)
    BY DEF Own
  <2> QED
    BY <1>5, <2>1, <2>2 DEF Owns
<1>10. Written'
  BY <1>1, <1>3, <1>5, <1>6, <1>7, <1>8, <1>9, WrittenStep
<1> QED
  BY <1>1, <1>3, <1>5, <1>6, <1>10, DisturbsStep

LEMMA RenameTmpStep ==
  ASSUME IInv, NEW w \in Writer, RenameTmp(w)
  PROVE  IInv'
<1> DEFINE d == job[w].dir
           n == job[w].name
<1>1. Typed /\ Filed /\ Written /\ job[w].at = "written" /\ Busy(w)
  BY DEF IInv, RenameTmp, Busy
<1>2. d \in Dir /\ Owns(w) /\ clock \in Nat
  BY <1>1, JobIs, BoundsAssumption DEF Written, AtWork, Typed
<1>3. PICK f \in Named(d, <<n, TRUE>>) :
        files' = [files EXCEPT ![d] =
          (files[d] \ ({f} \cup Named(d, <<f.name, FALSE>>))) \cup {[f EXCEPT !.tmp = FALSE]}]
  BY <1>1, <1>2 DEF RenameTmp, Typed
<1>4. job' = [job EXCEPT ![w] = NoJob] /\ clock' = clock /\ shared' = shared
      /\ Disturbs /\ UNCHANGED prune
  BY DEF RenameTmp
<1> DEFINE gone == {f} \cup Named(d, <<f.name, FALSE>>)
           g == [f EXCEPT !.tmp = FALSE]
<1>5. f \in files[d] /\ f \in File /\ f.name = n /\ f.tmp
  BY <1>1, <1>2 DEF Named, Entry, Typed
<1>6. /\ g \in File /\ g.name = n /\ ~g.tmp /\ g.inode = f.inode /\ g.content = f.content
      /\ Entry(g) = <<n, FALSE>>
  BY <1>5 DEF File, Entry
<1>7. files' = [files EXCEPT ![d] = (files[d] \ gone) \cup {g}]
  BY <1>3
<1>8. /\ gone \in SUBSET files[d] /\ \A h \in gone : h.name = g.name
      /\ \E h \in gone : h.inode = g.inode
      /\ \A h \in files[d] : Entry(h) = Entry(g) => h \in gone
  BY <1>5, <1>6 DEF Named, Entry
<1>9. <<d, n>> \notin shared => f.content = "whole"
  BY <1>1, <1>2, <1>5 DEF Owns, Own, Target
<1>10. f.inode <= clock
  BY <1>1, <1>2, <1>5 DEF Filed, Inodes
<1> HIDE DEF d, n, gone, g
<1>11. MakesWay(d, gone, g)
  <2>1. clock' \in 0..MaxTime /\ clock <= clock' /\ g.inode <= clock'
    BY <1>1, <1>2, <1>4, <1>6, <1>10 DEF Typed
  <2>2. ~g.tmp /\ <<d, g.name>> \notin shared' => g.content = "whole"
    BY <1>4, <1>6, <1>9
  <2>3. shared \subseteq shared'
    BY <1>4
  <2> QED
    BY <1>6, <1>7, <1>8, <2>1, <2>2, <2>3, Zenon DEF MakesWay
<1>12. /\ files' \in [Dir -> SUBSET File] /\ Filed'
       /\ \A c \in Dir : \A h \in files'[c] : (h = g /\ c = d) \/ h \in files[c]
  BY <1>1, <1>2, <1>11, Rewritten
<1>13. /\ job' \in [Writer -> Job \cup {NoJob}] /\ ~Busy(w)'
       /\ \A v \in Writer \ {w} : job'[v] = job[v]
  BY <1>1, <1>4 DEF Typed, Busy, NoJob
<1>14. ASSUME NEW v \in Writer \ {w}, Busy(v)
       PROVE  job'[v].inode <= clock' /\ Follows(v)' /\ Owns(v)'
  <2>1. Target(v) = <<d, g.name>> => Target(v) \in shared'
    <3>1. Target(w) = <<d, g.name>>
      BY <1>6 DEF Target, d, n
    <3> QED
      BY <1>1, <1>4, <1>14, <3>1 DEF Written, Sole
  <2>2. \E h \in files[d] : h.inode = g.inode /\ h.name = g.name
    BY <1>5, <1>6
  <2>3. clock' \in Nat /\ clock <= clock' /\ shared \subseteq shared' /\ job'[v] = job[v] /\ v \in Writer
    BY <1>2, <1>4, <1>13
  <2> QED
    BY <1>1, <1>2, <1>6, <1>12, <1>14, <2>1, <2>2, <2>3, OthersAtWork
<1>15. Written'
  BY <1>1, <1>4, <1>13, <1>14, WrittenStep
<1>16. clock' \in 0..MaxTime
  BY <1>1, <1>4 DEF Typed
<1> QED
  BY <1>1, <1>4, <1>12, <1>13, <1>15, <1>16, DisturbsStep

LEMMA WriterEndsStep ==
  ASSUME IInv, NEW w \in Writer, WriterEnds(w)
  PROVE  IInv'
<1>1. Typed /\ Filed /\ Written /\ Busy(w)
  BY DEF IInv, WriterEnds
<1>2. /\ job' = [job EXCEPT ![w] = NoJob] /\ shared' = shared
      /\ Disturbs /\ UNCHANGED prune
  BY DEF WriterEnds
<1>3. /\ job' \in [Writer -> Job \cup {NoJob}] /\ ~Busy(w)'
      /\ \A v \in Writer \ {w} : job'[v] = job[v]
  BY <1>1, <1>2 DEF Typed, Busy, NoJob
<1>4. /\ files' \in [Dir -> SUBSET File] /\ clock' \in 0..MaxTime /\ Filed'
      /\ \A v \in Writer \ {w} : Busy(v) => job'[v].inode <= clock' /\ Follows(v)' /\ Owns(v)'
  <2>1. CASE Puts(w, "torn")
    BY <1>1, <1>2, <1>3, <2>1, PutsStep
  <2>2. CASE UNCHANGED <<files, clock>>
    <3>1. Filed'
      BY <1>1, <1>2, <2>2 DEF Filed, Directories, Inodes, FinalWhole
    <3>2. ASSUME NEW v \in Writer \ {w}, Busy(v)
          PROVE  job'[v].inode <= clock' /\ Follows(v)' /\ Owns(v)'
      <4>1. job[v].inode <= clock /\ Follows(v) /\ Owns(v) /\ job'[v] = job[v]
        BY <1>1, <1>3, <3>2 DEF Written, AtWork
      <4> QED
        BY <1>2, <2>2, <4>1 DEF Follows, Owns, Target
    <3> QED
      BY <1>1, <2>2, <3>1, <3>2 DEF Typed
  <2> QED
    BY <2>1, <2>2 DEF WriterEnds
<1>5. Written'
  BY <1>1, <1>2, <1>3, <1>4, WrittenStep
<1> QED
  BY <1>1, <1>2, <1>3, <1>4, <1>5, DisturbsStep
-------------------------------------------------------------------------------
(* Prune *)

(* Removing files disturbs no writer: it goes on with what is left.          *)
LEMMA FewerFiles ==
  ASSUME Typed, Filed, Written, files' \in [Dir -> SUBSET File], UNCHANGED <<job, clock, shared>>,
         \A d \in Dir : files'[d] \subseteq files[d]
  PROVE  Filed' /\ Written'
<1>1. Directories'
  BY FS_Subset DEF Filed, Directories, OneName
<1>2. Inodes' /\ FinalWhole'
  BY DEF Filed, Inodes, FinalWhole
<1>3. ASSUME NEW v \in Writer, Busy(v)'
      PROVE  job'[v].inode <= clock' /\ Follows(v)' /\ Owns(v)'
  <2>1. Busy(v) /\ job[v].inode <= clock /\ Follows(v) /\ Owns(v)
    BY <1>3 DEF Busy, Written, AtWork
  <2>2. job[v].dir \in Dir
    BY <2>1, JobIs
  <2> QED
    BY <2>1, <2>2 DEF Follows, Owns, Target
<1>4. AtWork' /\ Sole'
  BY <1>3, StillSole DEF AtWork, Busy
<1> QED
  BY <1>1, <1>2, <1>4 DEF Filed, Written

(* Steps that leave the files alone, and the history with them               *)
LEMMA QuietStep ==
  ASSUME IInv, UNCHANGED <<files, job, clock, shared, keep, before, apart>>,
         here' \in Dir, left' \subseteq Dir,
         apart /\ pc' = "removing" =>
           \A f \in before[here'] :
             Entry(f) \in doomed' => Expendable(keep[here'], before[here'], f)
  PROVE  IInv'
<1>1. Typed'
  BY DEF IInv, Typed
<1>2. Filed' /\ Written'
  BY <1>1, FewerFiles DEF IInv, Typed
<1>3. ASSUME apart PROVE Pruned'
  <2>1. Pruned
    BY <1>3 DEF IInv
  <2>2. \A d \in Dir : \A f \in before'[d] : f \in files'[d] \/ Expendable(keep'[d], before'[d], f)
    BY <2>1 DEF Pruned
  <2>3. pc' = "removing" =>
          \A f \in before'[here'] :
            Entry(f) \in doomed' => Expendable(keep'[here'], before'[here'], f)
    BY <1>3
  <2> QED
    BY <2>1, <2>2, <2>3 DEF Pruned
<1> QED
  BY <1>1, <1>2, <1>3 DEF IInv

(* A file that has keep or more newer files in the listing has as many among *)
(* those that were there when prune was started.                             *)
LEMMA ChooseStep == IInv /\ Choose => IInv'
<1> SUFFICES ASSUME IInv, Choose PROVE IInv'
  OBVIOUS
<1>1. UNCHANGED <<files, job, clock, shared, keep, before, apart, here, left>> /\ here \in Dir
  BY DEF Choose, IInv, Typed
<1>2. ASSUME apart, NEW f \in before[here], Entry(f) \in doomed'
      PROVE  Expendable(keep[here], before[here], f)
  <2>1. PICK g \in Excess(keep[here]) : Entry(f) = Entry(g)
    BY <1>2 DEF Choose
  <2>2. g \in files[here] /\ Cardinality(Newer(g)) >= keep[here]
    BY <2>1 DEF Excess, Items
  <2>3. /\ files[here] \subseteq before[here] /\ IsFiniteSet(before[here])
        /\ OneName(before[here])
    BY <1>1, <1>2 DEF IInv, Pruned
  <2>4. g = f
    BY <2>1, <2>2, <2>3 DEF OneName
  <2>5. Newer(f) \subseteq NewerBefore(here, f) /\ NewerBefore(here, f) \subseteq before[here]
    BY <2>3 DEF Newer, Items, NewerBefore
  <2>6. IsFiniteSet(NewerBefore(here, f))
    BY <2>3, <2>5, FS_Subset
  <2>7. Cardinality(Newer(f)) <= Cardinality(NewerBefore(here, f))
    BY <2>5, <2>6, FS_Subset
  <2>8. Cardinality(Newer(f)) \in Nat /\ Cardinality(NewerBefore(here, f)) \in Nat
    BY <2>5, <2>6, FS_Subset, FS_CardinalityType
  <2>9. keep[here] \in Int /\ keep[here] >= 0
    BY <1>1 DEF IInv, Typed, Choose
  <2> QED
    BY <2>2, <2>4, <2>7, <2>8, <2>9 DEF Expendable, NewerBefore
<1>3. here' \in Dir /\ left' \subseteq Dir
  BY <1>1 DEF IInv, Typed
<1> QED
  BY <1>1, <1>2, <1>3, QuietStep

LEMMA RemoveStep ==
  ASSUME IInv, NEW e \in doomed, Remove(e)
  PROVE  IInv'
<1>1. /\ pc = "removing" /\ here \in Dir
      /\ UNCHANGED <<job, clock, shared, pc, keep, left, here, before, apart>>
  BY DEF Remove, IInv, Typed
<1> DEFINE dir == files[here] \ Named(here, e)
<1>2. files[here] \in SUBSET File
  BY <1>1 DEF IInv, Typed
<1>3. dir \in SUBSET File /\ dir \subseteq files[here]
  BY <1>2
<1>4. files' = [files EXCEPT ![here] = dir] /\ doomed' = doomed \ {e}
  BY DEF Remove
<1>5. \A f \in files[here] : f \in dir \/ Entry(f) = e
  BY DEF Named
<1> HIDE DEF dir
<1>6. files' \in [Dir -> SUBSET File] /\ \A d \in Dir : files'[d] \subseteq files[d]
  BY <1>1, <1>3, <1>4 DEF IInv, Typed
<1>7. Filed' /\ Written'
  BY <1>1, <1>6, FewerFiles DEF IInv
<1>8. Typed'
  BY <1>1, <1>6 DEF IInv, Typed
<1>9. ASSUME apart PROVE Pruned'
  <2>1. Pruned
    BY <1>9 DEF IInv
  <2>2. \A d \in Dir : files'[d] = IF d = here THEN dir ELSE files[d]
    BY <1>4 DEF IInv, Typed
  <2>3. \A d \in Dir : files'[d] \subseteq before[d]
    BY <1>3, <2>1, <2>2 DEF Pruned
  <2>4. ASSUME NEW d \in Dir, NEW f \in before[d]
        PROVE  f \in files'[d] \/ Expendable(keep[d], before[d], f)
    BY <1>1, <1>5, <2>1, <2>2 DEF Pruned
  <2>5. \A d \in Dir : \A f \in before'[d] : f \in files'[d] \/ Expendable(keep'[d], before'[d], f)
    BY <1>1, <2>4
  <2>6. \A f \in before'[here'] :
          Entry(f) \in doomed' => Expendable(keep'[here'], before'[here'], f)
    BY <1>1, <1>4, <2>1 DEF Pruned
  <2>7. \A d \in Dir :
          files'[d] \subseteq before'[d] /\ IsFiniteSet(before'[d]) /\ OneName(before'[d])
    BY <1>1, <2>1, <2>3 DEF Pruned
  <2> QED
    BY <2>5, <2>6, <2>7 DEF Pruned
<1> QED
  BY <1>1, <1>7, <1>8, <1>9 DEF IInv

LEMMA StartPruneStep ==
  ASSUME IInv, NEW limits \in [Dir -> Limits], StartPrune(limits)
  PROVE  IInv'
<1>1. UNCHANGED <<files, job, clock, shared, here>> /\ keep' = limits /\ left' = Dir /\ pc' = "next"
  BY DEF StartPrune
<1>2. limits \in [Dir -> Int]
  BY LimitsAssumption
<1>3. before' \in [Dir -> SUBSET File] /\ (apart' => before' = files)
  BY DEF StartPrune, IInv, Typed
<1>4. Typed'
  BY <1>1, <1>2, <1>3 DEF IInv, Typed
<1>5. Filed' /\ Written'
  BY <1>1, <1>4, FewerFiles DEF IInv, Typed
<1>6. apart' => Pruned'
  BY <1>1, <1>3 DEF IInv, Filed, Directories, Pruned
<1> QED
  BY <1>4, <1>5, <1>6 DEF IInv

(* The inductive invariant holds. *)
THEOREM RetentionInvariant == Spec => []IInv
<1>1. Init => IInv
  <2> SUFFICES ASSUME Init PROVE IInv
    OBVIOUS
  <2>1. Typed /\ ~apart
    BY BoundsAssumption DEF Init, Typed, Dir
  <2>2. Directories /\ Inodes /\ FinalWhole
    BY FS_EmptySet DEF Init, Directories, Inodes, OneName, FinalWhole
  <2>3. \A w \in Writer : ~Busy(w)
    BY DEF Init, Busy, NoJob
  <2>4. AtWork /\ Sole
    BY <2>3 DEF AtWork, Sole
  <2> QED
    BY <2>1, <2>2, <2>4 DEF IInv, Filed, Written
<1>2. IInv /\ [Next]_vars => IInv'
  <2> SUFFICES ASSUME IInv, [Next]_vars PROVE IInv'
    OBVIOUS
  <2>1. here \in Dir /\ left \subseteq Dir /\ "snapshots" \in Dir
    BY DEF IInv, Typed, Dir
  <2>2. apart /\ pc = "removing" =>
          \A f \in before[here] :
            Entry(f) \in doomed => Expendable(keep[here], before[here], f)
    BY DEF IInv, Pruned
  <2>3. ASSUME NEW w \in Writer, NEW d \in Dir, NEW n \in 1..MaxNames, CreateTmp(w, d, n) PROVE IInv'
    BY <2>3, CreateTmpStep
  <2>4. ASSUME NEW w \in Writer, FillTmp(w) PROVE IInv'
    BY <2>4, FillTmpStep
  <2>5. ASSUME NEW w \in Writer, RenameTmp(w) PROVE IInv'
    BY <2>5, RenameTmpStep
  <2>6. ASSUME NEW w \in Writer, WriterEnds(w) PROVE IInv'
    BY <2>6, WriterEndsStep
  <2>7. ASSUME NEW d \in Dir, ReadDir(d) PROVE IInv'
    BY <2>1, <2>7, QuietStep DEF ReadDir
  <2>8. ASSUME NEW limits \in [Dir -> Limits], StartPrune(limits) PROVE IInv'
    BY <2>8, StartPruneStep
  <2>9. CASE Choose
    BY <2>9, ChooseStep
  <2>10. CASE LimitRefused \/ InfoPanics \/ Finish
    BY <2>1, <2>10, QuietStep DEF LimitRefused, InfoPanics, Finish, PruneEnds
  <2>11. CASE Continue
    BY <2>1, <2>11, QuietStep DEF Continue
  <2>12. ASSUME NEW e \in doomed, Remove(e) PROVE IInv'
    BY <2>12, RemoveStep
  <2>13. ASSUME NEW e \in doomed, RemoveFails(e) PROVE IInv'
    BY <2>1, <2>2, <2>13, QuietStep DEF RemoveFails
  <2>14. CASE UNCHANGED vars
    BY <2>1, <2>2, <2>14, QuietStep DEF vars
  <2> QED
    BY <2>3, <2>4, <2>5, <2>6, <2>7, <2>8, <2>9, <2>10, <2>11, <2>12, <2>13, <2>14 DEF Next
<1> QED
  BY <1>1, <1>2, PTL DEF Spec

(* A snapshot or a backup under its own name is whole, for any number of     *)
(* writers that die or fail anywhere and any prunes beside them, unless two  *)
(* writers have been at work on that very name at a time.                    *)
THEOREM FinalFilesWhole == Spec => []FinalWhole
<1>1. IInv => FinalWhole
  BY DEF IInv, Filed
<1> QED
  BY <1>1, RetentionInvariant, PTL

LEMMA RetainsFromInvariant == IInv => RetainsNewest
<1> SUFFICES ASSUME IInv, apart, NEW d \in Dir, NEW f \in before[d],
                    keep[d] < 0 \/ Cardinality(NewerBefore(d, f)) < keep[d]
             PROVE  f \in files[d]
  BY DEF RetainsNewest
<1>1. IsFiniteSet(before[d]) /\ (f \in files[d] \/ Expendable(keep[d], before[d], f))
  BY DEF IInv, Pruned
<1>2. Cardinality(NewerBefore(d, f)) \in Nat /\ keep[d] \in Int
  <2>1. NewerBefore(d, f) \subseteq before[d]
    BY DEF NewerBefore
  <2>2. IsFiniteSet(NewerBefore(d, f))
    BY <1>1, <2>1, FS_Subset
  <2> QED
    BY <2>2, FS_CardinalityType DEF IInv, Typed
<1>3. ~Expendable(keep[d], before[d], f)
  BY <1>2 DEF Expendable, NewerBefore
<1> QED
  BY <1>1, <1>3

(* A prune beside which nothing is written keeps the newest files of each    *)
(* directory, as many as the limit says, and all of them when the limit is   *)
(* negative.                                                                 *)
THEOREM NewestRetained == Spec => []RetainsNewest
BY RetainsFromInvariant, RetentionInvariant, PTL
===============================================================================
