---------------------------- MODULE ClusterProofs -----------------------------
(*****************************************************************************)
(* Theorems about Cluster, for any number of processes, nodes, elections,    *)
(* initialisations, crashes and I/O errors.                                  *)
(*****************************************************************************)
EXTENDS Cluster, WellFoundedInduction, TLAPS

(* The inductive invariant. Its parts but the first hold as long as no two   *)
(* processes have been at work at a time.                                    *)

(* One process is at work at most, *)
Alone == \A p, q \in Proc : pc[p] # "off" /\ pc[q] # "off" => p = q

(* it has the temporary file open, or none, *)
OwnFile ==
  \A p \in Proc : file[p] = IF pc[p] \in {"opened", "written"} THEN "tmp" ELSE "none"

(* what it renames is what it meant to write, *)
OwnContent == \A p \in Proc : pc[p] = "written" => tmp = new[p]

(* no configuration goes back to an InitCluster that was not called yet, *)
Numbered ==
  /\ config \in Config => config.init <= inits
  /\ \A e \in won : e.init <= inits
  /\ \A p \in Proc : pc[p] # "off" => new[p].init <= inits

(* and it is about to write the first configuration of its InitCluster, or   *)
(* the term that follows the one in the file.                                *)
Fresh(c) ==
  /\ config \in Config => config.init # c.init
  /\ \A e \in won : e.init # c.init
Follows(c) == config \in Config /\ c.init = config.init /\ c.term = config.term + 1
Pending == \A p \in Proc : pc[p] # "off" => Fresh(new[p]) \/ Follows(new[p])

Readable == config \in Config \cup {NoFile} /\ (won # {} => config \in Config)

Unique == \A d, e \in won : d.init = e.init /\ d.term = e.term => d = e
Kept == \A e \in won : config.init = e.init => config.term > e.term \/ config = e

Orderly ==
  /\ Alone /\ OwnFile /\ OwnContent /\ Numbered /\ Pending
  /\ Readable /\ Unique /\ Kept

IInv == TypeOK /\ (apart => Orderly)
-------------------------------------------------------------------------------
(* Facts about the operators *)

LEMMA Bounds ==
  /\ MaxTerm \in Nat /\ MaxTerm >= 1
  /\ MaxInits \in Nat /\ MaxInits >= 1 /\ MaxFaults \in Nat
BY BoundsAssumption

(* A non-empty set of naturals contains its minimum: somebody is elected.    *)
LEMMA MinIn ==
  ASSUME NEW S, S \subseteq Nat, S # {}
  PROVE  Min(S) \in S
<1> DEFINE Less == OpToRel(<, Nat)
<1>1. IsWellFoundedOn(Less, Nat)
  BY NatLessThanWellFounded
<1>2. \A x, y \in Nat : y < x => <<y, x>> \in Less
  BY DEF OpToRel
<1> HIDE DEF Less
<1>3. PICK x \in S : \A y \in S : ~(<<y, x>> \in Less)
  BY <1>1, WFMin
<1>4. ASSUME NEW y \in S PROVE x <= y
  <2>1. x \in Nat /\ y \in Nat
    OBVIOUS
  <2>2. ~(y < x)
    BY <1>2, <1>3, <2>1
  <2> QED
    BY <2>1, <2>2
<1> QED
  BY <1>4 DEF Min

(* The configuration an election writes: a legal one, of the next term.      *)
LEMMA ElectedConfig ==
  ASSUME NEW c \in Config, c.term < MaxTerm, NEW candidates \in SUBSET Node
  PROVE  /\ Elected(c, candidates) \in Config
         /\ Elected(c, candidates).init = c.init
         /\ Elected(c, candidates).term = c.term + 1
<1> DEFINE S == IF candidates = {} THEN Node ELSE candidates
<1>1. S \subseteq Nat /\ S # {} /\ S \subseteq Node
  BY NodeAssumption
<1>2. Min(S) \in Node
  BY <1>1, MinIn
<1>3. c.init \in 1..MaxInits /\ c.term \in 1..MaxTerm /\ c.term + 1 \in 1..MaxTerm
  BY Bounds DEF Config
<1>4. Elected(c, candidates) = [c EXCEPT !.term = c.term + 1, !.leader = Min(S)]
  BY DEF Elected
<1> HIDE DEF S
<1> QED
  BY <1>2, <1>3, <1>4 DEF Config

LEMMA FirstConfig ==
  ASSUME inits \in 0..MaxInits, inits < MaxInits
  PROVE  [init |-> inits + 1, term |-> 1, leader |-> 0] \in Config
<1>1. inits + 1 \in 1..MaxInits /\ 1 \in 1..MaxTerm
  BY Bounds
<1> QED
  BY <1>1 DEF Config

LEMMA NoConfigType == NoConfig \in Config
BY Bounds DEF NoConfig, Config
-------------------------------------------------------------------------------
(* Type correctness *)

LEMMA InitTyped == Init => TypeOK
<1> SUFFICES ASSUME Init PROVE TypeOK
  OBVIOUS
<1>1. config \in Content /\ tmp \in Content
  BY DEF Init, Content
<1>2. new \in [Proc -> Config]
  BY NoConfigType DEF Init
<1>3. inits \in 0..MaxInits /\ faults \in 0..MaxFaults
  BY Bounds DEF Init
<1>4. apart \in BOOLEAN
  BY DEF Init
<1> QED
  BY <1>1, <1>2, <1>3, <1>4 DEF Init, TypeOK

LEMMA NextTyped == TypeOK /\ [Next]_vars => TypeOK'
<1> SUFFICES ASSUME TypeOK, [Next]_vars PROVE TypeOK'
  OBVIOUS
<1> USE DEF TypeOK
<1>1. ASSUME NEW p \in Proc, NEW c \in Config, Begins(p, c), inits' \in 0..MaxInits
      PROVE  TypeOK'
  <2>1. apart' \in BOOLEAN
    BY <1>1 DEF Begins
  <2> QED
    BY <1>1, <2>1 DEF Begins
<1>2. ASSUME NEW p \in Proc, InitCluster(p) PROVE TypeOK'
  <2>1. inits' \in 0..MaxInits
    BY <1>2, Bounds DEF InitCluster
  <2>2. [init |-> inits + 1, term |-> 1, leader |-> 0] \in Config
    BY <1>2, FirstConfig DEF InitCluster
  <2> QED
    BY <1>1, <1>2, <2>1, <2>2 DEF InitCluster
<1>3. ASSUME NEW p \in Proc, NEW candidates \in SUBSET Node, ElectLeader(p, candidates)
      PROVE  TypeOK'
  <2>1. Elected(config, candidates) \in Config
    BY <1>3, ElectedConfig DEF ElectLeader
  <2> QED
    BY <1>1, <1>3, <2>1 DEF ElectLeader
<1>4. ASSUME NEW p \in Proc, NEW x \in Content, Puts(p, x)
      PROVE  config' \in Content /\ tmp' \in Content
  BY <1>4 DEF Puts
<1>5. ASSUME NEW p \in Proc, Ends(p)
      PROVE  pc' \in [Proc -> {"off", "begun", "opened", "written"}] /\ new' \in [Proc -> Config]
  BY <1>5, NoConfigType DEF Ends
<1>6. ASSUME NEW p \in Proc, OpenTmp(p) PROVE TypeOK'
  <2>1. apart' \in BOOLEAN
    BY <1>6 DEF OpenTmp
  <2> QED
    BY <1>6, <2>1 DEF OpenTmp, Content
<1>7. ASSUME NEW p \in Proc, WriteTmp(p) PROVE TypeOK'
  <2>1. new[p] \in Content /\ Torn \in Content
    BY DEF Content
  <2>2. config' \in Content /\ tmp' \in Content
    BY <1>4, <1>7, <2>1 DEF WriteTmp
  <2>3. apart' \in BOOLEAN
    BY <1>7 DEF WriteTmp
  <2> QED
    BY <1>7, <2>2, <2>3 DEF WriteTmp
<1>8. ASSUME NEW p \in Proc, RenameTmp(p) PROVE TypeOK'
  <2>1. apart' \in BOOLEAN
    BY <1>8 DEF RenameTmp
  <2>2. config' \in Content /\ tmp' \in Content
    BY <1>8 DEF RenameTmp, Content
  <2>3. file' \in [Proc -> {"none", "tmp", "config", "gone"}]
    BY <1>8 DEF RenameTmp
  <2>4. won' \subseteq Config
    BY <1>8 DEF RenameTmp
  <2> QED
    BY <1>5, <1>8, <2>1, <2>2, <2>3, <2>4 DEF RenameTmp
<1>9. ASSUME NEW p \in Proc, Fails(p) PROVE TypeOK'
  <2>1. apart' \in BOOLEAN
    BY <1>9 DEF Fails
  <2>2. config' \in Content /\ tmp' \in Content
    BY <1>4, <1>9 DEF Fails, Content
  <2>3. faults' \in 0..MaxFaults
    BY <1>9, Bounds DEF Fails
  <2> QED
    BY <1>5, <1>9, <2>1, <2>2, <2>3 DEF Fails
<1>10. CASE UNCHANGED vars
  <2>1. apart' \in BOOLEAN
    BY <1>10 DEF vars
  <2> QED
    BY <1>10, <2>1 DEF vars
<1> QED
  BY <1>2, <1>3, <1>6, <1>7, <1>8, <1>9, <1>10 DEF Next

(* Every variable of the cluster files and of the processes that write them  *)
(* keeps its type.                                                           *)
THEOREM ClusterTypeCorrect == Spec => []TypeOK
BY InitTyped, NextTyped, PTL DEF Spec
-------------------------------------------------------------------------------
(* What holds while the processes keep apart *)

(* When p begins nobody else is at work; what it is about to write begins a  *)
(* configuration or follows the one in the file.                             *)
LEMMA BeginsOrderly ==
  ASSUME TypeOK, apart => Orderly, NEW p \in Proc, NEW c \in Config, Begins(p, c),
         inits' \in Nat, inits' >= inits, c.init <= inits', apart',
         apart => Fresh(c) \/ Follows(c)
  PROVE  Orderly'
<1> USE DEF TypeOK
<1>1. apart /\ Orderly
  BY DEF Begins
<1>2. \A q \in Proc : pc[q] = "off"
  BY DEF Begins
<1>3. /\ pc' = [pc EXCEPT ![p] = "begun"] /\ new' = [new EXCEPT ![p] = c]
      /\ UNCHANGED <<config, tmp, file, won>>
  BY DEF Begins
<1>4. Alone' /\ OwnFile' /\ OwnContent'
  BY <1>1, <1>2, <1>3 DEF Orderly, Alone, OwnFile, OwnContent
<1>5. Numbered'
  <2>1. inits \in Nat /\ \A e \in Config : e.init \in Nat
    BY Bounds DEF Config
  <2>2. config' \in Config => config'.init <= inits'
    BY <1>1, <1>3, <2>1 DEF Orderly, Numbered
  <2>3. \A e \in won' : e.init <= inits'
    BY <1>1, <1>3, <2>1 DEF Orderly, Numbered
  <2>4. \A q \in Proc : pc'[q] # "off" => new'[q].init <= inits'
    BY <1>2, <1>3
  <2> QED
    BY <2>2, <2>3, <2>4 DEF Numbered
<1>6. Pending'
  BY <1>1, <1>2, <1>3 DEF Pending, Fresh, Follows
<1>7. Readable' /\ Unique' /\ Kept'
  BY <1>1, <1>3 DEF Orderly, Readable, Unique, Kept
<1> QED
  BY <1>4, <1>5, <1>6, <1>7 DEF Orderly

LEMMA InitClusterOrderly ==
  ASSUME TypeOK, apart => Orderly, NEW p \in Proc, InitCluster(p), apart'
  PROVE  Orderly'
<1> DEFINE c == [init |-> inits + 1, term |-> 1, leader |-> 0]
<1>1. c \in Config
  BY FirstConfig DEF InitCluster, TypeOK
<1>2. inits \in Nat /\ inits' = inits + 1 /\ c.init = inits + 1
  BY Bounds DEF InitCluster, TypeOK
<1>3. ASSUME apart PROVE Fresh(c)
  <2>1. \A e \in Config : e.init <= inits => e.init # c.init
    BY <1>2 DEF Config
  <2> QED
    BY <1>3, <2>1 DEF Orderly, Numbered, Fresh, TypeOK
<1>4. Begins(p, c)
  BY DEF InitCluster
<1> HIDE DEF c
<1> QED
  BY <1>1, <1>2, <1>3, <1>4, BeginsOrderly

LEMMA ElectLeaderOrderly ==
  ASSUME TypeOK, apart => Orderly, NEW p \in Proc, NEW candidates \in SUBSET Node,
         ElectLeader(p, candidates), apart'
  PROVE  Orderly'
<1> DEFINE c == Elected(config, candidates)
<1>1. config \in Config /\ config.term < MaxTerm /\ Begins(p, c) /\ inits' = inits
  BY DEF ElectLeader
<1>2. c \in Config /\ c.init = config.init /\ c.term = config.term + 1
  BY <1>1, ElectedConfig
<1>3. Follows(c)
  BY <1>1, <1>2 DEF Follows
<1>4. inits \in Nat /\ inits' >= inits
  BY <1>1, Bounds DEF TypeOK
<1>5. apart
  BY <1>1 DEF Begins
<1>6. c.init <= inits'
  BY <1>1, <1>2, <1>5 DEF Orderly, Numbered
<1> HIDE DEF c
<1> QED
  BY <1>1, <1>2, <1>3, <1>4, <1>6, BeginsOrderly

LEMMA OpenTmpOrderly ==
  ASSUME TypeOK, Orderly, NEW p \in Proc, OpenTmp(p)
  PROVE  Orderly'
<1> USE DEF TypeOK
<1>1. Alone' /\ OwnFile' /\ OwnContent'
  BY DEF OpenTmp, Orderly, Alone, OwnFile, OwnContent
<1>2. Numbered' /\ Pending'
  BY DEF OpenTmp, Orderly, Numbered, Pending, Fresh, Follows
<1>3. Readable' /\ Unique' /\ Kept'
  BY DEF OpenTmp, Orderly, Readable, Unique, Kept
<1> QED
  BY <1>1, <1>2, <1>3 DEF Orderly

(* Nobody else has the file open: what p writes is what comes out.           *)
LEMMA WriteTmpOrderly ==
  ASSUME TypeOK, Orderly, NEW p \in Proc, WriteTmp(p)
  PROVE  Orderly'
<1> USE DEF TypeOK
<1>1. file[p] = "tmp" /\ \A q \in Proc \ {p} : pc[q] = "off" /\ file[q] = "none"
  BY DEF WriteTmp, Orderly, OwnFile, Alone
<1>2. tmp' = new[p] /\ config' = config
  BY <1>1 DEF WriteTmp, Puts
<1>3. pc' = [pc EXCEPT ![p] = "written"] /\ UNCHANGED <<file, new, inits, won>> /\ pc[p] = "opened"
  BY DEF WriteTmp
<1>4. Alone' /\ OwnFile' /\ OwnContent'
  BY <1>1, <1>2, <1>3 DEF Orderly, Alone, OwnFile, OwnContent
<1>5. Numbered' /\ Pending'
  BY <1>2, <1>3 DEF Orderly, Numbered, Pending, Fresh, Follows
<1>6. Readable' /\ Unique' /\ Kept'
  BY <1>2, <1>3 DEF Orderly, Readable, Unique, Kept
<1> QED
  BY <1>4, <1>5, <1>6 DEF Orderly

(* The new configuration is of a later term than every election before it,   *)
(* or goes back to another InitCluster.                                      *)
LEMMA RenameTmpOrderly ==
  ASSUME TypeOK, Orderly, NEW p \in Proc, RenameTmp(p)
  PROVE  Orderly'
<1> USE DEF TypeOK
<1> DEFINE c == new[p]
<1>1. c \in Config /\ config' = c
  BY DEF RenameTmp, Orderly, OwnContent
<1>2. \A q \in Proc \ {p} : pc[q] = "off" /\ file[q] = "none"
  BY DEF RenameTmp, Orderly, OwnFile, Alone
<1>3. /\ pc' = [pc EXCEPT ![p] = "off"] /\ inits' = inits /\ pc[p] # "off"
      /\ won' \subseteq won \cup {c} /\ won \subseteq won'
  BY DEF RenameTmp, Ends
<1>4. \A q \in Proc : pc'[q] = "off"
  BY <1>2, <1>3
<1>5. \A q \in Proc : file'[q] = "none"
  BY <1>2 DEF RenameTmp
<1>6. Alone' /\ OwnFile' /\ OwnContent' /\ Pending'
  BY <1>4, <1>5 DEF Alone, OwnFile, OwnContent, Pending
<1>7. Numbered'
  BY <1>1, <1>3, <1>4 DEF Orderly, Numbered
<1>8. Readable'
  BY <1>1 DEF Readable
<1>9. \A e \in won : e.init = c.init => c.term > e.term
  <2>1. \A e \in Config : e.term \in Nat
    BY Bounds DEF Config
  <2>2. CASE Fresh(c)
    BY <2>2 DEF Fresh
  <2>3. CASE Follows(c)
    <3> SUFFICES ASSUME NEW e \in won, e.init = c.init PROVE c.term > e.term
      OBVIOUS
    <3>1. config.term > e.term \/ config = e
      BY <2>3 DEF Orderly, Kept, Follows
    <3>2. e.term \in Nat /\ config.term \in Nat /\ c.term = config.term + 1
      BY <2>1, <2>3 DEF Follows
    <3> QED
      BY <3>1, <3>2
  <2> QED
    BY <1>3, <2>2, <2>3 DEF Orderly, Pending
<1>10. \A e \in won : e.init = c.init => e.term # c.term
  BY <1>1, <1>9, Bounds DEF Config
<1> HIDE DEF c
<1>11. Unique'
  BY <1>3, <1>10 DEF Orderly, Unique
<1>12. Kept'
  BY <1>1, <1>3, <1>9 DEF Kept
<1> QED
  BY <1>6, <1>7, <1>8, <1>11, <1>12 DEF Orderly

(* A process that dies leaves config.json alone: the file it has open is     *)
(* the temporary one.                                                        *)
LEMMA FailsOrderly ==
  ASSUME TypeOK, Orderly, NEW p \in Proc, Fails(p)
  PROVE  Orderly'
<1> USE DEF TypeOK
<1>1. config' = config
  BY DEF Fails, Puts, Orderly, OwnFile
<1>2. \A q \in Proc \ {p} : pc[q] = "off" /\ file[q] = "none"
  BY DEF Fails, Orderly, OwnFile, Alone
<1>3. \A q \in Proc : pc'[q] = "off" /\ file'[q] = "none"
  BY <1>2 DEF Fails, Ends
<1>4. UNCHANGED <<inits, won>>
  BY DEF Fails
<1>5. Alone' /\ OwnFile' /\ OwnContent' /\ Pending'
  BY <1>3 DEF Alone, OwnFile, OwnContent, Pending
<1>6. Numbered'
  BY <1>1, <1>3, <1>4 DEF Orderly, Numbered
<1>7. Readable' /\ Unique' /\ Kept'
  BY <1>1, <1>4 DEF Orderly, Readable, Unique, Kept
<1> QED
  BY <1>5, <1>6, <1>7 DEF Orderly

(* The inductive invariant holds. *)
THEOREM ClusterInvariant == Spec => []IInv
<1>1. Init => IInv
  <2> SUFFICES ASSUME Init PROVE Orderly
    BY InitTyped DEF IInv
  <2> QED
    BY NoFileAssumption
       DEF Init, Orderly, Alone, OwnFile, OwnContent, Numbered, Pending, Readable, Unique, Kept
<1>2. IInv /\ [Next]_vars => IInv'
  <2> SUFFICES ASSUME IInv, [Next]_vars, apart' PROVE Orderly'
    BY NextTyped DEF IInv
  <2>1. TypeOK /\ (apart => Orderly)
    BY DEF IInv
  <2>2. ASSUME NEW p \in Proc, InitCluster(p) PROVE Orderly'
    BY <2>1, <2>2, InitClusterOrderly
  <2>3. ASSUME NEW p \in Proc, NEW candidates \in SUBSET Node, ElectLeader(p, candidates)
        PROVE  Orderly'
    BY <2>1, <2>3, ElectLeaderOrderly
  <2>4. ASSUME NEW p \in Proc, OpenTmp(p) PROVE Orderly'
    <3>1. apart
      BY <2>4 DEF OpenTmp
    <3> QED
      BY <2>1, <2>4, <3>1, OpenTmpOrderly
  <2>5. ASSUME NEW p \in Proc, WriteTmp(p) PROVE Orderly'
    <3>1. apart
      BY <2>5 DEF WriteTmp
    <3> QED
      BY <2>1, <2>5, <3>1, WriteTmpOrderly
  <2>6. ASSUME NEW p \in Proc, RenameTmp(p) PROVE Orderly'
    <3>1. apart
      BY <2>6 DEF RenameTmp
    <3> QED
      BY <2>1, <2>6, <3>1, RenameTmpOrderly
  <2>7. ASSUME NEW p \in Proc, Fails(p) PROVE Orderly'
    <3>1. apart
      BY <2>7 DEF Fails
    <3> QED
      BY <2>1, <2>7, <3>1, FailsOrderly
  <2>8. CASE UNCHANGED vars
    BY <2>1, <2>8 DEF vars, Orderly, Alone, OwnFile, OwnContent, Numbered, Pending, Fresh,
                      Follows, Readable, Unique, Kept
  <2> QED
    BY <2>2, <2>3, <2>4, <2>5, <2>6, <2>7, <2>8 DEF Next
<1> QED
  BY <1>1, <1>2, PTL DEF Spec

(* Whichever process dies in whichever step of atomicWrite, config.json is   *)
(* absent or a whole configuration, as long as no two processes overlap.     *)
THEOREM ConfigStaysReadable == Spec => []ConfigReadable
<1>1. IInv => ConfigReadable
  BY DEF IInv, Orderly, Readable, ConfigReadable
<1> QED
  BY <1>1, ClusterInvariant, PTL

(* No two elections that leader-elect reported have the same term and        *)
(* different leaders, and config.json never falls back behind one, as long   *)
(* as no two processes overlap.                                              *)
THEOREM ElectionsStand == Spec => []ElectionsHold
<1>1. IInv => ElectionsHold
  BY DEF IInv, Orderly, Unique, Kept, ElectionsHold
<1> QED
  BY <1>1, ClusterInvariant, PTL
===============================================================================
