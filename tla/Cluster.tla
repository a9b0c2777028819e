------------------------------- MODULE Cluster --------------------------------
(*****************************************************************************)
(* The cluster file of enterprise.go: InitCluster writes it, ElectLeader     *)
(* reads it, raises the term, names the first candidate and writes it back,  *)
(* both through atomicWrite, which fills config.json.tmp and renames it.     *)
(* Several processes may do so, none takes a lock, and each may die or get   *)
(* an I/O error at every step. WritePolicy and MigrationReport write their   *)
(* files the same way, without reading them first.                           *)
(*                                                                           *)
(* Abstractions.                                                             *)
(*  - A configuration is its term and its leader, with the number of the     *)
(*    InitCluster call it goes back to; nodes are numbers in the order of    *)
(*    their names.                                                           *)
(*  - An open file follows its inode: after a rename, a process that has     *)
(*    opened the temporary file writes into the renamed one.                 *)
(*****************************************************************************)
EXTENDS Naturals, FiniteSetsExt

CONSTANTS
  Proc,      \* processes that run cluster-init or leader-elect
  Node,      \* the nodes of the cluster
  NoFile,    \* "there is no such file"
  Blank,     \* the content of a file that was just truncated
  Torn,      \* a content that does not parse
  MaxTerm,   \* bound: no election beyond this term
  MaxInits,  \* bound: calls of InitCluster
  MaxFaults  \* bound: crashes and I/O errors

ASSUME NodeAssumption == Node \subseteq Nat /\ Node # {}
ASSUME BoundsAssumption == {MaxTerm, MaxInits} \subseteq Nat \ {0} /\ MaxFaults \in Nat

Config == [init : 1..MaxInits, term : 1..MaxTerm, leader : Node \cup {0}]
Content == Config \cup {NoFile, Blank, Torn}

ASSUME NoFileAssumption == NoFile \notin Config

VARIABLES
  config,  \* config.json
  tmp,     \* config.json.tmp
  pc,      \* where each process is
  file,    \* file[p]: where the file is that p has open
  new,     \* new[p]: the configuration p is about to write
  inits,   \* calls of InitCluster so far
  faults,  \* crashes and I/O errors so far
  won,     \* history: the elections that were reported as held
  apart    \* history: have no two processes ever been at work at a time?

vars == <<config, tmp, pc, file, new, inits, faults, won, apart>>

NoConfig == [init |-> 1, term |-> 1, leader |-> 0]

Init ==
  /\ config = NoFile /\ tmp = NoFile
  /\ pc = [p \in Proc |-> "off"] /\ file = [p \in Proc |-> "none"]
  /\ new = [p \in Proc |-> NoConfig]
  /\ inits = 0 /\ faults = 0 /\ won = {} /\ apart = TRUE

Begins(p, c) ==
  /\ pc[p] = "off"
  /\ pc' = [pc EXCEPT ![p] = "begun"]
  /\ new' = [new EXCEPT ![p] = c]
  /\ apart' = (apart /\ \A q \in Proc : pc[q] = "off")
  /\ UNCHANGED <<config, tmp, file, faults, won>>

(* Mutant: the term is left at zero *)
InitClusterWithoutTerm(p) ==
  /\ inits < MaxInits
  /\ inits' = inits + 1
  /\ Begins(p, [init |-> inits + 1, term |-> 0, leader |-> 0])

InitCluster(p) ==
  /\ inits < MaxInits
  /\ inits' = inits + 1
  /\ Begins(p, [init |-> inits + 1, term |-> 1, leader |-> 0])

(* Mutant: the term is kept *)
ElectedSameTerm(c, candidates) ==
  [c EXCEPT !.leader = Min(IF candidates = {} THEN Node ELSE candidates)]

(* Without candidates, all the nodes stand *)
Elected(c, candidates) ==
  [c EXCEPT !.term = @ + 1, !.leader = Min(IF candidates = {} THEN Node ELSE candidates)]

(* A file that is missing or does not parse is an error, and nothing happens *)
ElectLeader(p, candidates) ==
  /\ config \in Config /\ config.term < MaxTerm
  /\ Begins(p, Elected(config, candidates))
  /\ UNCHANGED inits
-------------------------------------------------------------------------------
(* atomicWrite *)

(* Mutant: the file is written in place *)
OpenInPlace(p) ==
  /\ pc[p] = "begun"
  /\ config' = Blank
  /\ file' = [file EXCEPT ![p] = "config"]
  /\ pc' = [pc EXCEPT ![p] = "opened"]
  /\ UNCHANGED <<tmp, new, inits, faults, won, apart>>

(* O_CREATE|O_TRUNC: a file that another process has left or is writing is   *)
(* emptied                                                                   *)
OpenTmp(p) ==
  /\ pc[p] = "begun"
  /\ tmp' = Blank
  /\ file' = [file EXCEPT ![p] = "tmp"]
  /\ pc' = [pc EXCEPT ![p] = "opened"]
  /\ UNCHANGED <<config, new, inits, faults, won, apart>>

(* The file that p has open gets the content x *)
Puts(p, x) ==
  /\ tmp' = IF file[p] = "tmp" THEN x ELSE tmp
  /\ config' = IF file[p] = "config" THEN x ELSE config

(* Over what another process has written, a mixture may come out *)
WriteTmp(p) ==
  /\ pc[p] = "opened"
  /\ \/ Puts(p, new[p])
     \/ \E q \in Proc \ {p} : file[q] = file[p] /\ Puts(p, Torn)
  /\ pc' = [pc EXCEPT ![p] = "written"]
  /\ UNCHANGED <<file, new, inits, faults, won, apart>>

Ends(p) ==
  /\ pc' = [pc EXCEPT ![p] = "off"]
  /\ new' = [new EXCEPT ![p] = NoConfig]

(* What is in config.json.tmp now takes the place of config.json *)
RenameTmp(p) ==
  /\ pc[p] = "written" /\ tmp # NoFile
  /\ config' = tmp /\ tmp' = NoFile
  /\ file' = [q \in Proc |-> CASE q = p -> "none"
                               [] q # p /\ file[q] = "tmp" -> "config"
                               [] q # p /\ file[q] = "config" -> "gone"
                               [] OTHER -> file[q]]
  /\ won' = IF new[p].leader = 0 THEN won ELSE won \cup {new[p]}
  /\ Ends(p)
  /\ UNCHANGED <<inits, faults, apart>>

(* The process dies or gets an error, in the middle of its write perhaps; or *)
(* its temporary file was renamed by another one                             *)
Fails(p) ==
  /\ pc[p] # "off"
  /\ \/ faults < MaxFaults /\ faults' = faults + 1
     \/ pc[p] = "written" /\ tmp = NoFile /\ UNCHANGED faults
  /\ \/ UNCHANGED <<config, tmp>>
     \/ pc[p] = "opened" /\ Puts(p, Torn)
  /\ file' = [file EXCEPT ![p] = "none"]
  /\ Ends(p)
  /\ UNCHANGED <<inits, won, apart>>

Next ==
  \E p \in Proc :
    \/ InitCluster(p)
    \/ \E candidates \in SUBSET Node : ElectLeader(p, candidates)
    \/ OpenTmp(p) \/ WriteTmp(p) \/ RenameTmp(p) \/ Fails(p)

Spec == Init /\ [][Next]_vars
-------------------------------------------------------------------------------
(* Properties *)

(* Every variable has its type. *)
TypeOK ==
  /\ config \in Content /\ tmp \in Content
  /\ pc \in [Proc -> {"off", "begun", "opened", "written"}]
  /\ file \in [Proc -> {"none", "tmp", "config", "gone"}]
  /\ new \in [Proc -> Config]
  /\ inits \in 0..MaxInits /\ faults \in 0..MaxFaults
  /\ won \subseteq Config /\ apart \in BOOLEAN

(* Whatever process died in whatever step, the next one finds the whole of   *)
(* the last configuration or none, if the processes keep apart.              *)
ConfigReadable == apart => config \in Config \cup {NoFile}

(* If they do, no term has two leaders, and no election that was reported is *)
(* ever taken back: the file is at its term or at a later one.               *)
ElectionsHold ==
  apart => \A e \in won :
    /\ \A d \in won : d.init = e.init /\ d.term = e.term => d = e
    /\ config.init = e.init =>
         config.term > e.term \/ config = e
===============================================================================
