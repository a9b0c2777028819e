-------------------------------- MODULE Ledger --------------------------------
(*****************************************************************************)
(* What AGIDB promises of its history ("WAL durability, immutable block      *)
(* history"): the chain the database serves only ever grows by one linked    *)
(* block at a time, whatever crashes and I/O errors happen in between.       *)
(* Storage implements this specification.                                    *)
(*****************************************************************************)
EXTENDS Naturals, Sequences

CONSTANT Block   \* records with the fields id, height and prev

VARIABLE chain   \* every block ever served, in order

(* The identity a new block must name as its predecessor; 0: no block yet *)
TailId == IF chain = <<>> THEN 0 ELSE chain[Len(chain)].id

Init == chain = <<>>

Extend(b) ==
  /\ b.height = Len(chain) + 1
  /\ b.prev = TailId
  /\ chain' = Append(chain, b)

Next == \E b \in Block : Extend(b)

Spec == Init /\ [][Next]_chain
===============================================================================
