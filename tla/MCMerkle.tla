------------------------------- MODULE MCMerkle -------------------------------
EXTENDS Merkle

(* Key 2 holds a NUL: "a"+NUL+"b"+NUL+"c" is the string of key 1 with value  *)
(* v1 and of key 2 with value v2. The string of key 5 with value v2 is that  *)
(* of the node over the leaves of keys 3 and 4. The others differ.           *)
CONSTANTS v1, v2

MCValue == {v1, v2}

MCEntryBytes ==
  LET apart == [e \in (1..5) \X MCValue |-> <<3, e>>]
      shared == [apart EXCEPT ![<<1, v1>>] = <<5, "a_b_c">>, ![<<2, v2>>] = <<5, "a_b_c">>]
  IN  [shared EXCEPT ![<<5, v2>>] = NodeBytes(Hash(shared[<<3, v1>>]), Hash(shared[<<4, v1>>]))]
===============================================================================
