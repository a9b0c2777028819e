----------------------------- MODULE MCCompaction -----------------------------
(* Small instances of Compaction: processes of a role are interchangeable *)
EXTENDS Compaction, TLC

Interchangeable == Permutations(Proc) \cup Permutations(Compactor)
===============================================================================
