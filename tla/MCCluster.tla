------------------------------ MODULE MCCluster -------------------------------
(* Two nodes; the processes that run the commands are interchangeable *)
EXTENDS Cluster, TLC

CONSTANT NodeCount

MCNode == 1..NodeCount
Operators == Permutations(Proc)
===============================================================================
