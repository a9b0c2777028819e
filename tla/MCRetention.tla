----------------------------- MODULE MCRetention ------------------------------
(* Retention with two counts a caller of agidb prune may give: a refused one *)
(* (negative), and one file of each directory. The writers are               *)
(* interchangeable.                                                          *)
EXTENDS Retention, TLC

PruneLimits == {-1, 1}
Writers == Permutations(Writer)
===============================================================================
