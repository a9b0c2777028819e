----------------------------- MODULE MCExecution ------------------------------
(* Bundles that meet on folded addresses or write three different keys;      *)
(* imports of three operations in batches of two, beside helpers and bundles *)
EXTENDS Execution, TLC

MCAddress == {"account/a", "contract/code/c", "contract/code/C"}
MCNamespace ==
  [p \in Namespace |->
     CASE p = "account/" -> {"account/a"}
       [] p \in {"contract/", "contract/code/"} -> {"contract/code/c", "contract/code/C"}
       [] OTHER -> {}]
MCRank == [k \in Key \cup {NoKey} |->
  CASE k = "account/a" -> 1 [] k = "contract/code/C" -> 2 [] k = "contract/code/c" -> 3
    [] OTHER -> 0]
MCLower == [n \in {"A", "a", "C", "c"} |-> IF n \in {"A", "a"} THEN "a" ELSE "c"]
MCKeyIn ==
  [s \in {"accounts", "contract_code", "state"} |->
     CASE s = "accounts" -> [n \in {"a"} |-> "account/a"]
       [] s = "contract_code" ->
            [n \in {"c", "C"} |-> IF n = "c" THEN "contract/code/c" ELSE "contract/code/C"]
       [] OTHER -> [n \in Key \cup {NoKey} |-> n]]

Entry(s, n, v, ok) == [section |-> s, name |-> n, value |-> v, json |-> ok]
MCEntries ==
  {Entry("accounts", n, v, TRUE) : n \in {"a", "A"}, v \in Bytes}
    \cup {Entry("accounts", "a", Nil, FALSE), Entry("contract_code", "C", Nil, TRUE),
          Entry("state", "account/a", Nil, TRUE), Entry("state", NoKey, Nil, TRUE)}

MCCode == Entry("contract_code", "C", Nil, TRUE)
MCBundles ==
  {{x} : x \in {e \in MCEntries : e.section = "state"}}
    \cup {{Entry("accounts", "A", v, TRUE), MCCode, Entry("state", "contract/code/C", Nil, TRUE)} :
             v \in Bytes}
    \cup {{Entry("accounts", "a", v, TRUE), Entry("accounts", "A", Nil, TRUE)} : v \in Bytes}
    \cup {{Entry("accounts", "a", Nil, FALSE), MCCode}}
MCHelpers == {<<x>> : x \in {e \in MCEntries : e.section # "state"}}

ImportOp(k, v, d) == [tx |-> 0, key |-> k, value |-> v, delete |-> d]
MCSymmetry == Permutations(Bytes)
MCImports ==
  LET puts == {ImportOp("account/a", v, FALSE) : v \in Bytes}
      code == ImportOp("contract/code/c", Nil, FALSE)
  IN  {<<x, y, z>> : x \in puts, y \in puts \cup {code, ImportOp("account/a", Nil, TRUE)},
                     z \in puts \cup {code}}
        \cup {<<x, x, ImportOp(NoKey, Nil, FALSE)>> : x \in puts}
===============================================================================
