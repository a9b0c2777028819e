------------------------------- MODULE MCServer -------------------------------
(* Two clients and one that uses the SDK, on two keys of different             *)
(* namespaces                                                                *)
EXTENDS Server, TLC

MCServedKeys == {"account/a", "zk/z"}
MCServedPrefix ==
  [p \in Namespace |-> {k \in Key : k = IF p = "account/" THEN "account/a" ELSE
                                        IF p = "zk/" THEN "zk/z" ELSE NoKey}]

Write(k, v) == [tx |-> 1, key |-> k, value |-> v, delete |-> FALSE]
Erase(k) == [tx |-> 1, key |-> k, value |-> Nil, delete |-> TRUE]

MCPosted ==
  {<<Write("account/a", v)>> : v \in Bytes}
    \cup {<<Write("zk/z", Nil), Erase("account/a")>>}

Writers == Permutations(Client \ Sdk)
===============================================================================
