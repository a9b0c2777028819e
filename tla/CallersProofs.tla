----------------------------- MODULE CallersProofs ----------------------------
(*****************************************************************************)
(* Theorems about the modules that call Engine. Server: for any clients,     *)
(* keys, values and batches, any number of requests, retries and late copies *)
(* of them, and restarts. Execution: for every set of bundles, helper calls  *)
(* and imports, every batch size and any number of errors, crashes and       *)
(* retries.                                                                  *)
(*****************************************************************************)
EXTENDS Server, Execution, EngineProofs
-------------------------------------------------------------------------------
(* Server: the inductive invariant *)

ListType == Batch \cup {Garbled, <<>>}
Ask == [phase : {"idle", "waiting", "unsure"}, no : Nat, try : Nat, list : ListType]

NetTyped == asks \in [Client -> Ask] /\ late \subseteq [client : Client, ask : Ask]

(* The requests that may still be carried out, now or after a retry *)
Request(c, ask) == [client |-> c, no |-> ask.no, list |-> ask.list]
Pending ==
  {Request(c, asks[c]) : c \in {d \in Client : asks[d].phase # "idle"}}
    \cup {Request(r.client, r.ask) : r \in late}

(* A number names one request of its client, and none that is to come. *)
Numbered ==
  /\ \A p, q \in Pending : p.client = q.client /\ p.no = q.no => p.list = q.list
  /\ \A p \in Pending : p.no \in 1..asks[p.client].no
  /\ \A g \in DOMAIN author, c \in Client : author[g].client = c => author[g].no <= asks[c].no

(* The list has been carried out in the state s *)
Done(s, list) ==
  \A k \in {list[i].key : i \in DOMAIN list} :
    k \in Key /\ s[k] = Effect(list[Max(On(list, k))])

(* The block of a request left what the request asked for, *)
Carried ==
  \A g \in DOMAIN author : \A p \in Pending :
    author[g] = [client |-> p.client, no |-> p.no] => Done(StateBefore(stored, g + 1), p.list)

(* and so did the block an answer names. *)
Told ==
  \A a \in answers : a.height \in 0..Len(stored) /\ Done(StateBefore(stored, a.height + 1), a.list)

(* DuplicateSuppressed, of any chain and the requests its blocks stem from *)
KeysUntouched(chain, g, h) ==
  \A m \in g + 1..h - 1 : \A i \in DOMAIN chain[h].ops :
    On(chain[m].ops, chain[h].ops[i].key) = {}
DupFree(chain, who) ==
  \A g, h \in DOMAIN chain :
    g < h /\ who[g] = who[h] /\ ~WritesKeyTwice(chain[h].ops) => ~KeysUntouched(chain, g, h)

Authored ==
  /\ author \in Seq({author[h] : h \in DOMAIN author}) /\ Len(author) = Len(stored)
  /\ \A h \in DOMAIN author : author[h].no \in Nat

NetInv ==
  /\ NetTyped /\ Numbered /\ Authored /\ Carried /\ Told
  /\ DupFree(stored, author) /\ DupFree(blocks, author)
-------------------------------------------------------------------------------
(* Requests: what is under way is known, and only Post adds to it.           *)

LEMMA UnderWayPending ==
  ASSUME NetTyped, NEW r \in UnderWay
  PROVE  /\ r \in [client : Client, ask : Ask] /\ Request(r.client, r.ask) \in Pending
         /\ r.ask.list \in ListType
<1>1. CASE r \in late
  BY <1>1 DEF NetTyped, Pending, Ask
<1>2. CASE r \notin late
  <2>1. PICK c \in Client : asks[c].phase = "waiting" /\ r = [client |-> c, ask |-> asks[c]]
    BY <1>2 DEF UnderWay
  <2>2. asks[c] \in Ask /\ asks[c].phase # "idle"
    BY <2>1 DEF NetTyped
  <2> QED
    BY <2>1, <2>2 DEF Pending, Ask
<1> QED
  BY <1>1, <1>2

(* The network after a step that posts nothing: the requests are among those *)
(* there were, and the clients' numbers are what they were.                  *)
Shrinks == NetTyped' /\ Pending' \subseteq Pending /\ \A c \in Client : asks'[c].no = asks[c].no

LEMMA LeavesShrinks ==
  ASSUME NetTyped, NEW r \in UnderWay, Leaves(r)
  PROVE  Shrinks
<1>1. r.client \in Client /\ r.ask \in Ask
  BY UnderWayPending
<1>2. [Nothing EXCEPT !.no = r.ask.no] \in Ask
  BY <1>1 DEF Nothing, Ask, ListType
<1>3. NetTyped'
  BY <1>1, <1>2 DEF NetTyped, Leaves
<1>4. \A c \in Client : asks'[c] = asks[c] \/ (asks'[c].phase = "idle" /\ asks'[c].no = asks[c].no)
  BY <1>1 DEF NetTyped, Leaves, Nothing, Ask
<1>5. Pending' \subseteq Pending
  <2> SUFFICES ASSUME NEW p \in Pending' PROVE p \in Pending
    OBVIOUS
  <2>1. CASE \E c \in Client : asks'[c].phase # "idle" /\ p = Request(c, asks'[c])
    BY <1>4, <2>1 DEF Pending
  <2>2. CASE \E q \in late' : p = Request(q.client, q.ask)
    BY <2>2 DEF Pending, Leaves
  <2> QED
    BY <2>1, <2>2 DEF Pending
<1> QED
  BY <1>3, <1>4, <1>5 DEF Shrinks

LEMMA GiveUpShrinks ==
  ASSUME NetTyped, NEW c \in Client, GiveUp(c)
  PROVE  Shrinks
<1>1. asks[c] \in Ask /\ asks[c].phase = "waiting"
  BY DEF NetTyped, GiveUp
<1>2. asks' = [asks EXCEPT ![c] = [asks[c] EXCEPT !.phase = "unsure"]]
  BY DEF GiveUp
<1>3. \A d \in Client :
        /\ asks'[d] \in Ask /\ asks'[d].no = asks[d].no /\ asks'[d].list = asks[d].list
        /\ asks'[d].phase # "idle" => asks[d].phase # "idle"
  BY <1>1, <1>2 DEF NetTyped, Ask
<1>4. NetTyped'
  BY <1>1, <1>2, <1>3 DEF NetTyped, GiveUp
<1>5. Pending' \subseteq Pending
  <2> SUFFICES ASSUME NEW p \in Pending' PROVE p \in Pending
    OBVIOUS
  <2>1. CASE \E d \in Client : asks'[d].phase # "idle" /\ p = Request(d, asks'[d])
    BY <1>3, <2>1 DEF Pending, Request
  <2>2. CASE \E q \in late' : p = Request(q.client, q.ask)
    <3>1. PICK q \in late' : p = Request(q.client, q.ask)
      BY <2>2
    <3>2. q \in late \/ q = [client |-> c, ask |-> asks[c]]
      BY DEF GiveUp
    <3> QED
      BY <1>1, <3>1, <3>2 DEF Pending
  <2> QED
    BY <2>1, <2>2 DEF Pending
<1> QED
  BY <1>3, <1>4, <1>5 DEF Shrinks

LEMMA RetryShrinks ==
  ASSUME NetTyped, NEW c \in Client, Retry(c)
  PROVE  Shrinks
<1>1. asks[c] \in Ask /\ asks[c].phase = "unsure"
  BY DEF NetTyped, Retry
<1>2. asks' = [asks EXCEPT ![c] = [asks[c] EXCEPT !.phase = "waiting", !.try = asks[c].try + 1]]
  BY <1>1 DEF Retry, NetTyped
<1>3. \A d \in Client :
        /\ asks'[d] \in Ask /\ asks'[d].no = asks[d].no /\ asks'[d].list = asks[d].list
        /\ asks'[d].phase # "idle" => asks[d].phase # "idle"
  <2> DEFINE ask == [asks[c] EXCEPT !.phase = "waiting", !.try = asks[c].try + 1]
  <2>1. ask \in Ask /\ ask.no = asks[c].no /\ ask.list = asks[c].list
    <3>1. asks[c].try + 1 \in Nat
      BY <1>1 DEF Ask
    <3>2. \A a \in Ask : \A t \in Nat :
            LET b == [[a EXCEPT !.phase = "waiting"] EXCEPT !.try = t]
            IN  b \in Ask /\ b.no = a.no /\ b.list = a.list
      BY DEF Ask
    <3>3. ask = [[asks[c] EXCEPT !.phase = "waiting"] EXCEPT !.try = asks[c].try + 1]
      OBVIOUS
    <3> QED
      BY <1>1, <3>1, <3>2, <3>3
  <2>2. \A d \in Client : asks'[d] = IF d = c THEN ask ELSE asks[d]
    BY <1>2 DEF NetTyped
  <2> HIDE DEF ask
  <2> QED
    BY <1>1, <2>1, <2>2 DEF NetTyped
<1>4. NetTyped' /\ late' = late
  BY <1>2, <1>3 DEF NetTyped, Retry
<1>5. Pending' \subseteq Pending
  <2> SUFFICES ASSUME NEW p \in Pending' PROVE p \in Pending
    OBVIOUS
  <2>1. CASE \E d \in Client : asks'[d].phase # "idle" /\ p = Request(d, asks'[d])
    BY <1>3, <2>1 DEF Pending, Request
  <2>2. CASE \E q \in late' : p = Request(q.client, q.ask)
    BY <1>4, <2>2 DEF Pending
  <2> QED
    BY <2>1, <2>2 DEF Pending
<1> QED
  BY <1>3, <1>4, <1>5 DEF Shrinks

LEMMA StopsShrinks ==
  ASSUME NetTyped, Stops
  PROVE  Shrinks
<1>1. late' = {} /\ asks' = [c \in Client |->
        IF asks[c].phase = "waiting" THEN [asks[c] EXCEPT !.phase = "unsure"] ELSE asks[c]]
  BY DEF Stops
<1>2. \A d \in Client :
        /\ asks'[d] \in Ask /\ asks'[d].no = asks[d].no /\ asks'[d].list = asks[d].list
        /\ asks'[d].phase # "idle" => asks[d].phase # "idle"
  BY <1>1 DEF NetTyped, Ask
<1>3. NetTyped'
  BY <1>1, <1>2 DEF NetTyped
<1>4. Pending' \subseteq Pending
  BY <1>1, <1>2 DEF Pending, Request
<1> QED
  BY <1>2, <1>3, <1>4 DEF Shrinks

LEMMA RestShrinks ==
  ASSUME NetTyped, asks' = asks, late' \subseteq late
  PROVE  Shrinks
BY DEF NetTyped, Shrinks, Pending

LEMMA PostAdds ==
  ASSUME NetTyped, NEW c \in Client, NEW list \in Batch \cup {Garbled}, Post(c, list)
  PROVE  /\ NetTyped' /\ asks'[c].no = asks[c].no + 1
         /\ \A d \in Client \ {c} : asks'[d] = asks[d]
         /\ \E l \in ListType :
              Pending' \subseteq
                Pending \cup {[client |-> c, no |-> asks[c].no + 1, list |-> l]}
<1> DEFINE l == Decoded(c, list)
           ask == [phase |-> "waiting", no |-> asks[c].no + 1, try |-> 1, list |-> l]
<1>1. l \in ListType
  BY DEF Decoded, ListType
<1>2. ask \in Ask
  BY <1>1 DEF NetTyped, Ask
<1>3. asks' = [asks EXCEPT ![c] = ask] /\ late' = late
  BY DEF Post
<1> HIDE DEF l
<1>4. asks'[c] = ask /\ \A d \in Client \ {c} : asks'[d] = asks[d]
  BY <1>3 DEF NetTyped
<1>5. NetTyped'
  BY <1>2, <1>3 DEF NetTyped
<1>6. Pending' \subseteq Pending \cup {[client |-> c, no |-> asks[c].no + 1, list |-> l]}
  <2> SUFFICES ASSUME NEW p \in Pending'
               PROVE  p \in Pending \/ p = [client |-> c, no |-> asks[c].no + 1, list |-> l]
    OBVIOUS
  <2>1. CASE \E d \in Client : asks'[d].phase # "idle" /\ p = Request(d, asks'[d])
    <3>1. PICK d \in Client : asks'[d].phase # "idle" /\ p = Request(d, asks'[d])
      BY <2>1
    <3>2. CASE d = c
      BY <1>4, <3>1, <3>2 DEF Request
    <3>3. CASE d # c
      BY <1>4, <3>1, <3>3 DEF Pending
    <3> QED
      BY <3>2, <3>3
  <2>2. CASE \E q \in late' : p = Request(q.client, q.ask)
    BY <1>3, <2>2 DEF Pending
  <2> QED
    BY <2>1, <2>2 DEF Pending
<1> QED
  BY <1>1, <1>4, <1>5, <1>6
-------------------------------------------------------------------------------
(* The server uses the engine as Engine specifies it *)

(* A list that is committed is one of the lists clients send. *)
LEMMA CommitsBatch ==
  ASSUME NetTyped, NEW r \in UnderWay, TxCommits(r)
  PROVE  r.ask.list \in Batch /\ Commit(r.ask.list) /\ WellFormed(r.ask.list)
<1>1. r.ask.list \in ListType /\ r.ask.list # Garbled
  BY UnderWayPending DEF TxCommits, Arrives
<1>2. Commit(r.ask.list) /\ WellFormed(r.ask.list)
  BY DEF TxCommits, Commit
<1> QED
  BY <1>1, <1>2 DEF ListType, WellFormed

(* What each step does to the network and to the engine *)
LEMMA NetStep ==
  ASSUME NetTyped, [ServerNext]_serverVars
  PROVE  /\ NetTyped' /\ [Next]_vars
         /\ \/ Shrinks
            \/ \E c \in Client : \E list \in Batch \cup {Garbled} : Post(c, list)
<1>1. CASE Starts
  <2>1. Shrinks
    BY <1>1, RestShrinks DEF Starts, netVars
  <2> QED
    BY <1>1, <2>1 DEF Starts, Next, Shrinks
<1>2. CASE Stops
  <2>1. Shrinks
    BY <1>2, StopsShrinks
  <2> QED
    BY <1>2, <2>1 DEF Stops, Next, Shrinks
<1>3. CASE \E c \in Client : \E list \in Batch \cup {Garbled} : Post(c, list)
  BY <1>3, PostAdds DEF Post
<1>4. ASSUME NEW c \in Client, GiveUp(c) \/ Retry(c)
      PROVE  Shrinks /\ UNCHANGED vars
  BY <1>4, GiveUpShrinks, RetryShrinks DEF GiveUp, Retry
<1>5. ASSUME NEW r \in UnderWay, Lose(r) PROVE Shrinks /\ UNCHANGED vars
  BY <1>5, RestShrinks DEF Lose
<1>6. ASSUME NEW r \in UnderWay, TxCommits(r) PROVE Shrinks /\ Next
  <2>1. Shrinks
    BY <1>6, LeavesShrinks DEF TxCommits
  <2> QED
    BY <1>6, <2>1, CommitsBatch DEF Next
<1>7. ASSUME NEW r \in UnderWay, TxUnchanged(r) \/ TxRefused(r) PROVE Shrinks /\ UNCHANGED vars
  <2>1. Shrinks
    BY <1>7, LeavesShrinks DEF TxUnchanged, TxRefused
  <2> QED
    BY <1>7, <2>1 DEF TxUnchanged, TxRefused, CommitRefused
<1>8. CASE UNCHANGED serverVars
  <2>1. asks' = asks /\ late' = late /\ UNCHANGED vars
    BY <1>8 DEF serverVars, netVars
  <2> QED
    BY <2>1, RestShrinks DEF Shrinks
<1>9. CASE \E c \in Client : GiveUp(c) \/ Retry(c)
  BY <1>4, <1>9 DEF Shrinks
<1>10. CASE \E r \in UnderWay : Lose(r) \/ TxCommits(r) \/ TxUnchanged(r) \/ TxRefused(r)
  BY <1>5, <1>6, <1>7, <1>10 DEF Shrinks
<1> QED
  BY <1>1, <1>2, <1>3, <1>8, <1>9, <1>10 DEF ServerNext

LEMMA NetInit == ServerInit => NetTyped
<1> SUFFICES ASSUME ServerInit PROVE NetTyped
  OBVIOUS
<1>1. Nothing \in Ask
  BY DEF Nothing, Ask, ListType
<1> QED
  BY <1>1 DEF ServerInit, NetTyped

(* The server, with all its clients, retries and restarts, implements the    *)
(* specification of the engine: every step of a handler is a step of Engine  *)
(* or leaves the engine alone. So Engine's theorems hold of the server.      *)
THEOREM ServerImplementsEngine == ServerSpec => Spec
<1>1. ServerInit => Init /\ NetTyped
  BY NetInit DEF ServerInit
<1>2. NetTyped /\ [ServerNext]_serverVars => NetTyped' /\ [Next]_vars
  BY NetStep
<1> QED
  BY <1>1, <1>2, PTL DEF ServerSpec, Spec

(* Engine's inductive invariants hold of the server's engine. *)
LEMMA EngineInvariants == ServerSpec => []ChainInv /\ []BookInv
BY ServerImplementsEngine, ChainInvariant, BookInvariant, PTL
-------------------------------------------------------------------------------
(* /v1/status *)

(* The state of a verified chain is the one its last block's roots are of. *)
LEMMA StatusFromInvariant == ChainInv => StatusNamesBlock
<1> SUFFICES ASSUME ChainInv, up, Status.height > 0
             PROVE  LET b == BlockHandler(Status.height)
                    IN  /\ Status.latestHash = b.hash
                        /\ Status.verified => VerifyHandler = "200"
                        /\ Status.stateRoot = b.stateRoot
                        /\ b.schema = 4 =>
                             \A root \in {"contractRoot", "accountRoot", "codeRoot",
                                          "storageRoot", "logRoot", "zkRoot", "receiptRoot"} :
                               Status[root] = b[root]
  BY DEF StatusNamesBlock
<1> DEFINE n == Len(blocks)
           b == blocks[n]
           s == Apply(StateBefore(blocks, n), b.ops)
<1>1. ChainType(blocks) /\ state \in StateType /\ Accepts(blocks)
  BY DEF ChainInv, TypeOK
<1>2. n \in Nat /\ DOMAIN blocks = 1..n
  BY <1>1, StateBeforeType
<1>3. Status.height = n /\ n > 0
  BY DEF Status
<1>4. n \in DOMAIN blocks /\ blocks # <<>>
  BY <1>2, <1>3
<1>5. BlockHandler(Status.height) = b /\ Status.latestHash = b.hash
  BY <1>2, <1>3, <1>4 DEF BlockHandler, Status, LastHash
<1>6. RootsMatch(b, s)
  BY <1>1, <1>4 DEF Accepts, ApplyLoaded
<1>7. s = [k \in Key |-> s[k]] /\ state = [k \in Key |-> state[k]]
  BY <1>1 DEF Apply, StateType
<1>8. b.stateRoot = s
  BY <1>6, <1>7 DEF RootsMatch, StateRoot, PrefixRoot
<1>9. state = s
  <2>1. n + 1 # 1 /\ (n + 1) - 1 = n
    BY <1>2, <1>3
  <2>2. state = b.stateRoot
    BY <2>1 DEF ChainInv, StateBefore
  <2> QED
    BY <1>8, <2>2
<1>10. Status.stateRoot = b.stateRoot
  BY <1>7, <1>8, <1>9 DEF Status, StateRoot, PrefixRoot
<1>11. VerifyHandler = "200"
  BY <1>1 DEF VerifyHandler
<1>12. ASSUME b.schema = 4
       PROVE  /\ Status.contractRoot = b.contractRoot /\ Status.accountRoot = b.accountRoot
              /\ Status.codeRoot = b.codeRoot /\ Status.storageRoot = b.storageRoot
              /\ Status.logRoot = b.logRoot /\ Status.zkRoot = b.zkRoot
              /\ Status.receiptRoot = b.receiptRoot
  <2> HIDE DEF b, s
  <2>1. b.schema >= 3 /\ b.schema >= 4
    BY <1>12
  <2> QED
    BY <1>6, <1>9, <2>1 DEF RootsMatch, Status
<1> HIDE DEF b
<1> QED
  BY <1>5, <1>10, <1>11, <1>12

(* What /v1/status reports belongs to one block, and verifying confirms it,  *)
(* whatever was committed and however often the server was restarted.        *)
THEOREM StatusConsistent == ServerSpec => []StatusNamesBlock
BY EngineInvariants, StatusFromInvariant, PTL
-------------------------------------------------------------------------------
(* ListType that have been carried out *)

(* A list leaves what it asks for, *)
LEMMA ApplyDone ==
  ASSUME NEW s, NEW list \in Batch, WellFormed(list)
  PROVE  Done(Apply(s, list), list)
<1> SUFFICES ASSUME NEW k \in {list[i].key : i \in DOMAIN list}
             PROVE  k \in Key /\ Apply(s, list)[k] = Effect(list[Max(On(list, k))])
  BY DEF Done
<1>1. list \in Seq(Operation)
  BY BatchType
<1>2. PICK i \in DOMAIN list : k = list[i].key
  OBVIOUS
<1>3. k \in Key
  <2>1. list[i] \in Operation
    BY <1>1, <1>2
  <2>2. list[i].key \in Key \cup {NoKey}
    BY <2>1 DEF Operation
  <2> QED
    BY <1>2, <2>2 DEF WellFormed
<1>4. On(list, k) \cap DOMAIN list = On(list, k) /\ On(list, k) # {}
  BY <1>2 DEF On
<1>5. Apply(s, list)[k] = Outcome(s, list, DOMAIN list, k)
  BY <1>3 DEF Apply
<1> QED
  BY <1>3, <1>4, <1>5 DEF Outcome

(* and a list that Commit refuses because it changes nothing finds it there. *)
LEMMA UnchangedDone ==
  ASSUME NEW s \in StateType, NEW list \in Batch, WellFormed(list), DOMAIN Filtered(s, list) = {}
  PROVE  Done(s, list)
<1> DEFINE F == Filtered(s, list)
<1>1. Apply(s, F) = Apply(s, list)
  BY BatchType, ReplayOfSurvivors
<1>2. \A k \in Key : Apply(s, F)[k] = s[k]
  <2>1. DOMAIN F = {}
    OBVIOUS
  <2> HIDE DEF F
  <2>2. \A k \in Key : On(F, k) \cap DOMAIN F = {}
    BY <2>1
  <2> QED
    BY <2>2 DEF Apply, Outcome
<1> HIDE DEF F
<1> QED
  BY <1>1, <1>2, ApplyDone DEF Done

(* What a chain says of its past does not depend on the blocks that follow.  *)
LEMMA PastKept ==
  ASSUME NEW chain, ChainType(chain), NEW b, NEW h \in 0..Len(chain)
  PROVE  StateBefore(Append(chain, b), h + 1) = StateBefore(chain, h + 1)
<1>1. Len(chain) \in Nat /\ DOMAIN chain = 1..Len(chain)
  BY StateBeforeType
<1>2. CASE h = 0
  BY <1>2 DEF StateBefore
<1>3. CASE h # 0
  <2>1. h \in DOMAIN chain /\ h + 1 # 1 /\ (h + 1) - 1 = h
    BY <1>1, <1>3
  <2>2. Append(chain, b)[h] = chain[h]
    BY <2>1, AppendBlock DEF ChainType
  <2> QED
    BY <2>1, <2>2 DEF StateBefore
<1> QED
  BY <1>2, <1>3

(* A commit puts the same block into the memory and into the segments, and   *)
(* what it leaves is the outcome of the whole list.                          *)
Committed(batch) == NewBlock(blocks, Filtered(state, batch), Apply(state, batch))

LEMMA CommitStored ==
  ASSUME ChainInv, BookInv, NEW batch \in Batch, Commit(batch)
  PROVE  LET b == Committed(batch)
             n == Len(stored)
         IN  /\ Len(blocks) = n /\ n \in Nat /\ SameChain(stored, blocks)
             /\ ChainType(stored) /\ ChainType(blocks)
             /\ stored' = Append(stored, GobDecoded(b)) /\ blocks' = Append(blocks, b)
             /\ BlockType(b) /\ BlockType(GobDecoded(b)) /\ Same(GobDecoded(b), b)
             /\ Len(stored') = n + 1 /\ ChainType(stored') /\ SameChain(stored', blocks')
             /\ b.ops = Filtered(state, batch)
             /\ StateBefore(stored', n + 2) = Apply(state, batch)
<1> DEFINE b == Committed(batch)
           n == Len(stored)
<1>1. up /\ stored' = Append(stored, GobDecoded(b)) /\ blocks' = Append(blocks, b)
  BY DEF Commit, Committed
<1>2. ChainType(stored) /\ ChainType(blocks) /\ SameChain(stored, blocks)
  BY <1>1 DEF ChainInv, BookInv, TypeOK
<1>3. n \in Nat /\ Len(blocks) = n
  BY <1>2, StateBeforeType DEF SameChain
<1>4. /\ BlockType(b) /\ BlockType(GobDecoded(b)) /\ b.ops = Filtered(state, batch)
      /\ StateBefore(Append(blocks, b), Len(Append(blocks, b)) + 1) = Apply(state, batch)
  BY BatchType, CommitBlock DEF Committed
<1>5. Same(GobDecoded(b), b)
  <2>1. \A i \in DOMAIN Filtered(state, batch) : Filtered(state, batch)[i] \in Operation
    BY BatchType, FilteredType
  <2> QED
    BY <2>1, DecodedSame DEF Committed
<1> HIDE DEF b
<1>6. Len(Append(blocks, b)) = n + 1 /\ Len(stored') = n + 1
  BY <1>1, <1>2, <1>3, AppendBlock DEF ChainType
<1>7. ChainType(stored') /\ ChainType(blocks') /\ SameChain(stored', blocks')
  BY <1>1, <1>2, <1>4, <1>5, AppendChainType, AppendSame
<1>8. StateBefore(stored', n + 2) = StateBefore(blocks', n + 2)
  BY <1>3, <1>6, <1>7, SameMemory
<1>9. (n + 1) + 1 = n + 2
  BY <1>3
<1> QED
  BY <1>1, <1>2, <1>3, <1>4, <1>5, <1>6, <1>7, <1>8, <1>9 DEF b
-------------------------------------------------------------------------------
(* Requests that are carried out twice *)

(* A key that no block from g + 1 to n touches has after block n what it had *)
(* after block g.                                                            *)
LEMMA KeptSince ==
  ASSUME NEW chain, ChainType(chain), Accepts(chain), NEW n \in 0..Len(chain), NEW g \in 0..n,
         NEW k \in Key, \A m \in g + 1..n : On(chain[m].ops, k) = {}
  PROVE  StateBefore(chain, n + 1)[k] = StateBefore(chain, g + 1)[k]
<1> DEFINE V(m) == StateBefore(chain, m + 1)[k]
           T == {m \in g..n : V(m) # V(g)}
<1>1. Len(chain) \in Nat /\ DOMAIN chain = 1..Len(chain) /\ n \in Nat /\ g \in Nat
  BY StateBeforeType
<1>2. SUFFICES ASSUME V(n) # V(g) PROVE FALSE
  OBVIOUS
<1>3. T \subseteq Nat /\ n \in T
  BY <1>1, <1>2
<1>4. PICK m \in T : \A y \in T : m <= y
  BY <1>3, LeastNat
<1>5. m \in Nat /\ m # g /\ m \in g + 1..n /\ m - 1 \in g..n /\ m \in DOMAIN chain
  BY <1>1, <1>4
<1>6. V(m - 1) = V(g)
  BY <1>1, <1>4, <1>5
<1>7. StateBefore(chain, m + 1) = chain[m].stateRoot
  <2>1. m + 1 # 1 /\ (m + 1) - 1 = m
    BY <1>1, <1>5
  <2> QED
    BY <2>1 DEF StateBefore
<1>8. chain[m].stateRoot = StateRoot(Apply(StateBefore(chain, m), chain[m].ops))
  BY <1>5 DEF Accepts, ApplyLoaded, RootsMatch
<1>9. On(chain[m].ops, k) \cap DOMAIN chain[m].ops = {}
  BY <1>5
<1>10. V(m) = StateBefore(chain, m)[k]
  BY <1>7, <1>8, <1>9 DEF StateRoot, PrefixRoot, Apply, Outcome
<1>11. (m - 1) + 1 = m
  BY <1>5
<1>12. V(m) = V(g)
  BY <1>6, <1>10, <1>11
<1> QED
  BY <1>4, <1>12

(* An operation that survives suppression, and is the only surviving one on  *)
(* its key, did not find there what its list leaves.                         *)
LEMMA SurvivorChanges ==
  ASSUME NEW s, NEW list \in Batch, WellFormed(list), NEW i \in DOMAIN Filtered(s, list),
         ~WritesKeyTwice(Filtered(s, list))
  PROVE  LET k == Filtered(s, list)[i].key
         IN  /\ k \in Key /\ k \in {list[j].key : j \in DOMAIN list}
             /\ s[k] # Effect(list[Max(On(list, k))])
<1> DEFINE F == Filtered(s, list)
           k == F[i].key
<1>1. list \in Seq(Operation)
  BY BatchType
<1>2. /\ DOMAIN F \subseteq DOMAIN list /\ DOMAIN list \subseteq Nat
      /\ F[i] = list[i] /\ i \in Nat /\ i \in DOMAIN list
  BY <1>1, FilteredType
<1>3. Done(Apply(s, list), list)
  BY ApplyDone
<1>4. k \in {list[j].key : j \in DOMAIN list}
  BY <1>2
<1>5. k \in Key /\ Apply(s, list)[k] = Effect(list[Max(On(list, k))])
  BY <1>3, <1>4 DEF Done
<1>6. SUFFICES ASSUME s[k] = Effect(list[Max(On(list, k))]) PROVE FALSE
  BY <1>4, <1>5
<1>7. Apply(s, F)[k] = s[k]
  BY <1>1, <1>5, <1>6, ReplayOfSurvivors
<1>8. ~Suppressed(s, F, i)
  <2>1. \A j \in DOMAIN list : list[j].key \in Key
    BY <1>3 DEF Done
  <2> QED
    BY <1>1, <2>1, SurvivorsSurvive
<1> HIDE DEF F
<1>9. On(F, k) = {i}
  BY DEF On, WritesKeyTwice, F
<1>10. Max({i}) = i
  <2>1. i \in Int /\ {i} \subseteq Nat /\ i \in {i} /\ \A y \in {i} : y <= i
    BY <1>2
  <2> QED
    BY <2>1, MaxIs
<1>11. Apply(s, F)[k] = Effect(F[i])
  <2>1. On(F, k) \cap DOMAIN F = {i}
    BY <1>9 DEF F
  <2> QED
    BY <1>5, <1>10, <2>1 DEF Apply, Outcome
<1>12. Current(s, F, i) = s[k]
  <2>1. On(F, k) \cap {j \in DOMAIN F : j < i} = {}
    BY <1>2, <1>9
  <2> QED
    BY <2>1 DEF Current, Outcome
<1> QED
  BY <1>7, <1>8, <1>11, <1>12 DEF Suppressed

(* Chains a replay does not tell apart repeat the same requests. *)
LEMMA SameDupFree ==
  ASSUME NEW c, NEW d, NEW who, SameChain(c, d), ChainType(c), DupFree(d, who)
  PROVE  DupFree(c, who)
<1> SUFFICES ASSUME NEW g \in DOMAIN c, NEW h \in DOMAIN c, g < h, who[g] = who[h],
                    ~WritesKeyTwice(c[h].ops), KeysUntouched(c, g, h)
             PROVE  FALSE
  BY DEF DupFree
<1>1. DOMAIN c = 1..Len(c) /\ Len(c) \in Nat /\ DOMAIN c = DOMAIN d
  BY StateBeforeType DEF SameChain
<1>2. \A m \in DOMAIN c : /\ DOMAIN c[m].ops = DOMAIN d[m].ops
                          /\ \A i \in DOMAIN c[m].ops : c[m].ops[i].key = d[m].ops[i].key
  BY DEF SameChain, Same
<1>3. ~WritesKeyTwice(d[h].ops)
  BY <1>2 DEF WritesKeyTwice
<1>4. \A m \in g + 1..h - 1 : m \in DOMAIN c
  BY <1>1
<1>5. \A m \in DOMAIN c : \A k : On(c[m].ops, k) = On(d[m].ops, k)
  BY <1>2 DEF On
<1>6. KeysUntouched(d, g, h)
  <2> SUFFICES ASSUME NEW m \in g + 1..h - 1, NEW i \in DOMAIN d[h].ops
               PROVE  On(d[m].ops, d[h].ops[i].key) = {}
    BY DEF KeysUntouched
  <2>1. i \in DOMAIN c[h].ops /\ c[h].ops[i].key = d[h].ops[i].key
    BY <1>2
  <2>2. On(c[m].ops, c[h].ops[i].key) = {}
    BY <2>1 DEF KeysUntouched
  <2> QED
    BY <1>4, <1>5, <2>1, <2>2
<1> QED
  BY <1>1, <1>3, <1>6 DEF DupFree

(* A chain stays free of duplicates if the block that is appended is none.   *)
LEMMA AppendDupFree ==
  ASSUME NEW chain, ChainType(chain), NEW who, who \in Seq({who[h] : h \in DOMAIN who}),
         Len(who) = Len(chain), DupFree(chain, who), NEW b, NEW a,
         \A g \in DOMAIN chain :
           who[g] = a /\ ~WritesKeyTwice(b.ops) =>
             ~(\A m \in g + 1..Len(chain) : \A i \in DOMAIN b.ops :
                 On(chain[m].ops, b.ops[i].key) = {})
  PROVE  DupFree(Append(chain, b), Append(who, a))
<1> DEFINE c == Append(chain, b)
           w == Append(who, a)
           n == Len(chain)
<1>1. /\ n \in Nat /\ DOMAIN chain = 1..n /\ DOMAIN c = 1..(n + 1) /\ c[n + 1] = b
      /\ \A h \in DOMAIN chain : c[h] = chain[h]
  BY AppendBlock DEF ChainType
<1>2. DOMAIN who = 1..n /\ w[n + 1] = a /\ \A h \in DOMAIN who : w[h] = who[h]
  BY AppendBlock
<1> HIDE DEF c, w
<1> SUFFICES ASSUME NEW g \in DOMAIN c, NEW h \in DOMAIN c, g < h, w[g] = w[h],
                    ~WritesKeyTwice(c[h].ops), KeysUntouched(c, g, h)
             PROVE  FALSE
  BY DEF DupFree, c, w
<1>3. g \in DOMAIN chain /\ w[g] = who[g]
  BY <1>1, <1>2
<1>4. CASE h = n + 1
  <2>1. \A m \in g + 1..n : m \in DOMAIN chain /\ m \in g + 1..h - 1
    BY <1>1, <1>3, <1>4
  <2>2. \A m \in g + 1..n : \A i \in DOMAIN b.ops : On(chain[m].ops, b.ops[i].key) = {}
    BY <1>1, <1>4, <2>1 DEF KeysUntouched
  <2> QED
    BY <1>1, <1>2, <1>3, <1>4, <2>2
<1>5. CASE h # n + 1
  <2>1. h \in DOMAIN chain /\ w[h] = who[h] /\ c[h] = chain[h]
    BY <1>1, <1>2, <1>5
  <2>2. \A m \in g + 1..h - 1 : m \in DOMAIN chain
    BY <1>1, <1>3, <2>1
  <2>3. KeysUntouched(chain, g, h)
    BY <1>1, <2>1, <2>2 DEF KeysUntouched
  <2> QED
    BY <1>3, <2>1, <2>3 DEF DupFree
<1> QED
  BY <1>4, <1>5
-------------------------------------------------------------------------------
(* The inductive invariant is preserved *)

LEMMA PendingType == NetTyped => \A p \in Pending : p.client \in Client /\ p.no \in Nat
<1> SUFFICES ASSUME NetTyped, NEW p \in Pending PROVE p.client \in Client /\ p.no \in Nat
  OBVIOUS
<1>1. CASE \E c \in Client : p = Request(c, asks[c])
  BY <1>1 DEF NetTyped, Ask, Request
<1>2. CASE \E r \in late : p = Request(r.client, r.ask)
  <2>1. PICK r \in late : p = Request(r.client, r.ask)
    BY <1>2
  <2>2. r.client \in Client /\ r.ask \in Ask
    BY DEF NetTyped
  <2> QED
    BY <2>1, <2>2 DEF Request, Ask
<1> QED
  BY <1>1, <1>2 DEF Pending

LEMMA ShrinksNumbered ==
  ASSUME NetTyped, Numbered, Shrinks, author' = author
  PROVE  Numbered'
<1>1. \A p \in Pending' : p \in Pending /\ p.client \in Client
  BY PendingType DEF Shrinks
<1>2. \A p, q \in Pending' : p.client = q.client /\ p.no = q.no => p.list = q.list
  BY <1>1 DEF Numbered
<1>3. \A p \in Pending' : p.no \in 1..asks'[p.client].no
  BY <1>1 DEF Numbered, Shrinks
<1>4. \A g \in DOMAIN author', c \in Client :
        author'[g].client = c => author'[g].no <= asks'[c].no
  BY DEF Numbered, Shrinks
<1> QED
  BY <1>2, <1>3, <1>4 DEF Numbered

(* Steps that leave the engine's segments, the answers and the authors alone *)
LEMMA QuietStep ==
  ASSUME NetInv, Shrinks, UNCHANGED <<stored, answers, author>>,
         blocks' \in {blocks, stored, <<>>}
  PROVE  NetInv'
<1>1. NetTyped' /\ Numbered'
  BY ShrinksNumbered DEF NetInv, Shrinks
<1>2. Authored' /\ Told'
  BY DEF NetInv, Authored, Told
<1>3. Carried'
  BY DEF NetInv, Carried, Shrinks
<1>4. DupFree(stored', author')
  BY DEF NetInv
<1>5. DupFree(blocks', author')
  <2>1. DupFree(<<>>, author)
    BY DEF DupFree
  <2> QED
    BY <2>1 DEF NetInv
<1> QED
  BY <1>1, <1>2, <1>3, <1>4, <1>5 DEF NetInv

(* A new request has a number that no request and no block has yet. *)
LEMMA PostStep ==
  ASSUME NetInv, NEW c \in Client, NEW list \in Batch \cup {Garbled}, Post(c, list)
  PROVE  NetInv'
<1>0. NetTyped /\ Numbered /\ Carried
  BY DEF NetInv
<1>1. PICK l \in ListType :
        Pending' \subseteq Pending \cup {[client |-> c, no |-> asks[c].no + 1, list |-> l]}
  BY <1>0, PostAdds
<1> DEFINE new == [client |-> c, no |-> asks[c].no + 1, list |-> l]
<1>2. NetTyped' /\ asks'[c].no = asks[c].no + 1 /\ \A d \in Client \ {c} : asks'[d] = asks[d]
  BY <1>0, PostAdds
<1>3. asks[c].no \in Nat /\ \A d \in Client : asks[d].no \in Nat
  BY <1>0 DEF NetTyped, Ask
<1>4. UNCHANGED <<stored, blocks, answers, author>>
  BY DEF Post, vars
<1>5. \A p \in Pending : p.client = c => p.no # new.no
  BY <1>0, <1>3, PendingType DEF Numbered
<1>6. \A p, q \in Pending' : p.client = q.client /\ p.no = q.no => p.list = q.list
  <2> HIDE DEF new
  <2>1. new.client = c /\ \A p \in Pending' : p \in Pending \/ p = new
    BY <1>1 DEF new
  <2> QED
    BY <1>0, <1>5, <2>1 DEF Numbered
<1>7. \A p \in Pending' : p.no \in 1..asks'[p.client].no
  <2> SUFFICES ASSUME NEW p \in Pending' PROVE p.no \in 1..asks'[p.client].no
    OBVIOUS
  <2>1. CASE p = new
    BY <1>2, <1>3, <2>1
  <2>2. CASE p \in Pending
    <3>1. p.client \in Client /\ p.no \in Nat /\ p.no \in 1..asks[p.client].no
      BY <1>0, <2>2, PendingType DEF Numbered
    <3>2. asks'[p.client].no \in Nat /\ asks'[p.client].no >= asks[p.client].no
      BY <1>2, <1>3, <3>1
    <3> QED
      BY <1>3, <3>1, <3>2
  <2> QED
    BY <1>1, <2>1, <2>2
<1>8. \A g \in DOMAIN author, d \in Client : author[g].client = d => author[g].no <= asks'[d].no
  <2> SUFFICES ASSUME NEW g \in DOMAIN author, NEW d \in Client, author[g].client = d
               PROVE  author[g].no <= asks'[d].no
    OBVIOUS
  <2>1. author[g].no <= asks[d].no /\ author[g].no \in Nat
    BY <1>0 DEF Numbered, NetInv, Authored
  <2>2. asks'[d].no \in Nat /\ asks'[d].no >= asks[d].no
    BY <1>2, <1>3
  <2> QED
    BY <1>3, <2>1, <2>2
<1>9. Numbered'
  BY <1>4, <1>6, <1>7, <1>8 DEF Numbered
<1>10. \A g \in DOMAIN author : author[g] # [client |-> new.client, no |-> new.no]
  <2> SUFFICES ASSUME NEW g \in DOMAIN author,
                      author[g] = [client |-> c, no |-> asks[c].no + 1]
               PROVE  FALSE
    OBVIOUS
  <2>1. author[g].client = c /\ author[g].no = asks[c].no + 1
    OBVIOUS
  <2>2. author[g].no <= asks[c].no
    BY <1>0, <2>1 DEF Numbered
  <2> QED
    BY <1>3, <2>1, <2>2
<1>11. Carried'
  <2> HIDE DEF new
  <2>1. \A p \in Pending' : p \in Pending \/ p = new
    BY <1>1 DEF new
  <2>2. \A g \in DOMAIN author : \A p \in Pending' :
          author[g] = [client |-> p.client, no |-> p.no] =>
            Done(StateBefore(stored, g + 1), p.list)
    BY <1>0, <1>10, <2>1 DEF Carried
  <2> QED
    BY <1>4, <2>2 DEF Carried
<1>12. Authored' /\ Told' /\ DupFree(stored', author') /\ DupFree(blocks', author')
  BY <1>4 DEF NetInv, Authored, Told
<1> QED
  BY <1>2, <1>9, <1>11, <1>12 DEF NetInv

(* 400, no state change: what the list asks for is there already. *)
LEMMA TxUnchangedStep ==
  ASSUME NetInv, ChainInv, BookInv, NEW r \in UnderWay, TxUnchanged(r)
  PROVE  NetInv'
<1> DEFINE L == r.ask.list
           n == Len(blocks)
           new == [code |-> "unchanged", list |-> L, height |-> n]
<1>0. NetTyped /\ Told
  BY DEF NetInv
<1>1. Shrinks
  BY <1>0, LeavesShrinks DEF TxUnchanged
<1>2. UNCHANGED <<stored, blocks, state, author>> /\ up
  BY DEF TxUnchanged, CommitRefused, vars
<1>3. answers' = answers \cup {new}
  BY DEF TxUnchanged, Promises
<1>4. ChainType(stored) /\ ChainType(blocks) /\ SameChain(stored, blocks) /\ state \in StateType
  BY <1>2 DEF ChainInv, BookInv, TypeOK
<1>5. n \in Nat /\ Len(stored) = n
  BY <1>4, StateBeforeType DEF SameChain
<1>6. StateBefore(stored, n + 1) = state
  <2>1. n + 1 \in 1..(Len(stored) + 1)
    BY <1>5
  <2>2. StateBefore(stored, n + 1) = StateBefore(blocks, n + 1)
    BY <1>4, <2>1, SameMemory
  <2> QED
    BY <2>2 DEF ChainInv
<1>7. Done(state, L)
  <2>1. CASE L = <<>>
    BY <2>1 DEF Done
  <2>2. CASE L # <<>>
    <3>1. WellFormed(L) /\ L # Garbled /\ L \in ListType
      BY <1>0, <2>2, UnderWayPending DEF TxUnchanged, Arrives
    <3>2. L \in Batch
      BY <2>2, <3>1 DEF ListType
    <3>3. DOMAIN Filtered(state, L) = {}
      BY <3>1 DEF TxUnchanged, CommitRefused
    <3> QED
      BY <1>4, <3>1, <3>2, <3>3, UnchangedDone
  <2> QED
    BY <2>1, <2>2
<1>8. Told'
  <2> SUFFICES ASSUME NEW a \in answers'
               PROVE  a.height \in 0..Len(stored) /\ Done(StateBefore(stored, a.height + 1), a.list)
    BY <1>2 DEF Told
  <2>1. CASE a \in answers
    BY <1>0, <2>1 DEF Told
  <2>2. CASE a = new
    BY <1>5, <1>6, <1>7, <2>2
  <2> QED
    BY <1>3, <2>1, <2>2
<1>9. NetTyped' /\ Numbered'
  BY <1>1, <1>2, ShrinksNumbered DEF NetInv, Shrinks
<1>10. Authored' /\ DupFree(stored', author') /\ DupFree(blocks', author')
  BY <1>2 DEF NetInv, Authored
<1>11. Carried'
  BY <1>1, <1>2 DEF NetInv, Carried, Shrinks
<1> QED
  BY <1>8, <1>9, <1>10, <1>11 DEF NetInv

(* The block of a request that has a block already: one of its keys has been *)
(* written since.                                                            *)
LEMMA NoDuplicate ==
  ASSUME NetInv, ChainInv, BookInv, NEW r \in UnderWay, TxCommits(r),
         NEW g \in DOMAIN blocks,
         author[g] = [client |-> r.client, no |-> r.ask.no],
         ~WritesKeyTwice(Filtered(state, r.ask.list))
  PROVE  ~(\A m \in g + 1..Len(blocks) : \A i \in DOMAIN Filtered(state, r.ask.list) :
             On(blocks[m].ops, Filtered(state, r.ask.list)[i].key) = {})
<1> DEFINE L == r.ask.list
           F == Filtered(state, L)
           n == Len(blocks)
<1>0. NetTyped /\ Carried
  BY DEF NetInv
<1>1. L \in Batch /\ Commit(L) /\ WellFormed(L)
  BY <1>0, CommitsBatch
<1>2. /\ Len(stored) = n /\ n \in Nat /\ SameChain(stored, blocks)
      /\ ChainType(stored) /\ ChainType(blocks)
  BY <1>1, CommitStored
<1>3. DOMAIN blocks = 1..n /\ g \in 1..n /\ g \in DOMAIN author
  <2>1. DOMAIN blocks = 1..n
    BY <1>2, StateBeforeType
  <2>2. DOMAIN author = 1..n
    BY <1>2 DEF NetInv, Authored
  <2> QED
    BY <2>1, <2>2
<1>4. PICK i \in DOMAIN F : TRUE
  BY <1>1 DEF Commit
<1> DEFINE k == F[i].key
<1>5. /\ k \in Key /\ k \in {L[j].key : j \in DOMAIN L}
      /\ state[k] # Effect(L[Max(On(L, k))])
  BY <1>1, <1>4, SurvivorChanges
<1>6. Done(StateBefore(stored, g + 1), L)
  <2>1. Request(r.client, r.ask) \in Pending
    BY <1>0, UnderWayPending
  <2> QED
    BY <1>0, <1>3, <2>1 DEF Carried, Request
<1> HIDE DEF F, L
<1>7. StateBefore(blocks, g + 1)[k] = Effect(L[Max(On(L, k))])
  <2>1. g + 1 \in 1..(Len(stored) + 1)
    BY <1>2, <1>3
  <2>2. StateBefore(stored, g + 1) = StateBefore(blocks, g + 1)
    BY <1>2, <2>1, SameMemory
  <2> QED
    BY <1>5, <1>6, <2>2 DEF Done
<1>8. SUFFICES ASSUME \A m \in g + 1..n : \A j \in DOMAIN F : On(blocks[m].ops, F[j].key) = {}
               PROVE  FALSE
  BY DEF F, L
<1>9. StateBefore(blocks, n + 1)[k] = StateBefore(blocks, g + 1)[k]
  <2>1. \A m \in g + 1..n : On(blocks[m].ops, k) = {}
    BY <1>4, <1>8
  <2>2. n \in 0..Len(blocks) /\ g \in 0..n
    BY <1>2, <1>3
  <2> HIDE DEF k
  <2> QED
    BY <1>2, <1>5, <2>1, <2>2, KeptSince DEF ChainInv
<1>10. state = StateBefore(blocks, n + 1)
  BY DEF ChainInv
<1> QED
  BY <1>5, <1>7, <1>9, <1>10

(* A history grows by one entry. *)
LEMMA OneMore ==
  ASSUME NEW s, s \in Seq({s[h] : h \in DOMAIN s}), NEW x
  PROVE  /\ DOMAIN s = 1..Len(s) /\ DOMAIN Append(s, x) = 1..(Len(s) + 1)
         /\ Len(Append(s, x)) = Len(s) + 1
         /\ \A h \in DOMAIN s : Append(s, x)[h] = s[h]
         /\ Append(s, x)[Len(s) + 1] = x
         /\ Append(s, x) \in Seq({Append(s, x)[h] : h \in DOMAIN Append(s, x)})
<1> DEFINE c == Append(s, x)
<1>1. /\ DOMAIN s = 1..Len(s) /\ DOMAIN c = 1..(Len(s) + 1) /\ Len(c) = Len(s) + 1
      /\ \A h \in DOMAIN s : c[h] = s[h]
      /\ c[Len(s) + 1] = x /\ c \in Seq({c[h] : h \in DOMAIN c})
  BY AppendBlock
<1> QED
  BY <1>1

(* 201: the block is new to memory and segments, and leaves what its list    *)
(* asks for.                                                                 *)
LEMMA TxCommitsStep ==
  ASSUME NetInv, ChainInv, BookInv, NEW r \in UnderWay, TxCommits(r)
  PROVE  NetInv'
<1> DEFINE L == r.ask.list
           n == Len(stored)
           b == Committed(L)
           who == [client |-> r.client, no |-> r.ask.no]
<1>0. NetTyped /\ Numbered /\ Authored /\ Carried /\ Told
  BY DEF NetInv
<1>1. L \in Batch /\ Commit(L) /\ WellFormed(L)
  BY <1>0, CommitsBatch
<1>2. /\ Len(blocks) = n /\ n \in Nat /\ SameChain(stored, blocks)
      /\ ChainType(stored) /\ ChainType(blocks)
      /\ stored' = Append(stored, GobDecoded(b)) /\ blocks' = Append(blocks, b)
      /\ Len(stored') = n + 1 /\ ChainType(stored') /\ SameChain(stored', blocks')
      /\ b.ops = Filtered(state, L)
      /\ StateBefore(stored', n + 2) = Apply(state, L)
  BY <1>1, CommitStored
<1>3. Done(StateBefore(stored', n + 2), L)
  BY <1>1, <1>2, ApplyDone
<1>4. \A h \in 0..n : StateBefore(stored', h + 1) = StateBefore(stored, h + 1)
  BY <1>2, PastKept
<1>5. Shrinks
  BY <1>0, LeavesShrinks DEF TxCommits
<1>6. author' = Append(author, who)
  BY DEF TxCommits
<1>7. /\ DOMAIN author = 1..n /\ DOMAIN author' = 1..(n + 1) /\ Len(author') = n + 1
      /\ \A g \in DOMAIN author : author'[g] = author[g]
      /\ author'[n + 1] = who /\ author' \in Seq({author'[h] : h \in DOMAIN author'})
  <2>1. author \in Seq({author[h] : h \in DOMAIN author}) /\ Len(author) = n
    BY <1>0 DEF Authored
  <2> DEFINE w == Append(author, who)
  <2> HIDE DEF who
  <2>2. /\ DOMAIN author = 1..Len(author) /\ DOMAIN w = 1..(Len(author) + 1)
        /\ Len(w) = Len(author) + 1
        /\ \A g \in DOMAIN author : w[g] = author[g]
        /\ w[Len(author) + 1] = who /\ w \in Seq({w[h] : h \in DOMAIN w})
    BY <2>1, OneMore
  <2>3. author' = w
    BY <1>6
  <2> HIDE DEF w
  <2> QED
    BY <2>1, <2>2, <2>3
<1>8. Request(r.client, r.ask) \in Pending /\ r.client \in Client /\ r.ask \in Ask
  BY <1>0, UnderWayPending
<1>9. who.client = r.client /\ who.no = r.ask.no /\ who.no \in Nat
  BY <1>8 DEF Ask
<1> HIDE DEF b, who
<1>10. Authored'
  <2>1. \A h \in DOMAIN author' : author'[h].no \in Nat
    <3> SUFFICES ASSUME NEW h \in DOMAIN author' PROVE author'[h].no \in Nat
      OBVIOUS
    <3>1. h \in DOMAIN author \/ h = n + 1
      BY <1>2, <1>7
    <3> QED
      BY <1>0, <1>7, <1>9, <3>1 DEF Authored
  <2> QED
    BY <1>2, <1>7, <2>1 DEF Authored
<1>11. Numbered'
  <2>1. \A p \in Pending' : p \in Pending /\ p.client \in Client
    BY <1>0, <1>5, PendingType DEF Shrinks
  <2>2. \A p, q \in Pending' : p.client = q.client /\ p.no = q.no => p.list = q.list
    BY <1>0, <2>1 DEF Numbered
  <2>3. \A p \in Pending' : p.no \in 1..asks'[p.client].no
    BY <1>0, <1>5, <2>1 DEF Numbered, Shrinks
  <2>4. ASSUME NEW g \in DOMAIN author', NEW c \in Client, author'[g].client = c
        PROVE  author'[g].no <= asks'[c].no
    <3>1. asks'[c].no = asks[c].no
      BY <1>5 DEF Shrinks
    <3>2. CASE g \in DOMAIN author
      BY <1>0, <1>7, <2>4, <3>1, <3>2 DEF Numbered
    <3>3. CASE g = n + 1
      <4>1. c = r.client /\ author'[g].no = r.ask.no
        BY <1>7, <1>9, <2>4, <3>3
      <4>2. r.ask.no \in 1..asks[r.client].no
        BY <1>0, <1>8 DEF Numbered, Request
      <4>3. asks[r.client].no \in Nat
        BY <1>0, <1>8 DEF NetTyped, Ask
      <4> QED
        BY <3>1, <4>1, <4>2, <4>3
    <3> QED
      BY <1>2, <1>7, <3>2, <3>3
  <2> QED
    BY <2>2, <2>3, <2>4 DEF Numbered
<1>12. Carried'
  <2> SUFFICES ASSUME NEW g \in DOMAIN author', NEW p \in Pending',
                      author'[g] = [client |-> p.client, no |-> p.no]
               PROVE  Done(StateBefore(stored', g + 1), p.list)
    BY DEF Carried
  <2>1. p \in Pending
    BY <1>5 DEF Shrinks
  <2>2. CASE g \in DOMAIN author
    <3>1. Done(StateBefore(stored, g + 1), p.list)
      BY <1>0, <1>7, <2>1, <2>2 DEF Carried
    <3>2. g \in 0..n
      BY <1>2, <1>7, <2>2
    <3> QED
      BY <1>4, <3>1, <3>2
  <2>3. CASE g = n + 1
    <3>1. p.client = r.client /\ p.no = r.ask.no
      BY <1>7, <1>9, <2>3
    <3>2. p.list = L
      <4>1. /\ Request(r.client, r.ask).client = r.client /\ Request(r.client, r.ask).no = r.ask.no
            /\ Request(r.client, r.ask).list = L
        BY DEF Request
      <4> QED
        BY <1>0, <1>8, <2>1, <3>1, <4>1 DEF Numbered
    <3>3. g + 1 = n + 2
      BY <1>2, <2>3
    <3> QED
      BY <1>3, <3>2, <3>3
  <2> QED
    BY <1>2, <1>7, <2>2, <2>3
<1>13. Told'
  <2> SUFFICES ASSUME NEW a \in answers'
               PROVE  /\ a.height \in 0..(n + 1)
                      /\ Done(StateBefore(stored', a.height + 1), a.list)
    BY <1>2 DEF Told
  <2>1. CASE a \in answers
    <3>1. a.height \in 0..n /\ Done(StateBefore(stored, a.height + 1), a.list)
      BY <1>0, <2>1 DEF Told
    <3>2. a.height \in 0..(n + 1)
      BY <1>2, <3>1
    <3> QED
      BY <1>4, <3>1, <3>2
  <2>2. CASE a = [code |-> "201", list |-> L, height |-> Len(blocks) + 1]
    <3>1. a.height = n + 1 /\ a.list = L /\ (n + 1) + 1 = n + 2 /\ n + 1 \in 0..(n + 1)
      BY <1>2, <2>2
    <3> QED
      BY <1>3, <3>1
  <2> QED
    BY <2>1, <2>2 DEF TxCommits, Promises
<1>14. DupFree(blocks', author')
  <2>1. \A g \in DOMAIN blocks :
          author[g] = who /\ ~WritesKeyTwice(b.ops) =>
            ~(\A m \in g + 1..Len(blocks) : \A i \in DOMAIN b.ops :
                On(blocks[m].ops, b.ops[i].key) = {})
    BY <1>2, NoDuplicate DEF who
  <2>2. Len(author) = Len(blocks) /\ DupFree(blocks, author)
    BY <1>0, <1>2 DEF Authored, NetInv
  <2> QED
    BY <1>0, <1>2, <1>6, <2>1, <2>2, AppendDupFree DEF Authored
<1>15. DupFree(stored', author')
  BY <1>2, <1>14, SameDupFree
<1>16. NetTyped'
  BY <1>5 DEF Shrinks
<1> QED
  BY <1>10, <1>11, <1>12, <1>13, <1>14, <1>15, <1>16 DEF NetInv

LEMMA NetInvInit == ServerInit => NetInv
<1> SUFFICES ASSUME ServerInit PROVE NetInv
  OBVIOUS
<1>1. NetTyped
  BY NetInit
<1>2. ChainType(stored) /\ blocks = <<>>
  BY LegacyType, EmptyChain DEF ServerInit, Init, EmptyMemory
<1>3. Len(stored) \in Nat /\ DOMAIN stored = 1..Len(stored)
  BY <1>2, StateBeforeType
<1>4. /\ author = [h \in 1..Len(stored) |-> [client |-> h, no |-> 0]]
      /\ asks = [c \in Client |-> Nothing] /\ late = {} /\ answers = {}
  BY <1>3 DEF ServerInit
<1>5. DOMAIN author = 1..Len(stored) /\ \A h \in DOMAIN author : author[h] = [client |-> h, no |-> 0]
  BY <1>4
<1>6. Authored
  <2>1. author \in [1..Len(stored) -> {author[h] : h \in DOMAIN author}]
    BY <1>4, <1>5
  <2>2. author \in Seq({author[h] : h \in DOMAIN author}) /\ Len(author) = Len(stored)
    BY <1>3, <2>1
  <2>3. \A h \in DOMAIN author : author[h].no = 0
    BY <1>5
  <2> QED
    BY <2>2, <2>3 DEF Authored
<1>7. Pending = {}
  BY <1>4 DEF Pending, Nothing
<1>8. Numbered
  <2>1. \A g \in DOMAIN author, c \in Client : author[g].no <= asks[c].no
    BY <1>4, <1>5 DEF Nothing
  <2> QED
    BY <1>7, <2>1 DEF Numbered
<1>9. Carried /\ Told
  BY <1>4, <1>7 DEF Carried, Told
<1>10. DupFree(stored, author) /\ DupFree(blocks, author)
  <2>1. \A g, h \in DOMAIN stored : g < h => author[g] # author[h]
    <3> SUFFICES ASSUME NEW g \in DOMAIN stored, NEW h \in DOMAIN stored, g < h,
                        author[g] = author[h]
                 PROVE  FALSE
      OBVIOUS
    <3>1. author[g].client = g /\ author[h].client = h
      BY <1>3, <1>5
    <3> QED
      BY <1>3, <3>1
  <2> QED
    BY <1>2, <2>1 DEF DupFree
<1> QED
  BY <1>1, <1>6, <1>8, <1>9, <1>10 DEF NetInv

(* The inductive invariant of the server holds. *)
THEOREM ServerInvariant == ServerSpec => []NetInv
<1>1. NetInv /\ ChainInv /\ BookInv /\ [ServerNext]_serverVars => NetInv'
  <2> SUFFICES ASSUME NetInv, ChainInv, BookInv, [ServerNext]_serverVars PROVE NetInv'
    OBVIOUS
  <2>0. NetTyped
    BY DEF NetInv
  <2>1. CASE Starts
    <3>1. Shrinks
      BY <2>0, <2>1, RestShrinks DEF Starts, netVars
    <3> QED
      BY <2>1, <3>1, QuietStep DEF Starts, netVars, Open, Loaded
  <2>2. CASE Stops
    <3>1. Shrinks
      BY <2>0, <2>2, StopsShrinks
    <3> QED
      BY <2>2, <3>1, QuietStep DEF Stops, Close
  <2>3. ASSUME NEW c \in Client, NEW list \in Batch \cup {Garbled}, Post(c, list) PROVE NetInv'
    BY <2>3, PostStep
  <2>4. ASSUME NEW c \in Client, GiveUp(c) \/ Retry(c) PROVE NetInv'
    <3>1. Shrinks
      BY <2>0, <2>4, GiveUpShrinks, RetryShrinks
    <3> QED
      BY <2>4, <3>1, QuietStep DEF GiveUp, Retry, vars
  <2>5. ASSUME NEW r \in UnderWay, Lose(r) PROVE NetInv'
    <3>1. Shrinks
      BY <2>0, <2>5, RestShrinks DEF Lose
    <3> QED
      BY <2>5, <3>1, QuietStep DEF Lose, vars
  <2>6. ASSUME NEW r \in UnderWay, TxCommits(r) PROVE NetInv'
    BY <2>6, TxCommitsStep
  <2>7. ASSUME NEW r \in UnderWay, TxUnchanged(r) PROVE NetInv'
    BY <2>7, TxUnchangedStep
  <2>8. ASSUME NEW r \in UnderWay, TxRefused(r) PROVE NetInv'
    <3>1. Shrinks
      BY <2>0, <2>8, LeavesShrinks DEF TxRefused
    <3> QED
      BY <2>8, <3>1, QuietStep DEF TxRefused, vars
  <2>9. CASE UNCHANGED serverVars
    <3>1. Shrinks
      BY <2>0, <2>9, RestShrinks DEF serverVars, netVars
    <3> QED
      BY <2>9, <3>1, QuietStep DEF serverVars, netVars, vars
  <2> QED
    BY <2>1, <2>2, <2>3, <2>4, <2>5, <2>6, <2>7, <2>8, <2>9 DEF ServerNext
<1> QED
  BY <1>1, NetInvInit, EngineInvariants, PTL DEF ServerSpec

(* What a client was told it had written, or was told was there already, is  *)
(* what /v1/state returns for the height of that answer ever after, across   *)
(* later writes, late copies of requests and restarts.                       *)
THEOREM AnswersStand == ServerSpec => []AnswerStands
<1>1. NetInv /\ ChainInv /\ BookInv => AnswerStands
  <2> SUFFICES ASSUME NetInv, ChainInv, BookInv, up, NEW a \in answers, a.height > 0,
                      NEW k \in {a.list[i].key : i \in DOMAIN a.list}
               PROVE  StateHandler(k, a.height) = Effect(a.list[Max(On(a.list, k))])
    BY DEF AnswerStands
  <2>1. a.height \in 0..Len(stored) /\ Done(StateBefore(stored, a.height + 1), a.list)
    BY DEF NetInv, Told
  <2>2. k \in Key /\ StateBefore(stored, a.height + 1)[k] = Effect(a.list[Max(On(a.list, k))])
    BY <2>1 DEF Done
  <2>3. /\ ChainType(stored) /\ ChainType(blocks) /\ SameChain(stored, blocks)
        /\ Len(stored) = Len(blocks) /\ Len(blocks) \in Nat
    BY StateBeforeType DEF ChainInv, BookInv, TypeOK, SameChain
  <2>4. a.height \in Nat /\ a.height + 1 \in 1..(Len(stored) + 1) /\ a.height <= Len(blocks)
    BY <2>1, <2>3
  <2>5. StateBefore(blocks, a.height + 1) = StateBefore(stored, a.height + 1)
    BY <2>3, <2>4, SameMemory
  <2>6. (IF a.height < Len(blocks) THEN a.height ELSE Len(blocks)) = a.height
    BY <2>3, <2>4
  <2>7. GetAt(k, a.height) = StateBefore(blocks, a.height + 1)[k]
    BY <2>2, <2>4, <2>6, ExactAnywhere DEF ExactReads
  <2> QED
    BY <2>2, <2>5, <2>7 DEF StateHandler
<1> QED
  BY <1>1, ServerInvariant, EngineInvariants, PTL

(* A request that is carried out again after a timeout and a retry, at any   *)
(* later time and across restarts, makes a second block only if one of its   *)
(* keys has been written since its first block, or if it writes one twice.   *)
THEOREM DuplicatesSuppressed == ServerSpec => []DuplicateSuppressed
<1>1. NetInv => DuplicateSuppressed
  BY DEF NetInv, DupFree, KeysUntouched, DuplicateSuppressed
<1> QED
  BY <1>1, ServerInvariant, PTL
-------------------------------------------------------------------------------
(* Execution: bundles *)

(* The arrangements of a bundle that the sort may leave *)
Sorted(bundle) ==
  {l \in Arranged(bundle) :
     \A i, j \in DOMAIN l : i < j => Rank[EntryKey(l[i])] <= Rank[EntryKey(l[j])]}

(* An arrangement of a finite bundle holds every entry. *)
LEMMA ArrangedAll ==
  ASSUME NEW bundle, IsFiniteSet(bundle), NEW a \in Arranged(bundle)
  PROVE  /\ Cardinality(bundle) \in Nat
         /\ DOMAIN a = 1..Cardinality(bundle)
         /\ \A i \in DOMAIN a : a[i] \in bundle
         /\ \A i, j \in DOMAIN a : a[i] = a[j] => i = j
         /\ \A x \in bundle : \E i \in DOMAIN a : a[i] = x
<1> DEFINE n == Cardinality(bundle)
<1>1. n \in Nat
  BY FS_CardinalityType
<1>2. a \in [1..n -> bundle] /\ \A i, j \in 1..n : a[i] = a[j] => i = j
  BY DEF Arranged
<1>3. Cardinality(1..n) = n
  <2>1. 1 \in Int /\ n \in Int /\ (IF 1 > n THEN 0 ELSE n - 1 + 1) = n
    BY <1>1
  <2> HIDE DEF n
  <2> QED
    BY <2>1, FS_Interval
<1>4. a \in Injection(1..n, bundle)
  BY <1>2 DEF Injection, IsInjective
<1>5. a \in Surjection(1..n, bundle)
  BY <1>3, <1>4, FS_Injection
<1> QED
  BY <1>1, <1>2, <1>5 DEF Surjection

(* The keys of an accepted bundle have a place in the order of strings. *)
LEMMA EntryRanks ==
  ASSUME NEW bundle \in Bundles
  PROVE  /\ IsFiniteSet(bundle)
         /\ \A x \in bundle : /\ PutOp(EntryKey(x), x) \in Operation
                              /\ EntryKey(x) \in Key \cup {NoKey}
                              /\ Rank[EntryKey(x)] \in Nat
         /\ \A x, y \in bundle : Rank[EntryKey(x)] = Rank[EntryKey(y)] =>
                                   EntryKey(x) = EntryKey(y)
<1>1. IsFiniteSet(bundle) /\ \A x \in bundle : PutOp(EntryKey(x), x) \in Operation
  BY BundlesAssumption
<1>2. \A op \in Operation : op.key \in Key \cup {NoKey}
  BY DEF Operation
<1>3. \A x \in bundle : PutOp(EntryKey(x), x).key = EntryKey(x)
  BY DEF PutOp
<1>4. \A x \in bundle : EntryKey(x) \in Key \cup {NoKey}
  BY <1>1, <1>2, <1>3
<1> QED
  BY <1>1, <1>4, RankAssumption

(* The sort leaves one arrangement of a bundle with one entry for a key. *)
LEMMA OneArrangement ==
  ASSUME NEW bundle \in Bundles, Unambiguous(bundle),
         NEW a \in Sorted(bundle), NEW b \in Sorted(bundle)
  PROVE  a = b
<1> DEFINE n == Cardinality(bundle)
           R(x) == Rank[EntryKey(x)]
           D == {i \in 1..n : a[i] # b[i]}
<1>1. a \in Arranged(bundle) /\ b \in Arranged(bundle)
  BY DEF Sorted
<1>2. IsFiniteSet(bundle)
  BY EntryRanks
<1>3. /\ n \in Nat /\ DOMAIN a = 1..n
      /\ \A i \in 1..n : a[i] \in bundle
      /\ \A i, j \in 1..n : a[i] = a[j] => i = j
      /\ \A x \in bundle : \E i \in 1..n : a[i] = x
  BY <1>1, <1>2, ArrangedAll
<1>4. /\ DOMAIN b = 1..n
      /\ \A i \in 1..n : b[i] \in bundle
      /\ \A i, j \in 1..n : b[i] = b[j] => i = j
      /\ \A x \in bundle : \E i \in 1..n : b[i] = x
  BY <1>1, <1>2, ArrangedAll
<1>5. /\ \A i, j \in 1..n : i < j => R(a[i]) <= R(a[j])
      /\ \A i, j \in 1..n : i < j => R(b[i]) <= R(b[j])
  BY <1>3, <1>4 DEF Sorted
<1>6. \A x, y \in bundle : R(x) \in Nat /\ (R(x) = R(y) => x = y)
  BY EntryRanks DEF Unambiguous
<1> HIDE DEF n, R
<1>7. ASSUME D # {} PROVE FALSE
  <2>1. D \subseteq Nat
    BY <1>3
  <2>2. PICK i \in D : \A j \in D : i <= j
    BY <1>7, <2>1, LeastNat
  <2>3. i \in 1..n /\ a[i] # b[i] /\ i \in Nat
    BY <2>1
  <2>4. \A j \in 1..n : j < i => a[j] = b[j]
    BY <2>2, <2>3, <1>3
  <2>5. PICK j \in 1..n : a[j] = b[i]
    BY <1>3, <1>4, <2>3
  <2>6. PICK k \in 1..n : b[k] = a[i]
    BY <1>3, <1>4, <2>3
  <2>7. i < j
    <3>1. j # i
      BY <2>3, <2>5
    <3>2. ~(j < i)
      BY <1>4, <2>3, <2>4, <2>5, <3>1
    <3> QED
      BY <1>3, <2>3, <3>1, <3>2
  <2>8. i < k
    <3>1. k # i
      BY <2>3, <2>6
    <3>2. ~(k < i)
      BY <1>3, <2>3, <2>4, <2>6, <3>1
    <3> QED
      BY <1>3, <2>3, <3>1, <3>2
  <2>9. R(a[i]) <= R(b[i]) /\ R(b[i]) <= R(a[i])
    BY <1>5, <2>3, <2>5, <2>6, <2>7, <2>8
  <2>10. R(a[i]) = R(b[i])
    BY <1>3, <1>4, <1>6, <2>3, <2>9
  <2> QED
    BY <1>3, <1>4, <1>6, <2>3, <2>10
<1>8. \A i \in 1..n : a[i] = b[i]
  BY <1>7
<1>9. a \in [1..n -> bundle] /\ b \in [1..n -> bundle]
  BY <1>1 DEF Arranged, n
<1>10. a = [i \in 1..n |-> a[i]] /\ b = [i \in 1..n |-> b[i]]
  BY <1>9
<1> QED
  BY <1>8, <1>10, Zenon

(* A list of operations for different keys, once it has run, changes         *)
(* nothing when it runs again.                                               *)
LEMMA RunsOnce ==
  ASSUME NEW s, NEW l \in Seq(Operation),
         \A i \in DOMAIN l : l[i].key \in Key,
         \A i, j \in DOMAIN l : l[i].key = l[j].key => i = j
  PROVE  DOMAIN Filtered(Apply(s, l), l) = {}
<1> SUFFICES ASSUME NEW i \in DOMAIN l PROVE Suppressed(Apply(s, l), l, i)
  BY DEF Filtered
<1> DEFINE k == l[i].key
<1>1. i \in Nat /\ DOMAIN l \subseteq Nat /\ k \in Key
  OBVIOUS
<1>2. On(l, k) = {i}
  BY DEF On
<1>3. On(l, k) \cap {j \in DOMAIN l : j < i} = {}
  BY <1>1, <1>2
<1>4. On(l, k) \cap DOMAIN l = {i}
  BY <1>2
<1>5. Max({i}) = i
  <2>1. {i} \subseteq Nat /\ i \in {i} /\ \A y \in {i} : y <= i
    BY <1>1
  <2> QED
    BY <2>1, MaxIs
<1>6. Outcome(s, l, DOMAIN l, k) = Effect(l[i])
  BY <1>4, <1>5 DEF Outcome
<1>7. Apply(s, l)[k] = Effect(l[i])
  BY <1>1, <1>6 DEF Apply
<1>8. Outcome(Apply(s, l), l, {j \in DOMAIN l : j < i}, k) = Apply(s, l)[k]
  BY <1>3 DEF Outcome
<1> QED
  BY <1>7, <1>8 DEF Suppressed, Current

(* What CommitExecution hands to Commit is a list of operations. *)
LEMMA ListsType ==
  ASSUME NEW bundle \in Bundles, NEW l \in Lists(bundle)
  PROVE  /\ l \in Seq(Operation)
         /\ \E a \in Sorted(bundle) :
              l = [i \in DOMAIN a |-> PutOp(EntryKey(a[i]), a[i])]
<1>1. PICK a \in Sorted(bundle) : l = [i \in DOMAIN a |-> PutOp(EntryKey(a[i]), a[i])]
  BY DEF Lists, Sorted
<1>2. /\ Cardinality(bundle) \in Nat
      /\ DOMAIN a = 1..Cardinality(bundle)
      /\ \A i \in DOMAIN a : a[i] \in bundle
  BY EntryRanks, ArrangedAll DEF Sorted
<1>3. \A i \in DOMAIN a : PutOp(EntryKey(a[i]), a[i]) \in Operation
  BY <1>2, EntryRanks
<1> QED
  BY <1>1, <1>2, <1>3

(* BundleDecides: neither Go's map order nor the order sort.Slice gives to   *)
(* equal keys decides what CommitExecution commits, and executing a bundle   *)
(* again is a no-op.                                                         *)
THEOREM BundlesDecide == ExecSpec => []BundleDecides
<1>1. BundleDecides
  <2> SUFFICES ASSUME NEW bundle \in Bundles, Unambiguous(bundle),
                      NEW l \in Lists(bundle), NEW m \in Lists(bundle)
               PROVE  /\ Filtered(state, l) = Filtered(state, m)
                      /\ DOMAIN Filtered(Apply(state, l), m) = {}
    BY DEF BundleDecides
  <2>1. PICK a \in Sorted(bundle) : l = [i \in DOMAIN a |-> PutOp(EntryKey(a[i]), a[i])]
    BY ListsType
  <2>2. PICK b \in Sorted(bundle) : m = [i \in DOMAIN b |-> PutOp(EntryKey(b[i]), b[i])]
    BY ListsType
  <2>3. l = m
    BY <2>1, <2>2, OneArrangement
  <2>4. l \in Seq(Operation)
    BY ListsType
  <2>5. /\ \A i \in DOMAIN a : a[i] \in bundle
        /\ \A i, j \in DOMAIN a : a[i] = a[j] => i = j
        /\ DOMAIN l = DOMAIN a
        /\ \A i \in DOMAIN a : l[i].key = EntryKey(a[i])
    <3>1. a \in Arranged(bundle) /\ IsFiniteSet(bundle)
      BY EntryRanks DEF Sorted
    <3>2. /\ \A i \in DOMAIN a : a[i] \in bundle
          /\ \A i, j \in DOMAIN a : a[i] = a[j] => i = j
      BY <3>1, ArrangedAll
    <3> QED
      BY <2>1, <3>2 DEF PutOp
  <2>6. \A i \in DOMAIN l : l[i].key \in Key
    BY <2>5, EntryRanks DEF Unambiguous
  <2>7. \A i, j \in DOMAIN l : l[i].key = l[j].key => i = j
    BY <2>5 DEF Unambiguous
  <2>8. DOMAIN Filtered(Apply(state, l), l) = {}
    BY <2>4, <2>6, <2>7, RunsOnce
  <2> QED
    BY <2>3, <2>8
<1> QED
  BY <1>1, PTL
-------------------------------------------------------------------------------
(* Batches of an import *)

(* The operations of list t from position c + 1 to position e *)
Sliced(t, c, e) == [i \in 1..e - c |-> [t[c + i] EXCEPT !.tx = i]]

(* The end of the batch of list t that starts after position c *)
EndOf(t, c) == IF c + Step > Len(t) THEN Len(t) ELSE c + Step

(* A whole number of batches of list t *)
Boundary(t, n) == n % Step = 0 \/ n = Len(t)

(* An import of list t on state b, which goes on after position x and once   *)
(* got to position r, has left the state f: under every key the outcome of   *)
(* some number of whole batches, x at least and r at most.                   *)
Progress(t, x, r, b, f) ==
  LET c == IF x < Len(t) THEN x ELSE Len(t)
  IN  /\ x % Step = 0
      /\ c <= r /\ r <= Len(t)
      /\ \A k \in Key : \E n \in c..r :
           Boundary(t, n) /\ f[k] = Outcome(b, t, 1..n, k)

(* CommitOperations never makes batches of nothing. *)
LEMMA StepPositive == Step \in Nat \ {0}
BY ImportsAssumption DEF Step

(* The start of the next batch is a whole number of batches too. *)
LEMMA NextBoundary ==
  ASSUME NEW s \in Nat \ {0}, NEW x \in Nat, x % s = 0
  PROVE  (x + s) % s = 0
<1>1. x = s * (x \div s) + (x % s)
  OBVIOUS
<1>2. PICK q \in Nat : x = s * q
  BY <1>1
<1>3. x + s = s * (q + 1)
  BY <1>2
<1>4. (s * (q + 1)) % s = 0
  OBVIOUS
<1> QED
  BY <1>3, <1>4

(* A slice is a list of the same operations in transactions of their own. *)
LEMMA SliceType ==
  ASSUME NEW t \in Seq(Operation), NEW c \in Nat, NEW e \in Nat, c <= e, e <= Len(t)
  PROVE  /\ Sliced(t, c, e) \in Seq(Operation)
         /\ DOMAIN Sliced(t, c, e) = 1..e - c
         /\ \A i \in 1..e - c :
              /\ c + i \in DOMAIN t
              /\ Sliced(t, c, e)[i].key = t[c + i].key
              /\ Effect(Sliced(t, c, e)[i]) = Effect(t[c + i])
<1>1. \A op \in Operation, n \in Nat :
        /\ [op EXCEPT !.tx = n] \in Operation
        /\ [op EXCEPT !.tx = n].key = op.key
        /\ [op EXCEPT !.tx = n].value = op.value
        /\ [op EXCEPT !.tx = n].delete = op.delete
  BY DEF Operation
<1>2. e - c \in Nat
  OBVIOUS
<1>3. \A i \in 1..e - c : i \in Nat /\ c + i \in DOMAIN t /\ t[c + i] \in Operation
  OBVIOUS
<1>4. \A i \in 1..e - c : Sliced(t, c, e)[i] = [t[c + i] EXCEPT !.tx = i]
  BY DEF Sliced
<1>5. DOMAIN Sliced(t, c, e) = 1..e - c
  BY DEF Sliced
<1>6. ASSUME NEW i \in 1..e - c
      PROVE  /\ Sliced(t, c, e)[i] \in Operation
             /\ Sliced(t, c, e)[i].key = t[c + i].key
             /\ Effect(Sliced(t, c, e)[i]) = Effect(t[c + i])
  <2> DEFINE op == t[c + i]
             cut == Sliced(t, c, e)[i]
  <2>1. op \in Operation /\ i \in Nat /\ cut = [op EXCEPT !.tx = i]
    BY <1>3, <1>4
  <2> HIDE DEF op, cut
  <2>2. /\ cut \in Operation /\ cut.key = op.key
        /\ cut.value = op.value /\ cut.delete = op.delete
    BY <1>1, <2>1
  <2>3. Effect(cut) = Effect(op)
    BY <2>2 DEF Effect
  <2> QED
    BY <2>2, <2>3 DEF op, cut
<1>7. Sliced(t, c, e) \in Seq(Operation)
  <2>1. Sliced(t, c, e) = [i \in 1..e - c |-> Sliced(t, c, e)[i]]
    BY DEF Sliced
  <2> QED
    BY <1>2, <1>6, <2>1
<1> QED
  BY <1>3, <1>5, <1>6, <1>7

(* A slice leaves alone the keys it does not touch; under the others it      *)
(* leaves what the list up to the end of the slice leaves, whatever state    *)
(* that started from.                                                        *)
LEMMA SliceOutcome ==
  ASSUME NEW t \in Seq(Operation), NEW c \in Nat, NEW e \in Nat, c <= e, e <= Len(t),
         NEW f, NEW k \in Key
  PROVE  \/ /\ \A j \in (c + 1)..e : t[j].key # k
            /\ Apply(f, Sliced(t, c, e))[k] = f[k]
         \/ \A b : Apply(f, Sliced(t, c, e))[k] = Outcome(b, t, 1..e, k)
<1> DEFINE l == Sliced(t, c, e)
           T == On(l, k) \cap DOMAIN l
           U == On(t, k) \cap (1..e)
           m == Max(T)
<1>1. /\ l \in Seq(Operation) /\ DOMAIN l = 1..e - c
      /\ \A i \in 1..e - c : /\ c + i \in DOMAIN t /\ l[i].key = t[c + i].key
                             /\ Effect(l[i]) = Effect(t[c + i])
  BY SliceType
<1>2. Apply(f, l)[k] = Outcome(f, l, DOMAIN l, k)
  BY DEF Apply
<1> HIDE DEF l
<1>3. CASE T = {}
  <2>1. \A i \in 1..e - c : t[c + i].key # k
    BY <1>1, <1>3 DEF On
  <2>2. ASSUME NEW j \in (c + 1)..e PROVE t[j].key # k
    <3>1. j - c \in 1..e - c /\ c + (j - c) = j
      OBVIOUS
    <3> QED
      BY <2>1, <3>1
  <2>3. Outcome(f, l, DOMAIN l, k) = f[k]
    BY <1>3 DEF Outcome
  <2> QED
    BY <1>2, <2>2, <2>3 DEF l
<1>4. CASE T # {}
  <2>1. T \subseteq Nat /\ e - c \in Nat /\ \A x \in T : x <= e - c
    BY <1>1
  <2>2. m \in T /\ \A y \in T : y <= m
    <3> HIDE DEF T
    <3> QED
      BY <1>4, <2>1, GreatestNat
  <2>3. m \in 1..e - c /\ l[m].key = k
    BY <1>1, <2>2 DEF On
  <2>4. c + m \in U /\ U \subseteq Nat
    <3>1. c + m \in 1..e /\ DOMAIN t = 1..Len(t)
      BY <2>3
    <3> HIDE DEF m
    <3> QED
      BY <1>1, <2>3, <3>1 DEF On
  <2>5. \A y \in U : y <= c + m
    <3>1. m \in Nat
      BY <2>3
    <3>2. \A i \in 1..e - c : t[c + i].key = k => i \in T
      BY <1>1 DEF On
    <3> HIDE DEF m, T
    <3> TAKE y \in U
    <3>3. y \in 1..e /\ t[y].key = k
      BY DEF On
    <3>4. CASE y <= c
      BY <3>1, <3>3, <3>4
    <3>5. CASE y > c
      <4>1. y - c \in 1..e - c /\ c + (y - c) = y
        BY <3>3, <3>5
      <4>2. y - c <= m
        BY <2>2, <3>2, <3>3, <4>1
      <4> QED
        BY <3>1, <3>3, <4>2
    <3> QED
      BY <3>3, <3>4, <3>5
  <2>6. Max(U) = c + m
    <3> HIDE DEF U, m
    <3> QED
      BY <2>4, <2>5, MaxIs
  <2>7. Outcome(f, l, DOMAIN l, k) = Effect(l[m])
    BY <1>4 DEF Outcome
  <2>8. ASSUME NEW b PROVE Outcome(b, t, 1..e, k) = Effect(t[c + m])
    BY <2>4, <2>6 DEF Outcome
  <2>9. Effect(l[m]) = Effect(t[c + m])
    BY <1>1, <2>3
  <2> QED
    BY <1>2, <2>7, <2>8, <2>9 DEF l
<1> QED
  BY <1>3, <1>4

(* Positions that do not touch a key do not change what it holds. *)
LEMMA Untouched ==
  ASSUME NEW t \in Seq(Operation), NEW n \in Nat, NEW e \in Nat, n <= e, e <= Len(t),
         NEW b, NEW k, \A j \in (n + 1)..e : t[j].key # k
  PROVE  Outcome(b, t, 1..n, k) = Outcome(b, t, 1..e, k)
<1>1. On(t, k) \cap (1..n) = On(t, k) \cap (1..e)
  BY DEF On
<1> QED
  BY <1>1 DEF Outcome

(* A batch that runs, with or without the import going on to the next one,   *)
(* leaves whole batches behind.                                              *)
LEMMA BatchRuns ==
  ASSUME NEW t \in Seq(Operation), NEW x \in Nat, NEW r \in Nat, NEW b, NEW f,
         x < Len(t), Progress(t, x, r, b, f),
         NEW r2, r2 = IF EndOf(t, x) > r THEN EndOf(t, x) ELSE r
  PROVE  LET g == Apply(f, Sliced(t, x, EndOf(t, x)))
         IN  /\ Progress(t, x, r2, b, g) /\ Progress(t, x + Step, r2, b, g)
             /\ x <= EndOf(t, x) /\ EndOf(t, x) <= Len(t) /\ EndOf(t, x) \in Nat
             /\ r2 \in Nat
<1> DEFINE e == EndOf(t, x)
           g == Apply(f, Sliced(t, x, e))
           s == Step
<1>1. s \in Nat \ {0} /\ Len(t) \in Nat
  BY StepPositive
<1>2. e = IF x + s > Len(t) THEN Len(t) ELSE x + s
  BY DEF EndOf
<1>3. /\ x % s = 0 /\ x <= r /\ r <= Len(t)
      /\ \A k \in Key : \E n \in x..r : Boundary(t, n) /\ f[k] = Outcome(b, t, 1..n, k)
  BY DEF Progress
<1> HIDE DEF s, e
<1>4. e \in Nat /\ x <= e /\ e <= Len(t) /\ e = IF x + s < Len(t) THEN x + s ELSE Len(t)
  BY <1>1, <1>2
<1>5. r2 \in Nat /\ r <= r2 /\ e <= r2 /\ r2 <= Len(t)
  BY <1>1, <1>3, <1>4 DEF e
<1>6. (x + s) % s = 0
  BY <1>1, <1>3, NextBoundary
<1>7. Boundary(t, e)
  BY <1>4, <1>6 DEF Boundary, s
<1>8. ASSUME NEW k \in Key
      PROVE  \E n \in e..r2 : Boundary(t, n) /\ g[k] = Outcome(b, t, 1..n, k)
  <2>1. e \in e..r2
    BY <1>4, <1>5
  <2>2. CASE /\ \A j \in (x + 1)..e : t[j].key # k
             /\ g[k] = f[k]
    <3>1. PICK n \in x..r : Boundary(t, n) /\ f[k] = Outcome(b, t, 1..n, k)
      BY <1>3
    <3>2. n \in Nat
      OBVIOUS
    <3>3. CASE n >= e
      <4>1. n \in e..r2
        BY <1>4, <1>5, <3>2, <3>3
      <4> QED
        BY <2>2, <3>1, <4>1
    <3>4. CASE n < e
      <4>1. n <= e /\ \A j \in (n + 1)..e : t[j].key # k
        BY <1>4, <2>2, <3>2, <3>4
      <4>2. Outcome(b, t, 1..n, k) = Outcome(b, t, 1..e, k)
        BY <1>4, <3>2, <4>1, Untouched
      <4> QED
        BY <1>7, <2>1, <2>2, <3>1, <4>2
    <3> QED
      BY <1>4, <3>2, <3>3, <3>4
  <2>3. CASE \A a : g[k] = Outcome(a, t, 1..e, k)
    BY <1>7, <2>1, <2>3
  <2> QED
    BY <1>4, <2>2, <2>3, SliceOutcome
<1>9. \A n \in e..r2 : n \in x..r2
  BY <1>4, <1>5
<1> HIDE DEF g
<1>10. Progress(t, x, r2, b, g)
  BY <1>3, <1>4, <1>5, <1>8, <1>9 DEF Progress, s
<1>11. Progress(t, x + s, r2, b, g)
  BY <1>4, <1>5, <1>6, <1>8 DEF Progress, s
<1> QED
  BY <1>4, <1>5, <1>10, <1>11 DEF e, g, s

(* An import that begins has made the progress of none of its batches. *)
LEMMA Begins ==
  ASSUME NEW t \in Seq(Operation), NEW f
  PROVE  Progress(t, 0, 0, f, f)
<1>1. Len(t) \in Nat /\ 0 \in 0..0 /\ Step \in Nat \ {0}
  BY StepPositive
<1>2. 0 % Step = 0
  BY <1>1
<1>3. ASSUME NEW k PROVE f[k] = Outcome(f, t, 1..0, k)
  <2>1. On(t, k) \cap (1..0) = {}
    OBVIOUS
  <2> QED
    BY <2>1 DEF Outcome
<1> QED
  BY <1>1, <1>2, <1>3 DEF Progress, Boundary

(* An import that has come to the end of its list has run all of it. *)
LEMMA Finished ==
  ASSUME NEW t \in Seq(Operation), NEW x \in Nat, NEW r \in Nat, NEW b,
         NEW f \in StateType, x >= Len(t), Progress(t, x, r, b, f)
  PROVE  f = Apply(b, t)
<1>1. Len(t) \in Nat /\ 1..Len(t) = DOMAIN t
  OBVIOUS
<1>2. r = Len(t)
  BY <1>1 DEF Progress
<1>3. \A n \in Len(t)..r : n = Len(t)
  BY <1>1, <1>2
<1>4. \A k \in Key : \E n \in Len(t)..r : f[k] = Outcome(b, t, 1..n, k)
  BY <1>1 DEF Progress
<1>5. \A k \in Key : f[k] = Outcome(b, t, DOMAIN t, k)
  BY <1>1, <1>3, <1>4
<1>6. f = [k \in Key |-> f[k]]
  BY DEF StateType
<1> QED
  BY <1>5, <1>6, Zenon DEF Apply

(* The import may be started again from the beginning of its list. *)
LEMMA BeginsAgain ==
  ASSUME NEW t \in Seq(Operation), NEW x \in Nat, NEW r \in Nat, NEW b, NEW f,
         Progress(t, x, r, b, f)
  PROVE  Progress(t, 0, r, b, f)
<1> DEFINE c == IF x < Len(t) THEN x ELSE Len(t)
<1>1. Len(t) \in Nat /\ c \in Nat /\ Step \in Nat \ {0}
  BY StepPositive
<1>2. 0 % Step = 0
  BY <1>1
<1>3. \A n \in c..r : n \in 0..r
  BY <1>1
<1>4. /\ c <= r /\ r <= Len(t)
      /\ \A k \in Key : \E n \in c..r : Boundary(t, n) /\ f[k] = Outcome(b, t, 1..n, k)
  BY DEF Progress
<1>5. (IF 0 < Len(t) THEN 0 ELSE Len(t)) = 0
  BY <1>1
<1> HIDE DEF c
<1> QED
  BY <1>1, <1>2, <1>3, <1>4, <1>5 DEF Progress
-------------------------------------------------------------------------------
(* The engine under these callers *)

ImportTyped ==
  /\ status \in {"none", "running", "failed", "done"}
  /\ todo \in Seq(Operation)
  /\ next \in Nat /\ reached \in Nat
  /\ log \in [list : Seq(Operation), at : Nat \cup {-1}]

LEMMA NoLogType ==
  /\ NoLog \in [list : Seq(Operation), at : Nat \cup {-1}]
  /\ \A l \in Seq(Operation), n \in Nat \cup {-1} :
       /\ [list |-> l, at |-> n] \in [list : Seq(Operation), at : Nat \cup {-1}]
       /\ [list |-> l, at |-> n].list = l /\ [list |-> l, at |-> n].at = n
<1>1. <<>> \in Seq(Operation) /\ -1 \in Nat \cup {-1}
  OBVIOUS
<1> QED
  BY <1>1 DEF NoLog

(* The slice CommitOperations commits *)
LEMMA SliceIs ==
  ASSUME ImportTyped, next < Len(todo)
  PROVE  /\ BatchEnd(next) = EndOf(todo, next)
         /\ Slice = Sliced(todo, next, EndOf(todo, next))
         /\ Slice \in Seq(Operation)
         /\ BatchEnd(next) \in Nat
<1>1. todo \in Seq(Operation) /\ next \in Nat /\ Len(todo) \in Nat
  BY DEF ImportTyped
<1>2. BatchEnd(next) = EndOf(todo, next) /\ Slice = Sliced(todo, next, EndOf(todo, next))
  BY DEF BatchEnd, EndOf, Slice, Sliced
<1>3. EndOf(todo, next) \in Nat /\ next <= EndOf(todo, next) /\ EndOf(todo, next) <= Len(todo)
  BY <1>1, StepPositive DEF EndOf
<1> QED
  BY <1>1, <1>2, <1>3, SliceType

(* A call of Commit is a step of the engine or leaves it alone, and the log  *)
(* it leaves is a list of operations.                                        *)
LEMMA CallStep ==
  ASSUME ImportTyped, NEW l \in Seq(Operation), NEW n \in Nat \cup {-1},
         Commits(l) \/ Refused(l) \/ CommitFails(l, n)
  PROVE  /\ log' \in [list : Seq(Operation), at : Nat \cup {-1}]
         /\ AnyNext \/ UNCHANGED vars
<1>1. CASE Commits(l)
  BY <1>1, NoLogType DEF Commits, AnyNext
<1>2. CASE Refused(l)
  BY <1>2 DEF Refused, diskVars, ImportTyped, AnyNext
<1>3. CASE CommitFails(l, n)
  <2>1. UNCHANGED vars /\ (log' = log \/ log' = [list |-> l, at |-> n])
    BY <1>3 DEF CommitFails
  <2> QED
    BY <2>1, NoLogType DEF ImportTyped
<1> QED
  BY <1>1, <1>2, <1>3

(* Every step of a caller is a step of the engine or leaves it alone. *)
LEMMA CallerStep ==
  ASSUME ImportTyped, [ExecNext]_execVars
  PROVE  ImportTyped' /\ [AnyNext]_vars
<1>0. -1 \in Nat \cup {-1}
  OBVIOUS
<1>1. CASE ExecOpen
  BY <1>1 DEF ExecOpen, importVars, ImportTyped, AnyNext
<1>2. CASE ExecClose
  BY <1>2 DEF ExecClose, ImportTyped, AnyNext
<1>3. ASSUME NoImport, log' \in [list : Seq(Operation), at : Nat \cup {-1}] PROVE ImportTyped'
  <2>1. <<>> \in Seq(Operation)
    OBVIOUS
  <2> QED
    BY <1>3, <2>1 DEF NoImport, ImportTyped
<1>4. ASSUME NEW bundle \in Bundles, CommitExecution(bundle)
      PROVE  ImportTyped' /\ [AnyNext]_vars
  <2>1. PICK l \in Lists(bundle) : CommitCalled(l)
    BY <1>4 DEF CommitExecution
  <2>2. l \in Seq(Operation)
    BY ListsType
  <2>3. /\ log' \in [list : Seq(Operation), at : Nat \cup {-1}]
        /\ AnyNext \/ UNCHANGED vars
    BY <1>0, <2>1, <2>2, CallStep DEF CommitCalled
  <2> QED
    BY <1>3, <1>4, <2>3 DEF CommitExecution, Elsewhere
<1>5. ASSUME NEW call \in Helpers, PutHelper(call) PROVE ImportTyped' /\ [AnyNext]_vars
  <2> DEFINE l == [i \in DOMAIN call |-> PutOp(HelperKey(call[i]), call[i])]
  <2>1. CommitCalled(l)
    BY <1>5 DEF PutHelper
  <2>2. l \in Seq(Operation)
    <3>1. /\ call \in Seq({call[i] : i \in DOMAIN call})
          /\ \A i \in DOMAIN call : PutOp(HelperKey(call[i]), call[i]) \in Operation
      BY HelpersAssumption
    <3>2. Len(call) \in Nat /\ DOMAIN call = 1..Len(call)
      BY <3>1
    <3> QED
      BY <3>1, <3>2
  <2> HIDE DEF l
  <2>3. /\ log' \in [list : Seq(Operation), at : Nat \cup {-1}]
        /\ AnyNext \/ UNCHANGED vars
    BY <1>0, <2>1, <2>2, CallStep DEF CommitCalled
  <2> QED
    BY <1>3, <1>5, <2>3 DEF PutHelper, Elsewhere
<1>6. ASSUME NEW entries, JsonRefused(entries) PROVE ImportTyped' /\ UNCHANGED vars
  BY <1>3, <1>6 DEF JsonRefused, Elsewhere, diskVars, ImportTyped
<1>7. ASSUME NEW list \in Imports, StartImport(list) PROVE ImportTyped' /\ UNCHANGED vars
  <2>1. list \in Seq(Operation)
    BY ImportsAssumption
  <2>2. log' \in [list : Seq(Operation), at : Nat \cup {-1}]
    BY <1>0, <1>7 DEF StartImport, ImportTyped
  <2> QED
    BY <1>7, <2>1, <2>2 DEF StartImport, ImportTyped
<1>8. CASE ImportBatch
  <2>1. next < Len(todo)
    BY <1>8 DEF ImportBatch
  <2>2. Slice \in Seq(Operation) /\ BatchEnd(next) \in Nat
    BY <2>1, SliceIs
  <2>3. Commits(Slice) \/ Refused(Slice)
    BY <1>8 DEF ImportBatch
  <2>4. /\ log' \in [list : Seq(Operation), at : Nat \cup {-1}]
        /\ AnyNext \/ UNCHANGED vars
    BY <1>0, <2>2, <2>3, CallStep
  <2>5. ImportTyped'
    BY <1>8, <2>2, <2>4, StepPositive DEF ImportBatch, Reaches, ImportTyped
  <2> QED
    BY <2>4, <2>5
<1>9. CASE ImportFails
  <2>1. next < Len(todo) /\ next \in Nat \cup {-1}
    BY <1>9 DEF ImportFails, ImportTyped
  <2>2. Slice \in Seq(Operation) /\ BatchEnd(next) \in Nat
    BY <2>1, SliceIs
  <2>3. Commits(Slice) \/ Refused(Slice) \/ CommitFails(Slice, next)
    BY <1>9 DEF ImportFails
  <2>4. /\ log' \in [list : Seq(Operation), at : Nat \cup {-1}]
        /\ AnyNext \/ UNCHANGED vars
    BY <2>1, <2>2, <2>3, CallStep
  <2>5. reached' \in Nat
    BY <1>9, <2>2 DEF ImportFails, Reaches, ImportTyped
  <2>6. ImportTyped'
    BY <1>9, <2>4, <2>5 DEF ImportFails, ImportTyped
  <2> QED
    BY <2>4, <2>6
<1>10. CASE ImportEnds
  BY <1>10 DEF ImportEnds, diskVars, ImportTyped
<1>11. CASE RetryImport
  BY <1>11 DEF RetryImport, diskVars, ImportTyped
<1>12. CASE UNCHANGED execVars
  BY <1>12 DEF execVars, importVars, diskVars, ImportTyped
<1>13. CASE OpenFails
  BY <1>12, <1>13 DEF OpenFails
<1>14. CASE Replay
  <2>1. log.list \in Seq(Operation) /\ Commit(log.list) /\ log' = NoLog
    BY <1>14 DEF Replay, ImportTyped
  <2>2. AnyNext
    BY <2>1 DEF AnyNext
  <2>3. CASE NoImport
    BY <1>3, <2>1, <2>2, <2>3, NoLogType
  <2>4. CASE log.at < 0 /\ reached' = 0 /\ UNCHANGED <<status, todo, next>>
    BY <2>1, <2>2, <2>4, NoLogType DEF ImportTyped
  <2>5. CASE /\ log.at >= 0 /\ Reaches(BatchEnd(log.at))
             /\ UNCHANGED <<status, todo, next, base>>
    <3>1. log.at \in Nat /\ Len(todo) \in Nat /\ Step \in Nat
      BY <2>5, StepPositive DEF ImportTyped
    <3>2. BatchEnd(log.at) \in Nat
      BY <3>1 DEF BatchEnd
    <3> QED
      BY <2>1, <2>2, <2>5, <3>2, NoLogType DEF Reaches, ImportTyped
  <2> QED
    BY <1>14, <2>3, <2>4, <2>5 DEF Replay
<1> QED
  BY <1>1, <1>2, <1>4, <1>5, <1>6, <1>7, <1>8, <1>9, <1>10, <1>11, <1>12, <1>13, <1>14
  DEF ExecNext

(* The engine under CommitExecution, the Put helpers and CommitOperations    *)
(* behaves as the engine of Engine with some callers. So Engine's theorems   *)
(* hold of it.                                                               *)
THEOREM CallersImplementEngine == ExecSpec => AnySpec
<1>1. ExecInit => Init /\ ImportTyped
  BY NoLogType DEF ExecInit, ImportTyped
<1>2. ImportTyped /\ [ExecNext]_execVars => ImportTyped' /\ [AnyNext]_vars
  BY CallerStep
<1> QED
  BY <1>1, <1>2, PTL DEF ExecSpec, AnySpec

(* The types of the import's variables *)
LEMMA ImportsTyped == ExecSpec => []ImportTyped
<1>1. ExecInit => ImportTyped
  BY NoLogType DEF ExecInit, ImportTyped
<1>2. ImportTyped /\ [ExecNext]_execVars => ImportTyped'
  BY CallerStep
<1> QED
  BY <1>1, <1>2, PTL DEF ExecSpec

(* The state a restart would find in the segments *)
Kept(chain) == StateBefore(chain, Len(chain) + 1)

(* The inductive invariant. WholeBatches and RetryConverges speak of the     *)
(* state in memory, which a crash empties: the progress of an import is that *)
(* of the segments. A retry runs batches over a state that later ones have   *)
(* been at already, so that every key is between two numbers of batches: the *)
(* ones this attempt has run and the ones any attempt has.                   *)
ImportInv ==
  /\ status = "running" => Progress(todo, next, reached, base, Kept(stored))
  /\ status = "failed" => Progress(todo, 0, reached, base, Kept(stored))
  /\ status = "done" => Kept(stored) = Apply(base, todo)

(* The log that Open will replay is the batch of this import that follows on *)
(* what is in the segments, or it is older than the import, which has then   *)
(* committed nothing.                                                        *)
LogInv ==
  log # NoLog /\ status \in {"running", "failed"} =>
    IF log.at >= 0
    THEN /\ log.at < Len(todo)
         /\ log.list = Sliced(todo, log.at, EndOf(todo, log.at))
         /\ Progress(todo, log.at, reached, base, Kept(stored))
    ELSE Kept(stored) = base

(* What the engine's invariants say of a step *)
Engaged == ChainInv /\ RestartTransparent

(* A list that is committed, or passed over because it changes nothing,      *)
(* takes the state in the segments to what its operations make of it.        *)
LEMMA BatchState ==
  ASSUME Engaged, Engaged', NEW l \in Seq(Operation),
         Commit(l) \/ (WellFormed(l) /\ CommitRefused(l))
  PROVE  Kept(stored') = Apply(Kept(stored), l)
<1>2. Apply(state, Filtered(state, l)) = Apply(state, l)
  BY ReplayOfSurvivors
<1>3. up /\ up'
  BY DEF Commit, CommitRefused, vars
<1>4. Kept(stored) = state /\ Kept(stored') = state'
  BY <1>3 DEF Engaged, RestartTransparent, Kept
<1>5. CASE Commit(l)
  BY <1>2, <1>4, <1>5 DEF Commit
<1>6. CASE WellFormed(l) /\ CommitRefused(l)
  <2>1. DOMAIN Filtered(state, l) = {} /\ state' = state
    BY <1>6 DEF CommitRefused, vars
  <2>2. \A k \in Key : Outcome(state, Filtered(state, l), DOMAIN Filtered(state, l), k) = state[k]
    BY <2>1 DEF Outcome, On
  <2>3. state \in StateType
    BY DEF Engaged, ChainInv, TypeOK
  <2>4. state = [k \in Key |-> state[k]]
    BY <2>3 DEF StateType
  <2>5. Apply(state, Filtered(state, l)) = state
    BY <2>2, <2>4, Zenon DEF Apply
  <2> QED
    BY <1>2, <1>4, <2>1, <2>5
<1> QED
  BY <1>5, <1>6

(* An import may have been further than needed. *)
LEMMA FurtherReached ==
  ASSUME NEW t \in Seq(Operation), NEW x \in Nat, NEW r \in Nat, NEW r2 \in Nat, NEW b, NEW f,
         Progress(t, x, r, b, f), r <= r2, r2 <= Len(t)
  PROVE  Progress(t, x, r2, b, f)
<1> DEFINE c == IF x < Len(t) THEN x ELSE Len(t)
<1>1. c \in Nat /\ Len(t) \in Nat
  OBVIOUS
<1>2. /\ x % Step = 0 /\ c <= r
      /\ \A k \in Key : \E n \in c..r : Boundary(t, n) /\ f[k] = Outcome(b, t, 1..n, k)
  BY DEF Progress
<1> HIDE DEF c
<1>3. c <= r2 /\ \A n \in c..r : n \in c..r2
  BY <1>1, <1>2
<1>4. \A k \in Key : \E n \in c..r2 : Boundary(t, n) /\ f[k] = Outcome(b, t, 1..n, k)
  BY <1>2, <1>3
<1> QED
  BY <1>2, <1>3, <1>4 DEF Progress, c

(* A batch that is committed or passed over *)
LEMMA BatchStep ==
  ASSUME ImportTyped, ImportInv, LogInv, Engaged, Engaged',
         status = "running", next < Len(todo),
         Commits(Slice) \/ (WellFormed(Slice) /\ Refused(Slice)),
         Reaches(BatchEnd(next)), todo' = todo, base' = base
  PROVE  /\ Progress(todo, next, reached', base, Kept(stored'))
         /\ Progress(todo, next + Step, reached', base, Kept(stored'))
         /\ status' \in {"running", "failed"} => LogInv'
<1> DEFINE e == EndOf(todo, next)
           g == Apply(Kept(stored), Sliced(todo, next, e))
<1>1. todo \in Seq(Operation) /\ next \in Nat /\ reached \in Nat /\ Len(todo) \in Nat
  BY DEF ImportTyped
<1>2. reached' = IF e > reached THEN e ELSE reached
  BY SliceIs DEF Reaches
<1>3. Kept(stored') = g
  BY SliceIs, BatchState DEF Commits, Refused
<1>4. Progress(todo, next, reached, base, Kept(stored))
  BY DEF ImportInv
<1>5. /\ Progress(todo, next, reached', base, g) /\ Progress(todo, next + Step, reached', base, g)
      /\ reached' \in Nat
  BY <1>1, <1>2, <1>4, BatchRuns
<1> HIDE DEF g, e
<1>6. reached <= reached' /\ reached' <= Len(todo)
  <2>1. reached' <= Len(todo)
    BY <1>5 DEF Progress
  <2>2. EndOf(todo, next) \in Nat
    BY <1>1, StepPositive DEF EndOf
  <2> QED
    BY <1>1, <1>2, <2>1, <2>2 DEF e
<1>7. CASE Commits(Slice)
  BY <1>3, <1>5, <1>7 DEF Commits, LogInv
<1>8. CASE Refused(Slice)
  <2>1. log' = log /\ stored' = stored
    BY <1>8 DEF Refused, diskVars, CommitRefused, vars
  <2>2. ASSUME log # NoLog, log.at >= 0
        PROVE  /\ log.at < Len(todo)
               /\ log.list = Sliced(todo, log.at, EndOf(todo, log.at))
               /\ Progress(todo, log.at, reached', base, Kept(stored))
    <3>1. /\ log.at < Len(todo)
          /\ log.list = Sliced(todo, log.at, EndOf(todo, log.at))
          /\ Progress(todo, log.at, reached, base, Kept(stored))
      BY <2>2 DEF LogInv
    <3>2. log.at \in Nat
      BY <2>2 DEF ImportTyped
    <3> QED
      BY <1>1, <1>5, <1>6, <3>1, <3>2, FurtherReached
  <2>3. log # NoLog /\ ~(log.at >= 0) => Kept(stored) = base
    BY DEF LogInv
  <2>4. LogInv'
    BY <2>1, <2>2, <2>3 DEF LogInv
  <2> QED
    BY <1>3, <1>5, <2>4
<1> QED
  BY <1>7, <1>8

(* Open replays the log. *)
LEMMA ReplayStep ==
  ASSUME ImportTyped, ImportInv, LogInv, Engaged, Engaged', Replay
  PROVE  ImportInv' /\ LogInv'
<1>1. /\ opening /\ Commit(log.list) /\ log' = NoLog
      /\ \/ /\ status = "failed" /\ log.at >= 0 /\ Reaches(BatchEnd(log.at))
            /\ UNCHANGED <<status, todo, next, base>>
         \/ /\ status = "failed" /\ log.at < 0 /\ base' = state' /\ reached' = 0
            /\ UNCHANGED <<status, todo, next>>
         \/ NoImport
  BY DEF Replay
<1>2. LogInv'
  BY <1>1 DEF LogInv
<1>3. todo \in Seq(Operation) /\ reached \in Nat /\ Len(todo) \in Nat /\ log.list \in Seq(Operation)
  BY DEF ImportTyped
<1>4. Kept(stored') = Apply(Kept(stored), log.list) /\ Kept(stored') = state'
  <2>1. up'
    BY <1>1 DEF Commit
  <2> QED
    BY <1>1, <1>3, <2>1, BatchState DEF Engaged, RestartTransparent, Kept
<1>5. CASE /\ status = "failed" /\ log.at >= 0 /\ Reaches(BatchEnd(log.at))
           /\ UNCHANGED <<status, todo, next, base>>
  <2> DEFINE x == log.at
             e == EndOf(todo, x)
             g == Apply(Kept(stored), Sliced(todo, x, e))
  <2>1. log # NoLog
    BY <1>5 DEF NoLog
  <2>2. /\ x \in Nat /\ x < Len(todo) /\ log.list = Sliced(todo, x, e)
        /\ Progress(todo, x, reached, base, Kept(stored))
    BY <1>5, <2>1 DEF LogInv, ImportTyped
  <2>3. reached' = IF e > reached THEN e ELSE reached
    BY <1>5 DEF Reaches, BatchEnd, EndOf
  <2>4. Progress(todo, x, reached', base, g) /\ reached' \in Nat
    BY <1>3, <2>2, <2>3, BatchRuns
  <2>5. Progress(todo, 0, reached', base, g)
    BY <1>3, <2>2, <2>4, BeginsAgain
  <2>6. Kept(stored') = g
    BY <1>4, <2>2
  <2> HIDE DEF g
  <2> QED
    BY <1>2, <1>5, <2>5, <2>6 DEF ImportInv
<1>6. CASE /\ status = "failed" /\ base' = state' /\ reached' = 0
           /\ UNCHANGED <<status, todo, next>>
  <2>1. Progress(todo, 0, 0, state', state')
    BY <1>3, Begins
  <2> QED
    BY <1>2, <1>4, <1>6, <2>1 DEF ImportInv
<1>7. CASE NoImport
  BY <1>2, <1>7 DEF NoImport, ImportInv
<1> QED
  BY <1>1, <1>5, <1>6, <1>7

(* The invariants are preserved by every step. *)
LEMMA ImportStep ==
  ASSUME ImportTyped, ImportInv, LogInv, Engaged, Engaged', [ExecNext]_execVars
  PROVE  ImportInv' /\ LogInv'
<1>0. todo \in Seq(Operation) /\ next \in Nat /\ reached \in Nat /\ Len(todo) \in Nat
  BY DEF ImportTyped
<1>1. ASSUME UNCHANGED <<stored, todo, next, base, reached, log>>, status' = status
      PROVE  ImportInv' /\ LogInv'
  BY <1>1 DEF ImportInv, LogInv
<1>2. status = "running" => Progress(todo, 0, reached, base, Kept(stored))
  BY <1>0, BeginsAgain DEF ImportInv
<1>3. ASSUME UNCHANGED <<stored, todo, base, reached, log>>, status = "running", status' = "failed"
      PROVE  ImportInv' /\ LogInv'
  BY <1>2, <1>3 DEF ImportInv, LogInv
<1>4. CASE ExecOpen \/ OpenFails \/ UNCHANGED execVars
  BY <1>1, <1>4 DEF ExecOpen, OpenFails, Open, execVars, importVars, diskVars, vars
<1>5. CASE ExecClose
  BY <1>1, <1>3, <1>5 DEF ExecClose, Close
<1>6. ASSUME NoImport PROVE ImportInv' /\ LogInv'
  BY <1>6 DEF NoImport, ImportInv, LogInv
<1>7. ASSUME NEW bundle, CommitExecution(bundle) \/ JsonRefused(bundle)
      PROVE  ImportInv' /\ LogInv'
  BY <1>6, <1>7 DEF CommitExecution, JsonRefused, Elsewhere
<1>8. ASSUME NEW call, PutHelper(call) PROVE ImportInv' /\ LogInv'
  BY <1>6, <1>8 DEF PutHelper, Elsewhere
<1>9. ASSUME NEW list \in Imports, StartImport(list) PROVE ImportInv' /\ LogInv'
  <2>1. /\ up /\ status' = "running" /\ todo' = list /\ next' = 0
        /\ base' = state /\ reached' = 0 /\ stored' = stored /\ log'.at = -1
    BY <1>9 DEF StartImport, vars, ImportTyped
  <2>2. Kept(stored) = state
    BY <2>1 DEF Engaged, RestartTransparent, Kept
  <2>3. list \in Seq(Operation) /\ ~(-1 >= 0)
    BY ImportsAssumption
  <2>4. Progress(list, 0, 0, state, state)
    BY <2>3, Begins
  <2>5. ImportInv'
    BY <2>1, <2>2, <2>4 DEF ImportInv
  <2>6. LogInv'
    BY <2>1, <2>2, <2>3 DEF LogInv
  <2> QED
    BY <2>5, <2>6
<1>10. CASE ImportBatch
  <2>1. /\ status = "running" /\ next < Len(todo)
        /\ Commits(Slice) \/ (WellFormed(Slice) /\ Refused(Slice))
        /\ next' = next + Step /\ Reaches(BatchEnd(next))
        /\ status' = "running" /\ todo' = todo /\ base' = base
    BY <1>10 DEF ImportBatch
  <2>2. Progress(todo, next + Step, reached', base, Kept(stored')) /\ LogInv'
    BY <2>1, BatchStep
  <2> QED
    BY <2>1, <2>2 DEF ImportInv
<1>11. CASE ImportFails
  <2>1. /\ status = "running" /\ next < Len(todo)
        /\ status' = "failed" /\ todo' = todo /\ next' = next /\ base' = base
    BY <1>11 DEF ImportFails
  <2>2. CASE Commits(Slice) /\ Reaches(BatchEnd(next))
    <3>1. Progress(todo, next, reached', base, Kept(stored')) /\ LogInv'
      BY <2>1, <2>2, BatchStep
    <3>2. reached' \in Nat
      BY <1>0, <2>1, <2>2, SliceIs DEF Reaches
    <3>3. Progress(todo, 0, reached', base, Kept(stored'))
      BY <1>0, <3>1, <3>2, BeginsAgain
    <3> QED
      BY <2>1, <3>1, <3>3 DEF ImportInv
  <2>3. CASE Refused(Slice) /\ UNCHANGED reached
    BY <1>3, <2>1, <2>3 DEF Refused, CommitRefused, diskVars, vars
  <2>4. CASE CommitFails(Slice, next) /\ UNCHANGED reached
    <3>1. stored' = stored /\ (log' = log \/ log' = [list |-> Slice, at |-> next])
      BY <2>4 DEF CommitFails, vars
    <3>2. CASE log' = log
      BY <1>3, <2>1, <2>4, <3>1, <3>2
    <3>3. CASE log' = [list |-> Slice, at |-> next]
      <4>1. Slice = Sliced(todo, next, EndOf(todo, next)) /\ next >= 0
        BY <1>0, <2>1, SliceIs
      <4>2. log'.list = Slice /\ log'.at = next
        BY <3>3
      <4>3. Progress(todo, next, reached, base, Kept(stored))
        BY <2>1 DEF ImportInv
      <4>4. LogInv'
        BY <2>1, <2>4, <3>1, <4>1, <4>2, <4>3 DEF LogInv
      <4>5. ImportInv'
        BY <1>2, <2>1, <2>4, <3>1 DEF ImportInv
      <4> QED
        BY <4>4, <4>5
    <3> QED
      BY <3>1, <3>2, <3>3
  <2> QED
    BY <1>11, <2>2, <2>3, <2>4 DEF ImportFails
<1>12. CASE ImportEnds
  <2>1. /\ status = "running" /\ next >= Len(todo) /\ status' = "done"
        /\ todo' = todo /\ base' = base /\ stored' = stored
    BY <1>12 DEF ImportEnds, vars
  <2>2. Progress(todo, next, reached, base, Kept(stored))
    BY <2>1 DEF ImportInv
  <2>3. Kept(stored) \in StateType
    BY StateBeforeType DEF Kept, Engaged, ChainInv, TypeOK
  <2>4. Kept(stored) = Apply(base, todo)
    BY <1>0, <2>1, <2>2, <2>3, Finished
  <2> QED
    BY <2>1, <2>4 DEF ImportInv, LogInv
<1>13. CASE RetryImport
  <2>1. /\ status = "failed" /\ status' = "running" /\ next' = 0
        /\ todo' = todo /\ base' = base /\ reached' = reached /\ stored' = stored /\ log' = log
    BY <1>13 DEF RetryImport, diskVars, vars
  <2> QED
    BY <2>1 DEF ImportInv, LogInv
<1>14. CASE Replay
  BY <1>14, ReplayStep
<1>15. ASSUME NEW call \in Helpers,
              PutHelper(call) \/ JsonRefused({call[i] : i \in DOMAIN call})
       PROVE  ImportInv' /\ LogInv'
  BY <1>7, <1>8, <1>15
<1> QED
  BY <1>4, <1>5, <1>7, <1>9, <1>10, <1>11, <1>12, <1>13, <1>14, <1>15 DEF ExecNext

(* Engine's invariants hold of the engine under these callers. *)
LEMMA EngineEngaged == ExecSpec => []Engaged
<1>1. ChainInv /\ BookInv => Engaged
  BY SameAfterRestart DEF Engaged
<1> QED
  BY <1>1, CallersImplementEngine, AnyChain, AnyBook, PTL

(* ImportInv and LogInv hold in every reachable state. *)
THEOREM ImportInvariant == ExecSpec => [](ImportInv /\ LogInv)
<1>1. ExecInit => ImportInv /\ LogInv
  BY DEF ExecInit, ImportInv, LogInv
<1>2. ImportTyped /\ ImportInv /\ LogInv /\ Engaged /\ Engaged' /\ [ExecNext]_execVars
        => ImportInv' /\ LogInv'
  BY ImportStep
<1> QED
  BY <1>1, <1>2, ImportsTyped, EngineEngaged, PTL DEF ExecSpec

(* WholeBatches: under every key, an import that has not ended shows the     *)
(* outcome of whole batches of CommitOperations, whatever failed and         *)
(* whatever log Open has replayed.                                           *)
THEOREM BatchesAreWhole == ExecSpec => []WholeBatches
<1>1. ImportTyped /\ ImportInv /\ Engaged => WholeBatches
  <2> SUFFICES ASSUME ImportTyped, ImportInv, Engaged, up, status \in {"running", "failed"},
                      NEW k \in Key
               PROVE  \E n \in 0..reached :
                        /\ n % Step = 0 \/ n = Len(todo)
                        /\ state[k] = Apply(base, SubSeq(todo, 1, n))[k]
    BY DEF WholeBatches
  <2>1. todo \in Seq(Operation) /\ next \in Nat /\ reached \in Nat /\ Len(todo) \in Nat
    BY DEF ImportTyped
  <2>2. Kept(stored) = state
    BY DEF Engaged, RestartTransparent, Kept
  <2>3. Progress(todo, 0, reached, base, state)
    BY <2>1, <2>2, BeginsAgain DEF ImportInv
  <2>4. PICK n \in 0..reached : Boundary(todo, n) /\ state[k] = Outcome(base, todo, 1..n, k)
    <3>1. (IF 0 < Len(todo) THEN 0 ELSE Len(todo)) = 0
      BY <2>1
    <3> QED
      BY <2>3, <3>1 DEF Progress
  <2>5. n \in 0..reached /\ n \in Nat /\ n <= Len(todo)
    BY <2>1, <2>3 DEF Progress
  <2>6. Apply(base, SubSeq(todo, 1, n))[k] = Outcome(base, todo, 1..n, k)
    <3> DEFINE p == SubSeq(todo, 1, n)
    <3>1. DOMAIN p = 1..n /\ \A i \in 1..n : p[i] = todo[i] /\ i \in DOMAIN todo
      BY <2>1, <2>5
    <3> HIDE DEF p
    <3>2. On(p, k) \cap DOMAIN p = On(todo, k) \cap (1..n)
      BY <3>1 DEF On
    <3>3. (On(todo, k) \cap (1..n)) \subseteq Nat
      OBVIOUS
    <3>4. On(todo, k) \cap (1..n) # {} => Max(On(todo, k) \cap (1..n)) \in 1..n
      <4> DEFINE T == On(todo, k) \cap (1..n)
      <4>1. T \subseteq Nat /\ \A y \in T : y <= n
        BY <2>5
      <4>2. T # {} => Max(T) \in T
        <5> HIDE DEF T
        <5> QED
          BY <2>5, <4>1, GreatestNat
      <4> QED
        BY <4>2
    <3>5. Outcome(base, p, DOMAIN p, k) = Outcome(base, todo, 1..n, k)
      BY <3>1, <3>2, <3>4 DEF Outcome
    <3> QED
      BY <3>5 DEF Apply, p
  <2> QED
    BY <2>4, <2>5, <2>6 DEF Boundary
<1> QED
  BY <1>1, ImportsTyped, ImportInvariant, EngineEngaged, PTL

(* RetryConverges: an import that ends, after whatever errors, crashes and   *)
(* replays, leaves what its list makes of the state it runs on: the one it   *)
(* was first started on, or what the replay of an older log has made of it.  *)
THEOREM RetriesConverge == ExecSpec => []RetryConverges
<1>1. ImportInv /\ Engaged => RetryConverges
  BY DEF ImportInv, Engaged, RestartTransparent, Kept, RetryConverges
<1> QED
  BY <1>1, ImportInvariant, EngineEngaged, PTL
===============================================================================
